\* Two executions, attempts of one request or not, against two lifecycle calls, upstream free to hang.
CONSTANTS
    None = None
    chat = chat
    alias = alias
    zen = zen
    native = native
    other = other
    conv = conv
    ses = ses
    req = req
    xSession = xSession
    xSource = xSource
    xSessionId = xSessionId
    xUA = xUA
    xUA2 = xUA2
    Models <- MCModels
    Segments <- MCModels
    LastSegment <- MCLastSegment
    Auths = {zen, native, other}
    NativeAuths = {native}
    HeaderNames <- MCHeaderNames
    SessionIDHeader = xSessionId
    Identities = {conv, ses}
    OpenCodeShaped = {ses}
    RequestIds = {req}
    Calls = {e1, e2}
    Stamps = {1}
    Configs <- OnlyDefault
    DefaultConfig <- MCDefault
    InterceptRequests = {}
    ExecuteRequests <- RegistryExecutes
    Intercepts = {}
    Executions = {e1, e2}
    Lifecycles = {l1, l2}
SPECIFICATION FairSpec
INVARIANTS
    LiveIsRegistered
    RegisteredIsRunning
PROPERTIES
    NeverOrphaned
    CompletionCancels
    LifecycleCancels
    CancelledEnds
CHECK_DEADLOCK FALSE

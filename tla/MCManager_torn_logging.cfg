\* Two overlapping lifecycle calls: each sets the logging switch after it has released the lock.
CONSTANTS
    None = None
    chat = chat
    alias = alias
    zen = zen
    native = native
    other = other
    conv = conv
    ses = ses
    req = req
    xSession = xSession
    xSource = xSource
    xSessionId = xSessionId
    xUA = xUA
    xUA2 = xUA2
    Models <- MCModels
    Segments <- MCModels
    LastSegment <- MCLastSegment
    Auths = {zen, native, other}
    NativeAuths = {native}
    HeaderNames <- MCHeaderNames
    SessionIDHeader = xSessionId
    Identities = {conv, ses}
    OpenCodeShaped = {ses}
    RequestIds = {req}
    Calls = {}
    Stamps = {1}
    Configs <- DefaultRenamed
    DefaultConfig <- MCDefault
    InterceptRequests = {}
    ExecuteRequests = {}
    Intercepts = {}
    Executions = {}
    Lifecycles = {l1, l2}
SPECIFICATION Spec
INVARIANTS
    LoggingFollowsConfig
CHECK_DEADLOCK FALSE

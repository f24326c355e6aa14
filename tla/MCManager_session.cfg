\* Interceptor and executor calls of one conversation and its credentials across a lifecycle call.
CONSTANTS
    None = None
    chat = chat
    alias = alias
    zen = zen
    native = native
    other = other
    conv = conv
    ses = ses
    req = req
    xSession = xSession
    xSource = xSource
    xSessionId = xSessionId
    xUA = xUA
    xUA2 = xUA2
    Models <- MCModels
    Segments <- MCModels
    LastSegment <- MCLastSegment
    Auths = {zen, native, other}
    NativeAuths = {native}
    HeaderNames <- MCHeaderNames
    SessionIDHeader = xSessionId
    Identities = {conv, ses}
    OpenCodeShaped = {ses}
    RequestIds = {req}
    Calls = {i1, i2, e1}
    Stamps = {1, 2}
    Configs <- DefaultPlain
    DefaultConfig <- MCDefault
    InterceptRequests <- SessionIntercepts
    ExecuteRequests <- SessionExecutes
    Intercepts = {i1, i2}
    Executions = {e1}
    Lifecycles = {l1}
SPECIFICATION Spec
SYMMETRY InterceptSymmetry
INVARIANTS
    TypeOK
    SessionSticky
    WarnedOncePerConfiguration
    WarnedIsWritten
CHECK_DEADLOCK FALSE

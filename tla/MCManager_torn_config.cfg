\* A reconfiguration between the executor's two reads of the configuration.
CONSTANTS
    None = None
    chat = chat
    alias = alias
    zen = zen
    native = native
    other = other
    conv = conv
    ses = ses
    req = req
    xSession = xSession
    xSource = xSource
    xSessionId = xSessionId
    xUA = xUA
    xUA2 = xUA2
    Models <- MCModels
    Segments <- MCModels
    LastSegment <- MCLastSegment
    Auths = {zen, native, other}
    NativeAuths = {native}
    HeaderNames <- MCHeaderNames
    SessionIDHeader = xSessionId
    Identities = {conv, ses}
    OpenCodeShaped = {ses}
    RequestIds = {req}
    Calls = {e1}
    Stamps = {1}
    Configs <- OnlyGuarded
    DefaultConfig <- MCDefault
    InterceptRequests = {}
    ExecuteRequests <- OneExecute
    Intercepts = {}
    Executions = {e1}
    Lifecycles = {l1}
SPECIFICATION Spec
INVARIANTS
    PaidNeverExecuted
CHECK_DEADLOCK FALSE

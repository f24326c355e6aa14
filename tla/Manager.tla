------------------------------ MODULE Manager -------------------------------
(***************************************************************************)
(* The plugin's Manager (plugin.go): the state its handlers share under    *)
(* m.mu, and the calls the host may run concurrently against it.           *)
(*                                                                         *)
(* A step is one critical section of m.mu (or of hostCallMu), one host     *)
(* callback, or one thing the upstream connection does; everything a       *)
(* handler computes between two of them is local to the call and belongs   *)
(* to the step before.  A call is used once: the sets of calls are the     *)
(* bound on how often the host calls.                                      *)
(***************************************************************************)
EXTENDS Target, Session, FiniteSets

CONSTANTS
    Configs,            \* configurations that pass LoadConfig, validateConfig
    DefaultConfig,      \* DefaultConfig()
    InterceptRequests,  \* payloads of request.intercept_after
    ExecuteRequests,    \* payloads of executor.execute and execute_stream
    Intercepts,         \* calls of request.intercept_after
    Executions,         \* calls of executor.execute and execute_stream
    Lifecycles          \* calls of plugin.register, reconfigure, quiesce and
                        \* shutdown

ASSUME ConfigAssumption ==
    /\ Configs \subseteq ConfigType
    /\ DefaultConfig \in ConfigType
    /\ DefaultConfig.logging = FALSE

ASSUME CallAssumption ==
    /\ InterceptRequests \subseteq InterceptType
    /\ ExecuteRequests \subseteq ExecuteType
    /\ Intercepts \subseteq Calls
    /\ Executions \subseteq Calls
    /\ None \notin InterceptRequests \cup ExecuteRequests
    /\ None \notin ShapedType
    /\ RequestIds \cap Calls = {}

VARIABLES
    \* Manager and the logging switch
    cfg,         \* m.cfg
    warned,      \* m.warnedAuths: credential -> the call that marked it
    sessionIDs,  \* m.sessionIDs
    requests,    \* m.nativeRequests: key -> the execution registered for it
    logEnabled,  \* hostLogEnabled
    \* lifecycle calls
    lpc,         \* where the call is
    llog,        \* the switch value it will pass to SetLogEnabled
    \* interceptor calls
    ipc, ireq,   \* where the call is, its payload
    icfg,        \* its snapshot of m.cfg
    isess,       \* the session id the request goes on with, set or kept
    \* executor calls
    epc, ereq, ecfg, esess,
    cancelled,   \* executions whose context is cancelled
    \* what the host has seen
    completed,   \* request ids it sent request.complete for
    hostLog,     \* lines it received through host.log
    lost,        \* lines written that it did not receive
    handed       \* shaped session ids handed out since the last shutdown

managerVars   == <<cfg, warned, sessionIDs, requests, logEnabled>>
lifecycleVars == <<lpc, llog>>
interceptVars == <<ipc, ireq, icfg, isess>>
executeVars   == <<epc, ereq, ecfg, esess, cancelled>>
hostVars      == <<completed, hostLog, lost, handed>>
vars == <<managerVars, lifecycleVars, interceptVars, executeVars, hostVars>>

-----------------------------------------------------------------------------
(* Types                                                                   *)

AnyConfig == Configs \cup {DefaultConfig}

\* An execution without an execution-id header is registered under the random
\* id newRequestID draws, which the call itself stands for.
Keys == RequestIds \cup Executions
Key(e) == IF ereq[e].id = None THEN e ELSE ereq[e].id

Registered == {k \in Keys : requests[k] # None}

LogLines ==
    [level : {"warn"}, call : Intercepts, auth : Auths,
     glue : [userAgent : HeaderNames, session : HeaderNames]]
    \cup [level : {"info"}, call : Intercepts]

ExecutePositions ==
    {"idle", "decoded", "snapped", "shaped", "registered", "sent", "reading",
     "closing", "finishing", "forgetting", "ended", "rejected"}

(***************************************************************************)
(* The type invariant: what each variable may hold.                        *)
(***************************************************************************)
TypeOK ==
    /\ cfg \in AnyConfig
    /\ warned \in [Auths -> Intercepts \cup {None}]
    /\ sessionIDs \in [IdentityType -> ShapedType \cup {None}]
    /\ requests \in [Keys -> Executions \cup {None}]
    /\ logEnabled \in BOOLEAN
    /\ lpc \in [Lifecycles -> {"idle", "logging", "done", "rejected"}]
    /\ llog \in [Lifecycles -> BOOLEAN]
    /\ ipc \in [Intercepts -> {"idle", "warn", "warning", "session", "log", "done"}]
    /\ ireq \in [Intercepts -> InterceptRequests \cup {None}]
    /\ icfg \in [Intercepts -> AnyConfig]
    /\ isess \in [Intercepts -> SessionType \cup {None}]
    /\ epc \in [Executions -> ExecutePositions]
    /\ ereq \in [Executions -> ExecuteRequests \cup {None}]
    /\ ecfg \in [Executions -> AnyConfig]
    /\ esess \in [Executions -> SessionType \cup {None}]
    /\ cancelled \subseteq Executions
    /\ completed \subseteq RequestIds
    /\ hostLog \subseteq LogLines
    /\ lost \subseteq LogLines
    /\ handed \subseteq ShapedType

Init ==
    /\ cfg = DefaultConfig
    /\ warned = [a \in Auths |-> None]
    /\ sessionIDs = [who \in IdentityType |-> None]
    /\ requests = [k \in Keys |-> None]
    /\ logEnabled = TRUE
    /\ lpc = [l \in Lifecycles |-> "idle"]
    /\ llog = [l \in Lifecycles |-> FALSE]
    /\ ipc = [i \in Intercepts |-> "idle"]
    /\ ireq = [i \in Intercepts |-> None]
    /\ icfg = [i \in Intercepts |-> DefaultConfig]
    /\ isess = [i \in Intercepts |-> None]
    /\ epc = [e \in Executions |-> "idle"]
    /\ ereq = [e \in Executions |-> None]
    /\ ecfg = [e \in Executions |-> DefaultConfig]
    /\ esess = [e \in Executions |-> None]
    /\ cancelled = {}
    /\ completed = {}
    /\ hostLog = {}
    /\ lost = {}
    /\ handed = {}

-----------------------------------------------------------------------------
(* Lifecycle calls: plugin.register, plugin.reconfigure, plugin.quiesce,   *)
(* plugin.shutdown.                                                        *)

\* MUTANT of CancelNativeRequests: the map is cleared, nothing is cancelled.
ClearedWithoutCancel ==
    /\ cancelled' = cancelled
    /\ requests' = [k \in Keys |-> None]

\* cancelNativeRequests, under m.mu: cancel and forget every registered
\* execution.
CancelNativeRequests ==
    /\ cancelled' = cancelled \cup {requests[k] : k \in Registered}
    /\ requests' = [k \in Keys |-> None]

\* MUTANT of LifecycleCommit: a reconfiguration also drops the session cache.
CommitDropsSessions(l) ==
    /\ lpc[l] = "idle"
    /\ \E c \in Configs :
        /\ cfg' = c
        /\ llog' = [llog EXCEPT ![l] = c.logging]
    /\ CancelNativeRequests
    /\ warned' = [a \in Auths |-> None]
    /\ sessionIDs' = [who \in IdentityType |-> None]
    /\ lpc' = [lpc EXCEPT ![l] = "logging"]
    /\ UNCHANGED <<logEnabled, interceptVars, epc, ereq, ecfg, esess, hostVars>>

\* handleLifecycle up to m.mu.Unlock.
LifecycleCommit(l) ==
    /\ lpc[l] = "idle"
    /\ \E c \in Configs :
        /\ cfg' = c
        /\ llog' = [llog EXCEPT ![l] = c.logging]
    /\ CancelNativeRequests
    /\ warned' = [a \in Auths |-> None]
    /\ lpc' = [lpc EXCEPT ![l] = "logging"]
    /\ UNCHANGED <<sessionIDs, logEnabled, interceptVars,
                   epc, ereq, ecfg, esess, hostVars>>

\* handleLifecycle on a payload or configuration it refuses.
LifecycleReject(l) ==
    /\ lpc[l] = "idle"
    /\ lpc' = [lpc EXCEPT ![l] = "rejected"]
    /\ UNCHANGED <<managerVars, llog, interceptVars, executeVars, hostVars>>

\* plugin.shutdown and plugin.quiesce up to m.mu.Unlock.
Shutdown(l) ==
    /\ lpc[l] = "idle"
    /\ CancelNativeRequests
    /\ cfg' = DefaultConfig
    /\ warned' = [a \in Auths |-> None]
    /\ sessionIDs' = [who \in IdentityType |-> None]
    /\ llog' = [llog EXCEPT ![l] = FALSE]
    /\ lpc' = [lpc EXCEPT ![l] = "logging"]
    /\ handed' = {}
    /\ UNCHANGED <<logEnabled, interceptVars, epc, ereq, ecfg, esess,
                   completed, hostLog, lost>>

\* SetLogEnabled, after m.mu is released: another lifecycle call may have put
\* its configuration in force, and set the switch, in between.
ApplyLogging(l) ==
    /\ lpc[l] = "logging"
    /\ logEnabled' = llog[l]
    /\ lpc' = [lpc EXCEPT ![l] = "done"]
    /\ UNCHANGED <<cfg, warned, sessionIDs, requests, llog, interceptVars,
                   executeVars, hostVars>>

-----------------------------------------------------------------------------
(* Logging                                                                 *)

\* logToHostAlways, best effort: without a host function, on a marshal error
\* or when host.log fails the line is lost and nobody is told.
LogToHostAlways(line) ==
    \/ hostLog' = hostLog \cup {line} /\ lost' = lost
    \/ lost' = lost \cup {line} /\ hostLog' = hostLog

\* logToHost, under the logging switch.
LogToHost(line) ==
    IF logEnabled THEN LogToHostAlways(line) ELSE UNCHANGED <<hostLog, lost>>

-----------------------------------------------------------------------------
(* shapeSessionID                                                          *)

\* The id shapeSessionID returns for an identity: the cached one, or a new one
\* stamped with the wall clock.
SessionIDsFor(who) ==
    IF sessionIDs[who] # None
    THEN {sessionIDs[who]}
    ELSE {Shaped(who, at) : at \in Stamps}

\* Look the identity up and remember what is returned, in one critical section.
ShapeSessionID(who, id) ==
    /\ id \in SessionIDsFor(who)
    /\ sessionIDs' = [sessionIDs EXCEPT ![who] = id]
    /\ handed' = handed \cup {id}

-----------------------------------------------------------------------------
(* request.intercept_after                                                 *)

\* Read the configuration, decide whether the request is targeted and whether
\* it is fingerprinted.  An untargeted request goes straight to its log line.
InterceptStart(i) ==
    /\ ipc[i] = "idle"
    /\ \E r \in InterceptRequests :
        /\ ireq' = [ireq EXCEPT ![i] = r]
        /\ ipc' = [ipc EXCEPT ![i] =
                    IF ~ IsNativeAuth(r) /\ ~ IsTarget(r, cfg) THEN "log"
                    ELSE IF /\ FingerprintApplies(r, cfg)
                            /\ ~ IsNativeAuth(r)
                            /\ cfg.warnGlue
                         THEN "warn" ELSE "session"]
    /\ icfg' = [icfg EXCEPT ![i] = cfg]
    /\ UNCHANGED <<managerVars, lifecycleVars, isess, executeVars, hostVars>>

\* MUTANT of InterceptMark: the credential is not looked up first.
MarkUnchecked(i) ==
    /\ ipc[i] = "warn"
    /\ ipc' = [ipc EXCEPT ![i] = "warning"]
    /\ warned' = [warned EXCEPT ![ireq[i].auth] = i]
    /\ UNCHANGED <<cfg, sessionIDs, requests, logEnabled, lifecycleVars,
                   ireq, icfg, isess, executeVars, hostVars>>

\* warnGlueRequirement, its critical section: only the first call to find the
\* credential unmarked goes on to write the line.
InterceptMark(i) ==
    LET marked == warned[ireq[i].auth] # None IN
    /\ ipc[i] = "warn"
    /\ ipc' = [ipc EXCEPT ![i] = IF marked THEN "session" ELSE "warning"]
    /\ warned' = [warned EXCEPT ![ireq[i].auth] = IF marked THEN @ ELSE i]
    /\ UNCHANGED <<cfg, sessionIDs, requests, logEnabled, lifecycleVars,
                   ireq, icfg, isess, executeVars, hostVars>>

\* The setup line of a call: the headers its configuration needs declared.
WarnLine(i) ==
    [level |-> "warn", call |-> i, auth |-> ireq[i].auth,
     glue |-> RequiredGlueHeaders(icfg[i])]

\* MUTANT of InterceptWarn: logToHost instead of logToHostAlways.
WarnIfEnabled(i) ==
    /\ ipc[i] = "warning"
    /\ LogToHost(WarnLine(i))
    /\ ipc' = [ipc EXCEPT ![i] = "session"]
    /\ UNCHANGED <<managerVars, lifecycleVars, ireq, icfg, isess, executeVars,
                   completed, handed>>

\* warnGlueRequirement, the host.log call, whatever the logging switch says.
\* A lost line leaves the credential marked.
InterceptWarn(i) ==
    /\ ipc[i] = "warning"
    /\ LogToHostAlways(WarnLine(i))
    /\ ipc' = [ipc EXCEPT ![i] = "session"]
    /\ UNCHANGED <<managerVars, lifecycleVars, ireq, icfg, isess, executeVars,
                   completed, handed>>

\* The identity of the call: what the request presents, else, on the
\* fingerprint path only, its request id or a random one.
InterceptIdentity(i) ==
    LET res == ResolveSessionID(ireq[i], icfg[i])
    IN  IF res.source = "none" /\ FingerprintApplies(ireq[i], icfg[i])
        THEN [source |-> "request",
              value  |-> IF ireq[i].id # None THEN ireq[i].id ELSE i]
        ELSE res

\* On the fingerprint path a value without the ses_ shape is shaped.
InterceptShape(i) ==
    LET who == InterceptIdentity(i).value IN
    /\ ipc[i] = "session"
    /\ FingerprintApplies(ireq[i], icfg[i])
    /\ who \notin OpenCodeShaped
    /\ \E id \in SessionIDsFor(who) :
        /\ ShapeSessionID(who, id)
        /\ isess' = [isess EXCEPT ![i] = id]
    /\ ipc' = [ipc EXCEPT ![i] = "log"]
    /\ UNCHANGED <<cfg, warned, requests, logEnabled, lifecycleVars,
                   ireq, icfg, executeVars, completed, hostLog, lost>>

\* MUTANT of InterceptKeep: the header is set although no session was found.
KeepUnresolved(i) ==
    LET res == InterceptIdentity(i)
        fingerprint == FingerprintApplies(ireq[i], icfg[i])
    IN
    /\ ipc[i] = "session"
    /\ fingerprint => res.value \in OpenCodeShaped
    /\ isess' = [isess EXCEPT ![i] = IF fingerprint THEN Raw(res.value)
                                     ELSE SessionHeaderValue(res, icfg[i])]
    /\ ipc' = [ipc EXCEPT ![i] = "log"]
    /\ UNCHANGED <<managerVars, lifecycleVars, ireq, icfg, executeVars, hostVars>>

\* Otherwise the session header is a pure function of the call: nothing, the
\* identity as it is, or its hash.
InterceptKeep(i) ==
    LET res == InterceptIdentity(i)
        fingerprint == FingerprintApplies(ireq[i], icfg[i])
    IN
    /\ ipc[i] = "session"
    /\ fingerprint => res.value \in OpenCodeShaped
    /\ isess' = [isess EXCEPT ![i] =
                    IF res.source = "none" THEN None
                    ELSE IF fingerprint THEN Raw(res.value)
                    ELSE SessionHeaderValue(res, icfg[i])]
    /\ ipc' = [ipc EXCEPT ![i] = "log"]
    /\ UNCHANGED <<managerVars, lifecycleVars, ireq, icfg, executeVars, hostVars>>

\* logIntercept or logSkip, then the response.
InterceptLog(i) ==
    /\ ipc[i] = "log"
    /\ LogToHost([level |-> "info", call |-> i])
    /\ ipc' = [ipc EXCEPT ![i] = "done"]
    /\ UNCHANGED <<managerVars, lifecycleVars, ireq, icfg, isess, executeVars,
                   completed, handed>>

-----------------------------------------------------------------------------
(* executor.execute and executor.execute_stream                            *)

\* decodeNativeAuth: refuse a credential that selects an explicitly paid model
\* under the configuration read here.  The host starts no attempt for a
\* request it has completed.
ExecuteDecode(e) ==
    /\ epc[e] = "idle"
    /\ \E r \in ExecuteRequests :
        /\ r.id \notin completed
        /\ ereq' = [ereq EXCEPT ![e] = r]
        /\ epc' = [epc EXCEPT ![e] =
                    IF \E m \in r.models : IsExplicitPaidModel(LastSegment[m], cfg)
                    THEN "rejected" ELSE "decoded"]
    /\ UNCHANGED <<managerVars, lifecycleVars, interceptVars, ecfg, esess,
                   cancelled, hostVars>>

\* Every early return that touches no shared state: a foreign or malformed
\* credential, an unselected model, a missing stream id, a malformed body
\* and, once the session id is shaped, an unusable proxy.
ExecuteReject(e) ==
    /\ epc[e] \in {"idle", "decoded", "shaped"}
    /\ epc' = [epc EXCEPT ![e] = "rejected"]
    /\ UNCHANGED <<managerVars, lifecycleVars, interceptVars, ereq, ecfg, esess,
                   cancelled, hostVars>>

\* The second read of m.cfg, which body and headers are shaped with.
ExecuteSnapshot(e) ==
    /\ epc[e] = "decoded"
    /\ ecfg' = [ecfg EXCEPT ![e] = cfg]
    /\ epc' = [epc EXCEPT ![e] = "snapped"]
    /\ UNCHANGED <<managerVars, lifecycleVars, interceptVars, ereq, esess,
                   cancelled, hostVars>>

\* The identity of the execution, a random one when the request presents none.
ExecuteIdentity(e) ==
    LET res == ResolveSessionID(ereq[e], ecfg[e])
    IN  IF res.source = "none" THEN e ELSE res.value

ExecuteShape(e) ==
    LET who == ExecuteIdentity(e) IN
    /\ epc[e] = "snapped"
    /\ who \notin OpenCodeShaped
    /\ \E id \in SessionIDsFor(who) :
        /\ ShapeSessionID(who, id)
        /\ esess' = [esess EXCEPT ![e] = id]
    /\ epc' = [epc EXCEPT ![e] = "shaped"]
    /\ UNCHANGED <<cfg, warned, requests, logEnabled, lifecycleVars, interceptVars,
                   ereq, ecfg, cancelled, completed, hostLog, lost>>

ExecuteKeep(e) ==
    /\ epc[e] = "snapped"
    /\ ExecuteIdentity(e) \in OpenCodeShaped
    /\ esess' = [esess EXCEPT ![e] = Raw(ExecuteIdentity(e))]
    /\ epc' = [epc EXCEPT ![e] = "shaped"]
    /\ UNCHANGED <<managerVars, lifecycleVars, interceptVars, ereq, ecfg,
                   cancelled, hostVars>>

\* MUTANT of NativeContext: the prior attempt is replaced, not cancelled.
ReplaceOnly(e) ==
    /\ epc[e] = "shaped"
    /\ requests' = [requests EXCEPT ![Key(e)] = e]
    /\ epc' = [epc EXCEPT ![e] = "registered"]
    /\ UNCHANGED <<cfg, warned, sessionIDs, logEnabled, lifecycleVars,
                   interceptVars, ereq, ecfg, esess, cancelled, hostVars>>

\* nativeContext: cancel the attempt registered under the same key, if any,
\* and take its place.
NativeContext(e) ==
    /\ epc[e] = "shaped"
    /\ cancelled' = cancelled \cup ({requests[Key(e)]} \ {None})
    /\ requests' = [requests EXCEPT ![Key(e)] = e]
    /\ epc' = [epc EXCEPT ![e] = "registered"]
    /\ UNCHANGED <<cfg, warned, sessionIDs, logEnabled, lifecycleVars,
                   interceptVars, ereq, ecfg, esess, hostVars>>

\* A step of a registered execution that touches no state but its own.
Advance(e, from, to) ==
    /\ epc[e] = from
    /\ epc' = [epc EXCEPT ![e] = to]
    /\ UNCHANGED <<managerVars, lifecycleVars, interceptVars, ereq, ecfg, esess,
                   cancelled, hostVars>>

\* client.Do puts the request on the wire unless its context is cancelled.
ExecuteSend(e) ==
    /\ e \notin cancelled
    /\ Advance(e, "registered", "sent")

\* The client cannot be built, the request cannot be built, or client.Do
\* fails without being cancelled.
ExecuteFail(e) ==
    \E from \in {"registered", "sent"} : Advance(e, from, "finishing")

\* An event stream answers: read it.
ExecuteRespond(e) == Advance(e, "sent", "reading")

\* MUTANT of ExecuteRefused: the error path returns without finish().
RefusedUnfinished(e) == Advance(e, "sent", "ended")

\* Another answer: a status that is not 2xx, or a body that is no event stream.
ExecuteRefused(e) == Advance(e, "sent", "finishing")

\* readNativeSSE returns; a streaming execution then closes the host's stream.
AfterReading(e) == IF ereq[e].stream THEN "closing" ELSE "finishing"

\* The upstream ends the body, breaks it, or the host refuses an event.
ExecuteReadEnd(e) == Advance(e, "reading", AfterReading(e))

\* MUTANT of ExecuteAbort: the body is read without the context.
AbortBeforeBody(e) ==
    /\ e \in cancelled
    /\ \E from \in {"registered", "sent"} : Advance(e, from, "finishing")

\* A cancelled context fails client.Do and the read of the body.
ExecuteAbort(e) ==
    /\ e \in cancelled
    /\ \/ \E from \in {"registered", "sent"} : Advance(e, from, "finishing")
       \/ Advance(e, "reading", AfterReading(e))

\* host.stream.close, before finish.
ExecuteStreamClose(e) == Advance(e, "closing", "finishing")

\* cleanup, outside m.mu: cancel the execution's own context.
CleanupCancel(e) ==
    /\ epc[e] = "finishing"
    /\ cancelled' = cancelled \cup {e}
    /\ epc' = [epc EXCEPT ![e] = "forgetting"]
    /\ UNCHANGED <<managerVars, lifecycleVars, interceptVars, ereq, ecfg, esess,
                   hostVars>>

\* MUTANT of CleanupForget: the entry is deleted whoever owns it.
ForgetAny(e) ==
    /\ epc[e] = "forgetting"
    /\ requests' = [requests EXCEPT ![Key(e)] = None]
    /\ epc' = [epc EXCEPT ![e] = "ended"]
    /\ UNCHANGED <<cfg, warned, sessionIDs, logEnabled, lifecycleVars,
                   interceptVars, ereq, ecfg, esess, cancelled, hostVars>>

\* cleanup, under m.mu: forget the execution unless another took its place.
CleanupForget(e) ==
    /\ epc[e] = "forgetting"
    /\ requests' = [requests EXCEPT ![Key(e)] = IF @ = e THEN None ELSE @]
    /\ epc' = [epc EXCEPT ![e] = "ended"]
    /\ UNCHANGED <<cfg, warned, sessionIDs, logEnabled, lifecycleVars,
                   interceptVars, ereq, ecfg, esess, cancelled, hostVars>>

\* MUTANT of RequestComplete: the entry is deleted, its context left alone.
CompleteForgets(id) ==
    /\ id \notin completed
    /\ completed' = completed \cup {id}
    /\ requests' = [requests EXCEPT ![id] = None]
    /\ UNCHANGED <<cfg, warned, sessionIDs, logEnabled, lifecycleVars,
                   interceptVars, executeVars, hostLog, lost, handed>>

\* request.complete: the host is done with the request.
RequestComplete(id) ==
    /\ id \notin completed
    /\ completed' = completed \cup {id}
    /\ cancelled' = cancelled \cup ({requests[id]} \ {None})
    /\ requests' = [requests EXCEPT ![id] = None]
    /\ UNCHANGED <<cfg, warned, sessionIDs, logEnabled, lifecycleVars,
                   interceptVars, epc, ereq, ecfg, esess, hostLog, lost, handed>>

-----------------------------------------------------------------------------
(* The specification                                                       *)

Lifecycle(l) ==
    LifecycleCommit(l) \/ LifecycleReject(l) \/ Shutdown(l) \/ ApplyLogging(l)

\* What a handler does by itself once it is called.
InterceptStep(i) ==
    \/ InterceptMark(i) \/ InterceptWarn(i)
    \/ InterceptShape(i) \/ InterceptKeep(i) \/ InterceptLog(i)

ExecuteStep(e) ==
    \/ ExecuteSnapshot(e) \/ ExecuteShape(e) \/ ExecuteKeep(e)
    \/ NativeContext(e) \/ ExecuteSend(e) \/ ExecuteAbort(e)
    \/ ExecuteStreamClose(e) \/ CleanupCancel(e) \/ CleanupForget(e)

\* What the upstream, or a failure, does to an execution.
UpstreamStep(e) ==
    \/ ExecuteReject(e) \/ ExecuteFail(e) \/ ExecuteRespond(e)
    \/ ExecuteRefused(e) \/ ExecuteReadEnd(e)

Next ==
    \/ \E l \in Lifecycles : Lifecycle(l)
    \/ \E i \in Intercepts : InterceptStart(i) \/ InterceptStep(i)
    \/ \E e \in Executions : ExecuteDecode(e) \/ ExecuteStep(e) \/ UpstreamStep(e)
    \/ \E id \in RequestIds : RequestComplete(id)

Spec == Init /\ [][Next]_vars

\* A handler that is called runs on: the host's threads and Go's scheduler are
\* fair, and the host answers its callbacks, if only with an error.  Nothing is assumed of the
\* upstream, which may never answer and never end a body.
Fairness ==
    /\ \A l \in Lifecycles : WF_vars(ApplyLogging(l))
    /\ \A i \in Intercepts : WF_vars(InterceptStep(i))
    /\ \A e \in Executions : WF_vars(ExecuteStep(e))

FairSpec == Spec /\ Fairness

-----------------------------------------------------------------------------
(* Cancellation of native executions                                       *)

\* Executions that own a context: from nativeContext to their cleanup.
Running ==
    {e \in Executions : epc[e] \in {"registered", "sent", "reading", "closing",
                                    "finishing"}}

Live == Running \ cancelled

(***************************************************************************)
(* Every execution that is running and not cancelled is the one registered *)
(* under its key, so that request.complete, a retry, a reconfiguration and *)
(* a shutdown can still reach it: no interleaving of nativeContext and     *)
(* cleanup of two attempts makes the Manager forget a live one.            *)
(***************************************************************************)
LiveIsRegistered ==
    \A e \in Live : requests[Key(e)] = e

(***************************************************************************)
(* The registry holds no leftovers: what it lists is registered under its  *)
(* own key and still running, or is in its cleanup about to remove itself. *)
(***************************************************************************)
RegisteredIsRunning ==
    \A k \in Registered :
        LET e == requests[k] IN
        /\ Key(e) = k
        /\ e \in Live \/ epc[e] = "forgetting"

(***************************************************************************)
(* An execution only leaves the registry, or is replaced in it, with its   *)
(* context cancelled: nativeContext, request.complete, cleanup and         *)
(* cancelNativeRequests never orphan an execution that goes on running.    *)
(***************************************************************************)
NeverOrphaned ==
    [][\A k \in Registered : requests'[k] # requests[k]
                               => requests[k] \in cancelled']_vars

(***************************************************************************)
(* When request.complete returns, every attempt of that request that has a *)
(* context is cancelled, whichever of several attempts the registry lists. *)
(***************************************************************************)
CompletionCancels ==
    [][\A e \in Running : ereq[e].id \in completed' \ completed
                          => e \in cancelled']_vars

(***************************************************************************)
(* A reconfiguration or a shutdown leaves no execution running that has a  *)
(* context: handleLifecycle and shutdown cancel all of them.               *)
(***************************************************************************)
LifecycleCancels ==
    [][(\E l \in Lifecycles : lpc[l] = "idle" /\ lpc'[l] = "logging")
        => Running \subseteq cancelled']_vars

(***************************************************************************)
(* Once a request is completed, none of its attempts goes on uncancelled.  *)
(* (The tests of the executor read request.complete this way.)             *)
(***************************************************************************)
CompletedStaysDown ==
    \A e \in Live : ereq[e].id \notin completed

(***************************************************************************)
(* A cancelled execution ends, even when the upstream never answers and    *)
(* never ends the body: the context reaches client.Do and the body read,   *)
(* and the cleanup runs.                                                   *)
(***************************************************************************)
CancelledEnds ==
    \A e \in Executions : e \in cancelled ~> epc[e] = "ended"

-----------------------------------------------------------------------------
(* Session ids                                                             *)

(***************************************************************************)
(* Between two shutdowns a conversation has one shaped session id, whoever *)
(* asks (interceptor or executor calls, concurrently) and whatever the     *)
(* wall clock and reconfigurations do in between: shapeSessionID is sticky. *)
(***************************************************************************)
SessionSticky ==
    \A a, b \in handed : a.of = b.of => a = b

(***************************************************************************)
(* Only stable identities get a sticky session: the cache has no entry for *)
(* a request id or for a random id.  (README, Session resolution.)         *)
(***************************************************************************)
RequestScopedNotSticky ==
    \A who \in RequestIds \cup Calls : sessionIDs[who] = None

(***************************************************************************)
(* With session.hash_derived a client's own session id, taken from a       *)
(* source header or the metadata, never leaves the proxy as it is.         *)
(* (README, Session resolution.)                                           *)
(***************************************************************************)
DerivedNeverRaw ==
    \A i \in Intercepts :
        LET res == ResolveSessionID(ireq[i], icfg[i]) IN
        ipc[i] = "done" /\ isess[i] # None /\ icfg[i].hashDerived
            /\ res.source \in {"header", "metadata"}
        => isess[i] # Raw(res.value)

-----------------------------------------------------------------------------
(* Glue warnings and the logging switch                                    *)

Committed == {l \in Lifecycles : lpc[l] \in {"logging", "done"}}

\* Setup lines written for a credential, whether the host took them or not.
WarnLines(a) == {x \in hostLog \cup lost : x.level = "warn" /\ x.auth = a}

\* Calls that have written the warning of a credential, or are about to.
Warners(a) ==
    {i \in Intercepts : ipc[i] = "warning" /\ ireq[i].auth = a}
    \cup {x.call : x \in WarnLines(a)}

(***************************************************************************)
(* warnGlueRequirement writes at most one line per credential and          *)
(* configuration: with the one pending, a credential has at most one line  *)
(* for every configuration put in force, and one for the present one only  *)
(* if it is marked.                                                        *)
(***************************************************************************)
WarnedOncePerConfiguration ==
    \A a \in Auths :
        Cardinality(Warners(a))
            <= Cardinality(Committed) + (IF warned[a] # None THEN 1 ELSE 0)

(***************************************************************************)
(* A mark stands for a line, under every configuration: the call that made *)
(* it has written the setup line of this credential or is about to, with   *)
(* logging off too, and whatever reconfigurations and other requests came  *)
(* in between.  logToHostAlways is best effort, so the host may lose it.   *)
(***************************************************************************)
WarnedIsWritten ==
    \A a \in Auths : warned[a] # None => warned[a] \in Warners(a)

(***************************************************************************)
(* Whenever no lifecycle call is between its two critical sections, the    *)
(* logging switch is what the configuration in force says: host.log is     *)
(* used only when the operator opted in.  (applyLoggingConfig.)            *)
(***************************************************************************)
LoggingFollowsConfig ==
    Committed # {} /\ (\A l \in Lifecycles : lpc[l] # "logging")
        => logEnabled = cfg.logging

-----------------------------------------------------------------------------
(* Paid models                                                             *)

(***************************************************************************)
(* The native executor never shapes a request for a model that the         *)
(* configuration it shapes with lists as paid. (README, paid_models.)      *)
(***************************************************************************)
PaidNeverExecuted ==
    \A e \in Executions :
        epc[e] \notin {"idle", "decoded", "rejected"}
            => ~ IsExplicitPaidModel(LastSegment[ereq[e].model], ecfg[e])

=============================================================================

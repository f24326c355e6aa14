--------------------------- MODULE ManagerProofs ----------------------------
(***************************************************************************)
(* Proofs about Manager, for every set of calls, configurations and        *)
(* payloads.                                                               *)
(***************************************************************************)
EXTENDS Manager, FiniteSetTheorems, TLAPS

-----------------------------------------------------------------------------
(* Session resolution                                                      *)

CandidateType ==
    [source : {"native", "header", "metadata", "body"}, value : Presented]

(***************************************************************************)
(* The candidates of resolveSessionID are a sequence of presented values.  *)
(***************************************************************************)
LEMMA CandidatesType ==
    ASSUME NEW r, NEW c \in ConfigType,
           r.headers \in [HeaderNames -> Presented],
           r.canonical \in Presented, r.body \in Presented
    PROVE  Candidates(r, c) \in Seq(CandidateType)
<1> DEFINE Header(name) ==
            [ source |-> "header",
              value  |-> IF name = c.headerName THEN None ELSE r.headers[name] ]
           first  == << [source |-> "native", value |-> r.headers[c.headerName]],
                        [source |-> "native", value |-> r.headers[SessionIDHeader]] >>
           middle == [k \in DOMAIN c.sourceHeaders |-> Header(c.sourceHeaders[k])]
           last   == << [source |-> "metadata", value |-> r.canonical],
                        [source |-> "body",
                         value  |-> IF c.bodyHash THEN r.body ELSE None] >>
<1>1. c.headerName \in HeaderNames /\ c.sourceHeaders \in Seq(HeaderNames)
  BY DEF ConfigType
<1>2. None \in Presented
  BY DEF Presented
<1>3. first \in Seq(CandidateType)
  <2>1. r.headers[c.headerName] \in Presented /\ r.headers[SessionIDHeader] \in Presented
    BY <1>1, IdentityAssumption
  <2> QED BY <2>1 DEF CandidateType
<1>4. middle \in Seq(CandidateType)
  <2>1. \A name \in HeaderNames : Header(name) \in CandidateType
    BY <1>2 DEF CandidateType
  <2>2. \A k \in DOMAIN c.sourceHeaders : c.sourceHeaders[k] \in HeaderNames
    BY <1>1
  <2>3. DOMAIN c.sourceHeaders = 1 .. Len(c.sourceHeaders) /\ Len(c.sourceHeaders) \in Nat
    BY <1>1
  <2> HIDE DEF Header
  <2>4. middle \in [1 .. Len(c.sourceHeaders) -> CandidateType]
    BY <2>1, <2>2, <2>3
  <2> QED BY <2>3, <2>4
<1>5. last \in Seq(CandidateType)
  BY <1>2 DEF CandidateType
<1>6. Candidates(r, c) = first \o middle \o last
  BY DEF Candidates
<1> HIDE DEF first, middle, last
<1> QED BY <1>3, <1>4, <1>5, <1>6

(***************************************************************************)
(* resolveSessionID finds an identity the request presents, or none.       *)
(***************************************************************************)
LEMMA ResolveType ==
    ASSUME NEW r, NEW c \in ConfigType,
           r.headers \in [HeaderNames -> Presented],
           r.canonical \in Presented, r.body \in Presented
    PROVE  LET res == ResolveSessionID(r, c) IN
           \/ res = Unresolved
           \/ /\ res.source \in {"native", "header", "metadata", "body"}
              /\ res.value \in Identities
<1> DEFINE candidates == Candidates(r, c)
           first == {k \in DOMAIN candidates : FirstUsable(candidates, k)}
           k == CHOOSE n \in first : TRUE
<1>1. ResolveSessionID(r, c) = IF first = {} THEN Unresolved ELSE candidates[k]
  BY DEF ResolveSessionID
<1>2. CASE first = {}
  BY <1>1, <1>2
<1>3. CASE first # {}
  <2>1. k \in DOMAIN candidates /\ candidates[k].value # None
    BY <1>3 DEF FirstUsable
  <2>2. candidates[k] \in CandidateType
    BY <2>1, CandidatesType
  <2> QED BY <1>1, <1>3, <2>1, <2>2 DEF CandidateType, Presented
<1> QED BY <1>2, <1>3

-----------------------------------------------------------------------------
(* Type correctness                                                        *)

(***************************************************************************)
(* A call past its first step has a payload.                               *)
(***************************************************************************)
HasPayload ==
    /\ \A i \in Intercepts : ipc[i] # "idle" => ireq[i] \in InterceptRequests
    /\ \A e \in Executions :
        epc[e] \notin {"idle", "rejected"} => ereq[e] \in ExecuteRequests

TypeInv == TypeOK /\ HasPayload

(***************************************************************************)
(* The configuration in force, and every snapshot of it, is well typed.    *)
(***************************************************************************)
LEMMA AnyConfigType == AnyConfig \subseteq ConfigType
BY ConfigAssumption DEF AnyConfig

(***************************************************************************)
(* The identity an interceptor call shapes or forwards.                    *)
(***************************************************************************)
LEMMA InterceptIdentityType ==
    ASSUME TypeInv, NEW i \in Intercepts, ipc[i] # "idle"
    PROVE  LET res == InterceptIdentity(i) IN
           \/ res = Unresolved /\ ~ FingerprintApplies(ireq[i], icfg[i])
           \/ /\ res.source \in {"native", "header", "metadata", "body", "request"}
              /\ res.value \in IdentityType
<1>1. ireq[i] \in InterceptType /\ icfg[i] \in ConfigType
  BY CallAssumption, AnyConfigType DEF TypeInv, TypeOK, HasPayload
<1>2. /\ ireq[i].headers \in [HeaderNames -> Presented]
      /\ ireq[i].canonical \in Presented
      /\ ireq[i].body \in Presented
      /\ ireq[i].id \in RequestIds \cup {None}
  BY <1>1 DEF InterceptType
<1> DEFINE res == ResolveSessionID(ireq[i], icfg[i])
           own == [source |-> "request",
                   value  |-> IF ireq[i].id # None THEN ireq[i].id ELSE i]
<1>3. \/ res = Unresolved
      \/ /\ res.source \in {"native", "header", "metadata", "body"}
         /\ res.value \in Identities
  BY <1>1, <1>2, ResolveType
<1>4. own.source = "request" /\ own.value \in IdentityType
  BY <1>2, CallAssumption DEF IdentityType
<1>5. InterceptIdentity(i) =
        IF res.source = "none" /\ FingerprintApplies(ireq[i], icfg[i]) THEN own ELSE res
  BY DEF InterceptIdentity
<1>6. Unresolved.source = "none"
  BY DEF Unresolved
<1> HIDE DEF res, own
<1> QED BY <1>3, <1>4, <1>5, <1>6 DEF IdentityType

(***************************************************************************)
(* The identity an execution shapes or forwards.                           *)
(***************************************************************************)
LEMMA ExecuteIdentityType ==
    ASSUME TypeInv, NEW e \in Executions, epc[e] = "snapped"
    PROVE  ExecuteIdentity(e) \in IdentityType
<1>1. ereq[e] \in ExecuteType /\ ecfg[e] \in ConfigType
  BY CallAssumption, AnyConfigType DEF TypeInv, TypeOK, HasPayload
<1>2. /\ ereq[e].headers \in [HeaderNames -> Presented]
      /\ ereq[e].canonical \in Presented
      /\ ereq[e].body \in Presented
  BY <1>1 DEF ExecuteType
<1> DEFINE res == ResolveSessionID(ereq[e], ecfg[e])
<1>3. \/ res = Unresolved
      \/ res.source # "none" /\ res.value \in Identities
  BY <1>1, <1>2, ResolveType
<1>4. Unresolved.source = "none"
  BY DEF Unresolved
<1>5. ExecuteIdentity(e) = IF res.source = "none" THEN e ELSE res.value
  BY DEF ExecuteIdentity
<1> HIDE DEF res
<1> QED BY <1>3, <1>4, <1>5, CallAssumption DEF IdentityType

(***************************************************************************)
(* What shapeSessionID may return, and what it leaves in the cache.        *)
(***************************************************************************)
LEMMA SessionIDsForType ==
    ASSUME TypeOK, NEW who \in IdentityType, NEW id \in SessionIDsFor(who)
    PROVE  id \in ShapedType
<1>1. CASE sessionIDs[who] # None
  BY <1>1 DEF SessionIDsFor, TypeOK
<1>2. CASE sessionIDs[who] = None
  BY <1>2 DEF SessionIDsFor, Shaped, ShapedType
<1> QED BY <1>1, <1>2

(***************************************************************************)
(* An execution's key is a key of the registry.                            *)
(***************************************************************************)
LEMMA KeyType ==
    ASSUME NEW e \in Executions, ereq[e] \in ExecuteRequests
    PROVE  Key(e) \in Keys
BY CallAssumption DEF Key, Keys, ExecuteType

(***************************************************************************)
(* Every step of the handlers keeps the types.                             *)
(***************************************************************************)
LEMMA TypeStep == TypeInv /\ [Next]_vars => TypeInv'
<1> SUFFICES ASSUME TypeInv, [Next]_vars PROVE TypeInv'
  OBVIOUS
<1> USE DEF managerVars, lifecycleVars, interceptVars, executeVars, hostVars
<1>1. ASSUME NEW l \in Lifecycles, LifecycleCommit(l) PROVE TypeInv'
  BY <1>1, ConfigAssumption DEF LifecycleCommit, TypeInv, TypeOK, HasPayload, CancelNativeRequests, Registered, AnyConfig, ConfigType
<1>2. ASSUME NEW l \in Lifecycles, LifecycleReject(l) PROVE TypeInv'
  BY <1>2 DEF LifecycleReject, TypeInv, TypeOK, HasPayload
<1>3. ASSUME NEW l \in Lifecycles, Shutdown(l) PROVE TypeInv'
  BY <1>3 DEF Shutdown, TypeInv, TypeOK, HasPayload, CancelNativeRequests, Registered, AnyConfig
<1>4. ASSUME NEW l \in Lifecycles, ApplyLogging(l) PROVE TypeInv'
  BY <1>4 DEF ApplyLogging, TypeInv, TypeOK, HasPayload
<1>5. ASSUME NEW i \in Intercepts, InterceptStart(i) PROVE TypeInv'
  BY <1>5 DEF InterceptStart, TypeInv, TypeOK, HasPayload
<1>6. ASSUME NEW i \in Intercepts, InterceptMark(i) PROVE TypeInv'
  BY <1>6, CallAssumption DEF InterceptMark, TypeInv, TypeOK, HasPayload, InterceptType
<1>7. ASSUME NEW i \in Intercepts, InterceptLog(i) PROVE TypeInv'
  BY <1>7 DEF InterceptLog, LogToHost, LogToHostAlways, TypeInv, TypeOK, HasPayload, LogLines
<1>8. ASSUME NEW e \in Executions, ExecuteDecode(e) PROVE TypeInv'
  BY <1>8 DEF ExecuteDecode, ExecutePositions, TypeInv, TypeOK, HasPayload
<1>9. ASSUME NEW e \in Executions, ExecuteReject(e) PROVE TypeInv'
  BY <1>9 DEF ExecuteReject, ExecutePositions, TypeInv, TypeOK, HasPayload
<1>10. ASSUME NEW e \in Executions, ExecuteSnapshot(e) PROVE TypeInv'
  BY <1>10 DEF ExecuteSnapshot, ExecutePositions, TypeInv, TypeOK, HasPayload
<1>11. ASSUME NEW e \in Executions, CleanupCancel(e) PROVE TypeInv'
  BY <1>11 DEF CleanupCancel, ExecutePositions, TypeInv, TypeOK, HasPayload
<1>12. ASSUME NEW e \in Executions, CleanupForget(e) PROVE TypeInv'
  BY <1>12, KeyType DEF CleanupForget, ExecutePositions, TypeInv, TypeOK, HasPayload
<1>13. ASSUME NEW e \in Executions, NativeContext(e) PROVE TypeInv'
  BY <1>13, KeyType DEF NativeContext, ExecutePositions, TypeInv, TypeOK, HasPayload
<1>14. ASSUME NEW i \in Intercepts, InterceptWarn(i) PROVE TypeInv'
  <2>1. ireq[i] \in InterceptType /\ icfg[i] \in ConfigType
    BY <1>14, CallAssumption, AnyConfigType DEF InterceptWarn, TypeInv, TypeOK, HasPayload
  <2>2. ireq[i].auth \in Auths
        /\ RequiredGlueHeaders(icfg[i]) \in [userAgent : HeaderNames, session : HeaderNames]
    BY <2>1 DEF InterceptType, ConfigType, RequiredGlueHeaders
  <2>3. WarnLine(i) \in LogLines
    BY <2>2 DEF WarnLine, LogLines
  <2> QED BY <1>14, <2>3 DEF InterceptWarn, LogToHostAlways, TypeInv, TypeOK, HasPayload
<1>15. ASSUME NEW i \in Intercepts, InterceptShape(i) PROVE TypeInv'
  <2> DEFINE who == InterceptIdentity(i).value
  <2>1. ipc[i] = "session" /\ FingerprintApplies(ireq[i], icfg[i])
    BY <1>15 DEF InterceptShape
  <2>2. who \in IdentityType
    BY <2>1, InterceptIdentityType
  <2>3. PICK id \in SessionIDsFor(who) :
            ShapeSessionID(who, id) /\ isess' = [isess EXCEPT ![i] = id]
    BY <1>15 DEF InterceptShape
  <2>4. id \in ShapedType
    BY <2>2, SessionIDsForType DEF TypeInv
  <2>5. sessionIDs' = [sessionIDs EXCEPT ![who] = id] /\ handed' = handed \cup {id}
    BY <2>3 DEF ShapeSessionID
  <2> HIDE DEF who
  <2> QED BY <1>15, <2>2, <2>3, <2>4, <2>5
          DEF InterceptShape, TypeInv, TypeOK, HasPayload, SessionType
<1>16. ASSUME NEW i \in Intercepts, InterceptKeep(i) PROVE TypeInv'
  <2> DEFINE res == InterceptIdentity(i)
             fingerprint == FingerprintApplies(ireq[i], icfg[i])
             value == IF res.source = "none" THEN None
                      ELSE IF fingerprint THEN Raw(res.value)
                      ELSE SessionHeaderValue(res, icfg[i])
  <2>1. ipc[i] = "session" /\ isess' = [isess EXCEPT ![i] = value]
    BY <1>16 DEF InterceptKeep
  <2>2. res = Unresolved \/ (res.source # "none" /\ res.value \in IdentityType)
    BY <2>1, InterceptIdentityType
  <2> HIDE DEF res, fingerprint
  <2>3. value \in SessionType \cup {None}
    BY <2>2 DEF Unresolved, SessionHeaderValue, Raw, Hashed, SessionType
  <2> HIDE DEF value
  <2> QED BY <1>16, <2>1, <2>3 DEF InterceptKeep, TypeInv, TypeOK, HasPayload
<1>17. ASSUME NEW e \in Executions, ExecuteShape(e) PROVE TypeInv'
  <2> DEFINE who == ExecuteIdentity(e)
  <2>1. epc[e] = "snapped"
    BY <1>17 DEF ExecuteShape
  <2>2. who \in IdentityType
    BY <2>1, ExecuteIdentityType
  <2>3. PICK id \in SessionIDsFor(who) :
            ShapeSessionID(who, id) /\ esess' = [esess EXCEPT ![e] = id]
    BY <1>17 DEF ExecuteShape
  <2>4. id \in ShapedType
    BY <2>2, SessionIDsForType DEF TypeInv
  <2>5. sessionIDs' = [sessionIDs EXCEPT ![who] = id] /\ handed' = handed \cup {id}
    BY <2>3 DEF ShapeSessionID
  <2> HIDE DEF who
  <2> QED BY <1>17, <2>2, <2>3, <2>4, <2>5
          DEF ExecuteShape, ExecutePositions, TypeInv, TypeOK, HasPayload, SessionType
<1>18. ASSUME NEW e \in Executions, ExecuteKeep(e) PROVE TypeInv'
  <2>1. Raw(ExecuteIdentity(e)) \in SessionType
    BY <1>18, IdentityAssumption DEF ExecuteKeep, Raw, SessionType, IdentityType
  <2> QED BY <1>18, <2>1 DEF ExecuteKeep, ExecutePositions, TypeInv, TypeOK, HasPayload
<1>19. ASSUME NEW e \in Executions,
              NEW from \in {"registered", "sent", "reading", "closing"},
              NEW to \in {"sent", "reading", "closing", "finishing"},
              Advance(e, from, to)
       PROVE  TypeInv'
  BY <1>19 DEF Advance, ExecutePositions, TypeInv, TypeOK, HasPayload
<1>20. ASSUME NEW id \in RequestIds, RequestComplete(id) PROVE TypeInv'
  BY <1>20 DEF RequestComplete, TypeInv, TypeOK, HasPayload, Keys
<1>21. CASE UNCHANGED vars
  BY <1>21 DEF vars, TypeInv, TypeOK, HasPayload
<1>22. ASSUME NEW e \in Executions, ExecuteStep(e) \/ UpstreamStep(e) PROVE TypeInv'
  <2>1. AfterReading(e) \in {"closing", "finishing"}
    BY DEF AfterReading
  <2> QED BY <1>22, <2>1, <1>9, <1>10, <1>11, <1>12, <1>13, <1>17, <1>18, <1>19
          DEF ExecuteStep, UpstreamStep, ExecuteSend, ExecuteFail, ExecuteRespond,
              ExecuteRefused, ExecuteReadEnd, ExecuteAbort, ExecuteStreamClose
<1> QED
  BY <1>1, <1>2, <1>3, <1>4, <1>5, <1>6, <1>7, <1>8, <1>14, <1>15, <1>16, <1>20,
     <1>21, <1>22
     DEF Next, Lifecycle, InterceptStep

(***************************************************************************)
(* TypeOK holds in every state of the Manager, however many calls run and  *)
(* whatever configurations and payloads they bring.                        *)
(***************************************************************************)
THEOREM TypeCorrect == Spec => []TypeOK
<1>1. Init => TypeInv
  BY DEF Init, ExecutePositions, TypeInv, TypeOK, HasPayload, AnyConfig
<1>2. TypeInv => TypeOK
  BY DEF TypeInv
<1> QED BY <1>1, <1>2, TypeStep, PTL DEF Spec

-----------------------------------------------------------------------------
(* Cancellation                                                            *)

(***************************************************************************)
(* The inductive invariant of the registry.  On its own neither invariant  *)
(* survives nativeContext: a call that has not registered yet must not be  *)
(* cancelled already, or its entry would be of a cancelled execution.      *)
(***************************************************************************)
CancelledHasRegistered ==
    \A e \in cancelled : e \in Running \/ epc[e] \in {"forgetting", "ended"}

RegistryInv ==
    /\ LiveIsRegistered
    /\ RegisteredIsRunning
    /\ CancelledHasRegistered

(***************************************************************************)
(* A step that leaves registry, contexts, payloads and positions alone.    *)
(***************************************************************************)
LEMMA RegistryFrame ==
    ASSUME RegistryInv, UNCHANGED <<requests, cancelled, epc, ereq>>
    PROVE  RegistryInv'
BY DEF RegistryInv, LiveIsRegistered, RegisteredIsRunning, CancelledHasRegistered,
       Live, Running, Registered, Key

(***************************************************************************)
(* A step of one call before it registers moves nothing of the registry.   *)
(***************************************************************************)
LEMMA RegistryBefore ==
    ASSUME TypeInv, RegistryInv, NEW e \in Executions,
           epc[e] \in {"idle", "decoded", "snapped", "shaped"},
           NEW to \in {"decoded", "snapped", "shaped", "rejected"},
           epc' = [epc EXCEPT ![e] = to],
           \A d \in Executions \ {e} : ereq'[d] = ereq[d],
           UNCHANGED <<requests, cancelled>>
    PROVE  RegistryInv'
<1>1. epc \in [Executions -> ExecutePositions]
  BY DEF TypeInv, TypeOK
<1>2. e \notin cancelled /\ \A k \in Registered : requests[k] # e
  BY DEF RegistryInv, RegisteredIsRunning, CancelledHasRegistered, Live, Running
<1>3. Running' = Running /\ Live' = Live /\ Registered' = Registered /\ e \notin Running
  BY <1>1 DEF Running, Live, Registered
<1>4. \A d \in Executions \ {e} : Key(d)' = Key(d) /\ epc'[d] = epc[d]
  BY <1>1 DEF Key
<1>5. LiveIsRegistered'
  BY <1>3, <1>4 DEF RegistryInv, LiveIsRegistered, Live, Running
<1>6. RegisteredIsRunning'
  <2>1. \A k \in Registered : requests[k] \in Executions \ {e}
    BY <1>2 DEF TypeInv, TypeOK, Registered
  <2> QED BY <1>3, <1>4, <2>1 DEF RegistryInv, RegisteredIsRunning
<1>7. CancelledHasRegistered'
  BY <1>2, <1>3, <1>4 DEF RegistryInv, CancelledHasRegistered, TypeInv, TypeOK
<1> QED BY <1>5, <1>6, <1>7 DEF RegistryInv

(***************************************************************************)
(* A step between two positions of a running execution.                    *)
(***************************************************************************)
LEMMA RegistryAdvance ==
    ASSUME TypeInv, RegistryInv, NEW e \in Executions,
           NEW from \in {"registered", "sent", "reading", "closing"},
           NEW to \in {"sent", "reading", "closing", "finishing"},
           Advance(e, from, to)
    PROVE  RegistryInv'
<1>1. /\ epc[e] = from
      /\ epc' = [epc EXCEPT ![e] = to]
      /\ UNCHANGED <<requests, cancelled, ereq>>
  BY DEF Advance, managerVars
<1>2. epc \in [Executions -> ExecutePositions]
  BY DEF TypeInv, TypeOK
<1>3. Running' = Running /\ Live' = Live /\ Registered' = Registered
  BY <1>1, <1>2 DEF Running, Live, Registered
<1>4. \A d \in Executions : Key(d)' = Key(d)
  BY <1>1 DEF Key
<1>5. \A d \in Executions : d \in Running \/ epc'[d] = epc[d]
  BY <1>1, <1>2 DEF Running
<1>6. \A d \in Running : epc[d] # "forgetting"
  BY DEF Running
<1>7. LiveIsRegistered'
  BY <1>1, <1>3, <1>4 DEF RegistryInv, LiveIsRegistered, Live, Running
<1>8. RegisteredIsRunning'
  <2>1. \A k \in Registered : requests[k] \in Executions
    BY DEF TypeInv, TypeOK, Registered
  <2> QED BY <1>1, <1>3, <1>4, <1>5, <1>6, <2>1 DEF RegistryInv, RegisteredIsRunning
<1>9. CancelledHasRegistered'
  BY <1>1, <1>3, <1>5 DEF RegistryInv, CancelledHasRegistered, TypeInv, TypeOK
<1> QED BY <1>7, <1>8, <1>9 DEF RegistryInv

(***************************************************************************)
(* cancelNativeRequests empties the registry and leaves nothing live.      *)
(***************************************************************************)
LEMMA RegistryCancelAll ==
    ASSUME TypeInv, RegistryInv, CancelNativeRequests, UNCHANGED <<epc, ereq>>
    PROVE  RegistryInv' /\ Running \subseteq cancelled'
<1>1. \A k \in Keys : requests'[k] = None
  BY DEF CancelNativeRequests
<1>2. Registered' = {} /\ Running' = Running
  BY <1>1 DEF Registered, Running
<1>3. Running \subseteq cancelled'
  <2> SUFFICES ASSUME NEW e \in Live PROVE e \in cancelled'
    BY DEF Live, CancelNativeRequests
  <2>1. requests[Key(e)] = e /\ Key(e) \in Keys
    BY KeyType DEF RegistryInv, LiveIsRegistered, Live, Running, TypeInv, HasPayload
  <2>2. e # None
    BY CallAssumption, IdentityAssumption DEF Live, Running, IdentityType
  <2> QED BY <2>1, <2>2 DEF CancelNativeRequests, Registered
<1>4. LiveIsRegistered' /\ RegisteredIsRunning'
  BY <1>2, <1>3 DEF LiveIsRegistered, RegisteredIsRunning, Live
<1>5. CancelledHasRegistered'
  <2>1. \A k \in Registered : requests[k] \in Running \/ epc[requests[k]] = "forgetting"
    BY DEF RegistryInv, RegisteredIsRunning, Live
  <2> QED BY <1>2, <2>1
          DEF RegistryInv, CancelledHasRegistered, CancelNativeRequests
<1> QED BY <1>3, <1>4, <1>5 DEF RegistryInv

(***************************************************************************)
(* nativeContext: the new execution takes the place of a cancelled one.    *)
(***************************************************************************)
LEMMA RegistryContext ==
    ASSUME TypeInv, RegistryInv, NEW e \in Executions, NativeContext(e)
    PROVE  RegistryInv'
<1> DEFINE k0 == Key(e)
<1>1. /\ epc[e] = "shaped"
      /\ cancelled' = cancelled \cup ({requests[k0]} \ {None})
      /\ requests' = [requests EXCEPT ![k0] = e]
      /\ epc' = [epc EXCEPT ![e] = "registered"]
      /\ ereq' = ereq
  BY DEF NativeContext
<1>2. k0 \in Keys /\ e # None
  BY <1>1, KeyType, CallAssumption, IdentityAssumption
     DEF TypeInv, HasPayload, IdentityType
<1>3. epc \in [Executions -> ExecutePositions] /\ requests \in [Keys -> Executions \cup {None}]
  BY DEF TypeInv, TypeOK
<1>4. e \notin cancelled /\ e \notin Running /\ \A k \in Registered : requests[k] # e
  BY <1>1 DEF RegistryInv, RegisteredIsRunning, CancelledHasRegistered, Live, Running
<1>5. e \notin cancelled'
  BY <1>1, <1>2, <1>4 DEF Registered
<1>6. Running' = Running \cup {e}
  BY <1>1, <1>3 DEF Running
<1>7. \A d \in Executions : Key(d)' = Key(d)
  BY <1>1 DEF Key
<1>8. \A k \in Registered \ {k0} : requests[k] \notin {requests[k0]} \ {None}
  BY <1>2 DEF RegistryInv, RegisteredIsRunning, Registered
<1> HIDE DEF k0
<1>9. LiveIsRegistered'
  <2> SUFFICES ASSUME NEW d \in Live' PROVE requests'[Key(d)'] = d
    BY DEF LiveIsRegistered
  <2>1. CASE d = e
    BY <2>1, <1>1, <1>2, <1>3, <1>7 DEF k0
  <2>2. CASE d # e
    <3>1. d \in Live /\ d \in Executions /\ requests[Key(d)] = d
      BY <2>2, <1>1, <1>6 DEF Live, Running, RegistryInv, LiveIsRegistered
    <3>2. Key(d) # k0
      BY <3>1, <1>1, <1>3, <1>2, CallAssumption, IdentityAssumption
         DEF Live, IdentityType
    <3> QED BY <3>1, <3>2, <1>1, <1>3, <1>7
  <2> QED BY <2>1, <2>2
<1>10. RegisteredIsRunning'
  <2> SUFFICES ASSUME NEW k \in Registered'
               PROVE  /\ Key(requests[k])' = k
                      /\ requests'[k] \in Live' \/ epc'[requests'[k]] = "forgetting"
    BY DEF RegisteredIsRunning
  <2>1. CASE k = k0
    <3>1. requests'[k] = e
      BY <2>1, <1>1, <1>2, <1>3
    <3>2. Key(requests[k])' = k
      BY <2>1, <3>1, <1>1 DEF Key, k0
    <3> QED BY <3>1, <3>2, <1>5, <1>6 DEF Live
  <2>2. CASE k # k0
    <3>1. k \in Registered /\ requests'[k] = requests[k] /\ requests[k] \in Executions \ {e}
      BY <2>2, <1>1, <1>3, <1>4 DEF Registered
    <3>2. /\ Key(requests[k]) = k
          /\ requests[k] \in Live \/ epc[requests[k]] = "forgetting"
      BY <3>1 DEF RegistryInv, RegisteredIsRunning
    <3>3. requests[k] \in Live => requests[k] \in Live'
      BY <2>2, <3>1, <1>1, <1>6, <1>8 DEF Live
    <3>4. epc'[requests[k]] = epc[requests[k]]
      BY <3>1, <1>1, <1>3
    <3>5. Key(requests[k])' = k
      BY <3>1, <3>2, <1>1 DEF Key
    <3> QED BY <3>1, <3>2, <3>3, <3>4, <3>5
  <2> QED BY <2>1, <2>2
<1>11. CancelledHasRegistered'
  <2> SUFFICES ASSUME NEW d \in cancelled'
               PROVE  d \in Running' \/ epc'[d] \in {"forgetting", "ended"}
    BY DEF CancelledHasRegistered
  <2>1. d # e /\ d \in Executions
    BY <1>1, <1>2, <1>3, <1>5 DEF TypeInv, TypeOK
  <2>2. d \in Running \/ epc[d] \in {"forgetting", "ended"}
    BY <1>1, <1>2, <1>3 DEF RegistryInv, CancelledHasRegistered, RegisteredIsRunning,
                            Registered, Live
  <2> QED BY <2>1, <2>2, <1>1, <1>3, <1>6
<1> QED BY <1>9, <1>10, <1>11 DEF RegistryInv

(***************************************************************************)
(* request.complete cancels the one execution registered under the id and, *)
(* by the invariant, with it every live attempt of the request.            *)
(***************************************************************************)
LEMMA RegistryComplete ==
    ASSUME TypeInv, RegistryInv, NEW id \in RequestIds, RequestComplete(id)
    PROVE  /\ RegistryInv'
           /\ \A e \in Running : ereq[e].id = id => e \in cancelled'
<1>1. /\ cancelled' = cancelled \cup ({requests[id]} \ {None})
      /\ requests' = [requests EXCEPT ![id] = None]
      /\ UNCHANGED <<epc, ereq>>
  BY DEF RequestComplete
<1>2. id \in Keys /\ requests \in [Keys -> Executions \cup {None}]
  BY DEF Keys, TypeInv, TypeOK
<1>3. Running' = Running
  BY <1>1 DEF Running
<1>4. \A e \in Live : requests[Key(e)] = e /\ e # None
  BY CallAssumption, IdentityAssumption
     DEF RegistryInv, LiveIsRegistered, Live, Running, IdentityType
<1>5. ASSUME NEW e \in Live, e \notin cancelled' PROVE requests'[Key(e)] = e /\ Key(e) # id
  BY <1>1, <1>2, <1>4, <1>5
<1>6. LiveIsRegistered'
  BY <1>1, <1>3, <1>5 DEF LiveIsRegistered, Live, Key
<1>7. RegisteredIsRunning'
  <2> SUFFICES ASSUME NEW k \in Registered'
               PROVE  /\ Key(requests[k])' = k
                      /\ requests'[k] \in Live' \/ epc'[requests'[k]] = "forgetting"
    BY DEF RegisteredIsRunning
  <2>1. k \in Registered /\ k # id /\ requests'[k] = requests[k]
    BY <1>1, <1>2 DEF Registered
  <2>2. /\ Key(requests[k]) = k
        /\ requests[k] \in Live \/ epc[requests[k]] = "forgetting"
    BY <2>1 DEF RegistryInv, RegisteredIsRunning
  <2>3. requests[k] \notin {requests[id]} \ {None}
    BY <2>1, <2>2, <1>2 DEF RegistryInv, RegisteredIsRunning, Registered
  <2>4. Key(requests[k])' = k
    BY <2>1, <2>2, <1>1 DEF Key
  <2> QED BY <2>1, <2>2, <2>3, <2>4, <1>1, <1>3 DEF Live
<1>8. CancelledHasRegistered'
  <2>1. requests[id] # None => requests[id] \in Running \/ epc[requests[id]] = "forgetting"
    BY <1>2 DEF RegistryInv, RegisteredIsRunning, Registered, Live
  <2> QED BY <1>1, <1>3, <2>1 DEF RegistryInv, CancelledHasRegistered
<1>9. \A e \in Running : ereq[e].id = id => e \in cancelled'
  <2> SUFFICES ASSUME NEW e \in Running, ereq[e].id = id, e \notin cancelled PROVE e \in cancelled'
    BY <1>1
  <2>1. id # None
    BY IdentityAssumption DEF IdentityType
  <2>2. Key(e) = id
    BY <2>1 DEF Key
  <2> QED BY <2>2, <1>5 DEF Live
<1> QED BY <1>6, <1>7, <1>8, <1>9 DEF RegistryInv

(***************************************************************************)
(* cleanup, before it takes m.mu.                                          *)
(***************************************************************************)
LEMMA RegistryCleanupCancel ==
    ASSUME TypeInv, RegistryInv, NEW e \in Executions, CleanupCancel(e)
    PROVE  RegistryInv'
<1>1. /\ epc[e] = "finishing"
      /\ cancelled' = cancelled \cup {e}
      /\ epc' = [epc EXCEPT ![e] = "forgetting"]
      /\ UNCHANGED <<requests, ereq>>
  BY DEF CleanupCancel, managerVars
<1>2. epc \in [Executions -> ExecutePositions]
  BY DEF TypeInv, TypeOK
<1>3. Running' = Running \ {e} /\ Live' = Live \ {e} /\ Registered' = Registered
  BY <1>1, <1>2 DEF Running, Live, Registered
<1>4. \A d \in Executions \ {e} : epc'[d] = epc[d]
  BY <1>1, <1>2
<1>5. epc'[e] = "forgetting"
  BY <1>1, <1>2
<1>6. LiveIsRegistered'
  BY <1>1, <1>3 DEF RegistryInv, LiveIsRegistered, Key
<1>7. RegisteredIsRunning'
  <2>1. \A k \in Registered : requests[k] \in Executions
    BY DEF TypeInv, TypeOK, Registered
  <2> QED BY <1>1, <1>3, <1>4, <1>5, <2>1 DEF RegistryInv, RegisteredIsRunning, Key
<1>8. CancelledHasRegistered'
  BY <1>1, <1>3, <1>4, <1>5 DEF RegistryInv, CancelledHasRegistered, TypeInv, TypeOK
<1> QED BY <1>6, <1>7, <1>8 DEF RegistryInv

(***************************************************************************)
(* cleanup, under m.mu: the entry goes only if it is the execution's own.  *)
(***************************************************************************)
LEMMA RegistryCleanupForget ==
    ASSUME TypeInv, RegistryInv, NEW e \in Executions, CleanupForget(e)
    PROVE  RegistryInv'
<1>1. /\ epc[e] = "forgetting"
      /\ requests' = [requests EXCEPT ![Key(e)] = IF @ = e THEN None ELSE @]
      /\ epc' = [epc EXCEPT ![e] = "ended"]
      /\ UNCHANGED <<cancelled, ereq>>
  BY DEF CleanupForget
<1>2. epc \in [Executions -> ExecutePositions] /\ requests \in [Keys -> Executions \cup {None}]
  BY DEF TypeInv, TypeOK
<1>3. Key(e) \in Keys
  BY <1>1, KeyType DEF TypeInv, HasPayload
<1>4. e \notin Running /\ Running' = Running /\ Live' = Live
  BY <1>1, <1>2 DEF Running, Live
<1>5. \A d \in Executions \ {e} : epc'[d] = epc[d]
  BY <1>1, <1>2
<1>6. \A k \in Keys : requests[k] # e => requests'[k] = requests[k]
  BY <1>1, <1>2, <1>3
<1>7. LiveIsRegistered'
  <2>1. \A d \in Live : d # e /\ Key(d) \in Keys /\ requests[Key(d)] = d
    BY <1>4, KeyType DEF Live, Running, RegistryInv, LiveIsRegistered, TypeInv, HasPayload
  <2> QED BY <1>1, <1>4, <1>6, <2>1 DEF LiveIsRegistered, Key
<1>8. RegisteredIsRunning'
  <2> SUFFICES ASSUME NEW k \in Registered'
               PROVE  /\ Key(requests[k])' = k
                      /\ requests'[k] \in Live' \/ epc'[requests'[k]] = "forgetting"
    BY DEF RegisteredIsRunning
  <2>1. k \in Keys /\ requests'[k] # None
    BY DEF Registered
  <2>2. k \in Registered
    BY <2>1, <1>1, <1>2 DEF Registered
  <2>3. Key(requests[k]) = k
    BY <2>2 DEF RegistryInv, RegisteredIsRunning
  <2>4. requests[k] # e
    BY <2>1, <2>3, <1>1, <1>2
  <2>5. requests'[k] = requests[k] /\ requests[k] \in Executions \ {e}
    BY <2>1, <2>2, <2>4, <1>2, <1>6 DEF Registered
  <2>6. Key(requests[k])' = k
    BY <2>3, <2>5, <1>1 DEF Key
  <2> QED BY <2>2, <2>5, <2>6, <1>4, <1>5 DEF RegistryInv, RegisteredIsRunning
<1>9. CancelledHasRegistered'
  <2>1. epc'[e] = "ended"
    BY <1>1, <1>2
  <2> QED BY <1>1, <1>4, <1>5, <2>1 DEF RegistryInv, CancelledHasRegistered, TypeInv, TypeOK
<1> QED BY <1>7, <1>8, <1>9 DEF RegistryInv

(***************************************************************************)
(* Every step keeps the registry invariant.                                *)
(***************************************************************************)
LEMMA RegistryStep == TypeInv /\ RegistryInv /\ [Next]_vars => RegistryInv'
<1> SUFFICES ASSUME TypeInv, RegistryInv, [Next]_vars PROVE RegistryInv'
  OBVIOUS
<1>1. ASSUME NEW l \in Lifecycles, Lifecycle(l) PROVE RegistryInv'
  <2>1. CASE LifecycleCommit(l)
    BY <2>1, RegistryCancelAll DEF LifecycleCommit
  <2>2. CASE Shutdown(l)
    BY <2>2, RegistryCancelAll DEF Shutdown
  <2>3. CASE LifecycleReject(l)
    BY <2>3, RegistryFrame DEF LifecycleReject, managerVars, executeVars
  <2>4. CASE ApplyLogging(l)
    BY <2>4, RegistryFrame DEF ApplyLogging, executeVars
  <2> QED BY <1>1, <2>1, <2>2, <2>3, <2>4 DEF Lifecycle
<1>2. ASSUME NEW i \in Intercepts, InterceptStart(i) \/ InterceptStep(i) PROVE RegistryInv'
  <2>1. UNCHANGED <<requests, cancelled, epc, ereq>>
    BY <1>2 DEF InterceptStart, InterceptStep, InterceptMark, InterceptWarn, InterceptShape,
                InterceptKeep, InterceptLog, managerVars, executeVars
  <2> QED BY <2>1, RegistryFrame
<1>3. ASSUME NEW e \in Executions,
             \/ ExecuteDecode(e) \/ ExecuteReject(e) \/ ExecuteSnapshot(e)
             \/ ExecuteShape(e) \/ ExecuteKeep(e)
      PROVE  RegistryInv'
  <2>1. /\ epc[e] \in {"idle", "decoded", "snapped", "shaped"}
        /\ \E to \in {"decoded", "snapped", "shaped", "rejected"} :
                epc' = [epc EXCEPT ![e] = to]
        /\ UNCHANGED <<requests, cancelled>>
    BY <1>3 DEF ExecuteDecode, ExecuteReject, ExecuteSnapshot, ExecuteShape, ExecuteKeep,
                managerVars
  <2>2. \A d \in Executions \ {e} : ereq'[d] = ereq[d]
    BY <1>3 DEF ExecuteDecode, ExecuteReject, ExecuteSnapshot, ExecuteShape, ExecuteKeep,
                TypeInv, TypeOK
  <2> QED BY <2>1, <2>2, RegistryBefore
<1>4. ASSUME NEW e \in Executions,
             \/ ExecuteSend(e) \/ ExecuteFail(e) \/ ExecuteRespond(e) \/ ExecuteRefused(e)
             \/ ExecuteReadEnd(e) \/ ExecuteAbort(e) \/ ExecuteStreamClose(e)
      PROVE  RegistryInv'
  <2>1. AfterReading(e) \in {"closing", "finishing"}
    BY DEF AfterReading
  <2> QED BY <1>4, <2>1, RegistryAdvance
          DEF ExecuteSend, ExecuteFail, ExecuteRespond, ExecuteRefused, ExecuteReadEnd,
              ExecuteAbort, ExecuteStreamClose
<1>5. CASE UNCHANGED vars
  BY <1>5, RegistryFrame DEF vars, managerVars, executeVars
<1> QED
  BY <1>1, <1>2, <1>3, <1>4, <1>5, RegistryContext, RegistryCleanupCancel,
     RegistryCleanupForget, RegistryComplete
     DEF Next, ExecuteStep, UpstreamStep

(***************************************************************************)
(* The invariant the cancellation theorems rest on.                        *)
(***************************************************************************)
LEMMA RegistryInvariant == Spec => [](TypeInv /\ RegistryInv)
<1>1. Init => TypeInv
  BY DEF Init, ExecutePositions, TypeInv, TypeOK, HasPayload, AnyConfig
<1>2. Init => RegistryInv
  BY DEF Init, RegistryInv, LiveIsRegistered, RegisteredIsRunning, CancelledHasRegistered,
         Live, Running, Registered
<1> QED BY <1>1, <1>2, TypeStep, RegistryStep, PTL DEF Spec

(***************************************************************************)
(* Whatever attempts, retries, completions and lifecycle calls interleave, *)
(* a live execution is registered under its key.                           *)
(***************************************************************************)
THEOREM LiveRegistered == Spec => []LiveIsRegistered
<1>1. RegistryInv => LiveIsRegistered
  BY DEF RegistryInv
<1> QED BY <1>1, RegistryInvariant, PTL

(***************************************************************************)
(* The registry never keeps an execution past its cleanup.                 *)
(***************************************************************************)
THEOREM RegistryDrains == Spec => []RegisteredIsRunning
<1>1. RegistryInv => RegisteredIsRunning
  BY DEF RegistryInv
<1> QED BY <1>1, RegistryInvariant, PTL

(***************************************************************************)
(* request.complete cancels every attempt of the request that owns a       *)
(* context.                                                                *)
(***************************************************************************)
THEOREM CompletionCancelsAll == Spec => CompletionCancels
<1> DEFINE Cancels == \A e \in Running : ereq[e].id \in completed' \ completed
                                          => e \in cancelled'
<1>1. TypeInv /\ RegistryInv /\ [Next]_vars => [Cancels]_vars
  <2> SUFFICES ASSUME TypeInv, RegistryInv, Next PROVE Cancels
    OBVIOUS
  <2>1. ASSUME NEW id \in RequestIds, RequestComplete(id) PROVE Cancels
    <3>1. completed' \ completed \subseteq {id}
      BY <2>1 DEF RequestComplete
    <3> QED BY <2>1, <3>1, RegistryComplete
  <2>2. CASE completed' = completed
    BY <2>2
  <2>3. (\E id \in RequestIds : RequestComplete(id)) \/ completed' = completed
    BY DEF Next, Lifecycle, LifecycleCommit, LifecycleReject, Shutdown, ApplyLogging,
           InterceptStart, InterceptStep, InterceptMark, InterceptWarn, InterceptShape,
           InterceptKeep, InterceptLog, ExecuteDecode, ExecuteStep, UpstreamStep,
           ExecuteReject, ExecuteSnapshot, ExecuteShape, ExecuteKeep, NativeContext,
           ExecuteSend, ExecuteFail, ExecuteRespond, ExecuteRefused, ExecuteReadEnd,
           ExecuteAbort, ExecuteStreamClose, Advance, CleanupCancel, CleanupForget, hostVars
  <2> QED BY <2>1, <2>2, <2>3
<1> QED BY <1>1, RegistryInvariant, PTL DEF Spec, CompletionCancels

(***************************************************************************)
(* A reconfiguration or a shutdown cancels every execution that owns a     *)
(* context.                                                                *)
(***************************************************************************)
THEOREM LifecycleCancelsAll == Spec => LifecycleCancels
<1> DEFINE Commits == \E l \in Lifecycles : lpc[l] = "idle" /\ lpc'[l] = "logging"
<1>1. TypeInv /\ RegistryInv /\ [Next]_vars => [Commits => Running \subseteq cancelled']_vars
  <2> SUFFICES ASSUME TypeInv, RegistryInv, Next, Commits PROVE Running \subseteq cancelled'
    OBVIOUS
  <2>1. ASSUME NEW l \in Lifecycles, LifecycleCommit(l) \/ Shutdown(l)
        PROVE  Running \subseteq cancelled'
    BY <2>1, RegistryCancelAll DEF LifecycleCommit, Shutdown
  <2>2. \/ \E l \in Lifecycles : LifecycleCommit(l) \/ Shutdown(l)
        \/ \E l \in Lifecycles : LifecycleReject(l) \/ ApplyLogging(l)
        \/ lpc' = lpc
    BY DEF Next, Lifecycle,
           InterceptStart, InterceptStep, InterceptMark, InterceptWarn, InterceptShape,
           InterceptKeep, InterceptLog, ExecuteDecode, ExecuteStep, UpstreamStep,
           ExecuteReject, ExecuteSnapshot, ExecuteShape, ExecuteKeep, NativeContext,
           ExecuteSend, ExecuteFail, ExecuteRespond, ExecuteRefused, ExecuteReadEnd,
           ExecuteAbort, ExecuteStreamClose, Advance, CleanupCancel, CleanupForget,
           RequestComplete, lifecycleVars
  <2>3. ASSUME NEW l \in Lifecycles, LifecycleReject(l) \/ ApplyLogging(l) PROVE FALSE
    BY <2>3 DEF LifecycleReject, ApplyLogging, TypeInv, TypeOK
  <2> QED BY <2>1, <2>2, <2>3
<1> QED BY <1>1, RegistryInvariant, PTL DEF Spec, LifecycleCancels

(***************************************************************************)
(* cleanup cancels before it takes the lock.                               *)
(***************************************************************************)
ForgettingIsCancelled ==
    \A e \in Executions : epc[e] = "forgetting" => e \in cancelled

(***************************************************************************)
(* No step uncancels a context, and only CleanupCancel starts forgetting.  *)
(***************************************************************************)
LEMMA ForgettingStep ==
    TypeInv /\ ForgettingIsCancelled /\ [Next]_vars => ForgettingIsCancelled'
<1> SUFFICES ASSUME TypeInv, ForgettingIsCancelled, [Next]_vars PROVE ForgettingIsCancelled'
  OBVIOUS
<1>1. cancelled \subseteq cancelled'
  BY DEF vars, managerVars, executeVars, CancelNativeRequests,
           Next, Lifecycle, LifecycleCommit, LifecycleReject, Shutdown, ApplyLogging,
           InterceptStart, InterceptStep, InterceptMark, InterceptWarn, InterceptShape,
           InterceptKeep, InterceptLog, ExecuteDecode, ExecuteStep, UpstreamStep,
           ExecuteReject, ExecuteSnapshot, ExecuteShape, ExecuteKeep, NativeContext,
           ExecuteSend, ExecuteFail, ExecuteRespond, ExecuteRefused, ExecuteReadEnd,
           ExecuteAbort, ExecuteStreamClose, Advance, AfterReading, CleanupCancel,
           CleanupForget, RequestComplete
<1>2. \/ epc' = epc
      \/ \E e \in Executions, to \in ExecutePositions :
            /\ epc' = [epc EXCEPT ![e] = to]
            /\ to = "forgetting" => e \in cancelled'
  BY DEF vars, managerVars, executeVars, CancelNativeRequests, ExecutePositions,
           Next, Lifecycle, LifecycleCommit, LifecycleReject, Shutdown, ApplyLogging,
           InterceptStart, InterceptStep, InterceptMark, InterceptWarn, InterceptShape,
           InterceptKeep, InterceptLog, ExecuteDecode, ExecuteStep, UpstreamStep,
           ExecuteReject, ExecuteSnapshot, ExecuteShape, ExecuteKeep, NativeContext,
           ExecuteSend, ExecuteFail, ExecuteRespond, ExecuteRefused, ExecuteReadEnd,
           ExecuteAbort, ExecuteStreamClose, Advance, AfterReading, CleanupCancel,
           CleanupForget, RequestComplete
<1> QED BY <1>1, <1>2 DEF ForgettingIsCancelled, TypeInv, TypeOK

(***************************************************************************)
(* An execution only leaves the registry with its context cancelled.       *)
(***************************************************************************)
THEOREM NeverOrphansLive == Spec => NeverOrphaned
<1> DEFINE Kept == \A k \in Registered : requests'[k] # requests[k]
                                        => requests[k] \in cancelled'
<1>1. Init => TypeInv /\ ForgettingIsCancelled
  BY DEF Init, ExecutePositions, TypeInv, TypeOK, HasPayload, AnyConfig, ForgettingIsCancelled
<1>2. TypeInv /\ ForgettingIsCancelled /\ [Next]_vars => [Kept]_vars
  <2> SUFFICES ASSUME TypeInv, ForgettingIsCancelled, Next PROVE Kept
    OBVIOUS
  <2>1. requests \in [Keys -> Executions \cup {None}]
    BY DEF TypeInv, TypeOK
  <2>2. ASSUME CancelNativeRequests PROVE Kept
    BY <2>2 DEF CancelNativeRequests, Registered
  <2>3. ASSUME NEW e \in Executions, NativeContext(e) PROVE Kept
    BY <2>1, <2>3 DEF NativeContext, Registered
  <2>4. ASSUME NEW e \in Executions, CleanupForget(e) PROVE Kept
    BY <2>1, <2>4 DEF CleanupForget, Registered, ForgettingIsCancelled
  <2>5. ASSUME NEW id \in RequestIds, RequestComplete(id) PROVE Kept
    BY <2>1, <2>5 DEF RequestComplete, Registered
  <2>6. \/ CancelNativeRequests
        \/ \E e \in Executions : NativeContext(e) \/ CleanupForget(e)
        \/ \E id \in RequestIds : RequestComplete(id)
        \/ requests' = requests
    BY DEF Next, Lifecycle, LifecycleCommit, LifecycleReject, Shutdown, ApplyLogging,
           InterceptStart, InterceptStep, InterceptMark, InterceptWarn, InterceptShape,
           InterceptKeep, InterceptLog, ExecuteDecode, ExecuteStep, UpstreamStep,
           ExecuteReject, ExecuteSnapshot, ExecuteShape, ExecuteKeep, ExecuteSend,
           ExecuteFail, ExecuteRespond, ExecuteRefused, ExecuteReadEnd, ExecuteAbort,
           ExecuteStreamClose, Advance, CleanupCancel, managerVars
  <2> QED BY <2>2, <2>3, <2>4, <2>5, <2>6
<1> QED BY <1>1, <1>2, TypeStep, ForgettingStep, PTL DEF Spec, NeverOrphaned

-----------------------------------------------------------------------------
(* Session ids                                                             *)

(***************************************************************************)
(* The inductive invariant of the session cache: an entry is the id of its *)
(* own identity, and every id handed out since the last shutdown is still  *)
(* the entry of its identity.                                              *)
(***************************************************************************)
CacheInv ==
    /\ \A who \in IdentityType : sessionIDs[who] # None => sessionIDs[who].of = who
    /\ \A id \in handed : sessionIDs[id.of] = id

(***************************************************************************)
(* shapeSessionID keeps it: what it returns is what the cache then holds,  *)
(* and an identity that has an id keeps it.                                *)
(***************************************************************************)
LEMMA ShapeKeepsCache ==
    ASSUME TypeInv, CacheInv, NEW who \in IdentityType,
           NEW id \in SessionIDsFor(who), ShapeSessionID(who, id)
    PROVE  CacheInv'
<1>1. sessionIDs' = [sessionIDs EXCEPT ![who] = id] /\ handed' = handed \cup {id}
  BY DEF ShapeSessionID
<1>2. /\ sessionIDs \in [IdentityType -> ShapedType \cup {None}]
      /\ handed \subseteq ShapedType /\ id \in ShapedType
  BY SessionIDsForType DEF TypeInv, TypeOK
<1>3. id.of = who
  BY DEF SessionIDsFor, Shaped, CacheInv
<1>4. sessionIDs[who] # None => id = sessionIDs[who]
  BY DEF SessionIDsFor
<1>5. \A x \in handed : x.of \in IdentityType /\ x # None /\ sessionIDs[x.of] = x
  BY <1>2, CallAssumption DEF CacheInv, ShapedType
<1> QED BY <1>1, <1>2, <1>3, <1>4, <1>5 DEF CacheInv

(***************************************************************************)
(* Every other step leaves the cache alone, or empties it with the history *)
(* of what was handed out.                                                 *)
(***************************************************************************)
LEMMA CacheStep == TypeInv /\ CacheInv /\ [Next]_vars => CacheInv'
<1> SUFFICES ASSUME TypeInv, CacheInv, [Next]_vars PROVE CacheInv'
  OBVIOUS
<1>1. ASSUME NEW i \in Intercepts, InterceptShape(i) PROVE CacheInv'
  <2>1. ipc[i] = "session" /\ FingerprintApplies(ireq[i], icfg[i])
    BY <1>1 DEF InterceptShape
  <2>2. InterceptIdentity(i).value \in IdentityType
    BY <2>1, InterceptIdentityType
  <2> QED BY <1>1, <2>2, ShapeKeepsCache DEF InterceptShape
<1>2. ASSUME NEW e \in Executions, ExecuteShape(e) PROVE CacheInv'
  <2>1. ExecuteIdentity(e) \in IdentityType
    BY <1>2, ExecuteIdentityType DEF ExecuteShape
  <2> QED BY <1>2, <2>1, ShapeKeepsCache DEF ExecuteShape
<1>3. ASSUME NEW l \in Lifecycles, Shutdown(l) PROVE CacheInv'
  BY <1>3 DEF Shutdown, CacheInv
<1>4. CASE UNCHANGED <<sessionIDs, handed>>
  BY <1>4 DEF CacheInv
<1>5. \/ \E i \in Intercepts : InterceptShape(i)
      \/ \E e \in Executions : ExecuteShape(e)
      \/ \E l \in Lifecycles : Shutdown(l)
      \/ UNCHANGED <<sessionIDs, handed>>
  BY DEF vars, Next, Lifecycle, LifecycleCommit, LifecycleReject, ApplyLogging,
         InterceptStart, InterceptStep, InterceptMark, InterceptWarn, InterceptKeep,
         InterceptLog, ExecuteDecode, ExecuteStep, UpstreamStep, ExecuteReject,
         ExecuteSnapshot, ExecuteKeep, NativeContext, ExecuteSend, ExecuteFail,
         ExecuteRespond, ExecuteRefused, ExecuteReadEnd, ExecuteAbort,
         ExecuteStreamClose, Advance, CleanupCancel, CleanupForget, RequestComplete,
         managerVars, hostVars
<1> QED BY <1>1, <1>2, <1>3, <1>4, <1>5

(***************************************************************************)
(* A conversation keeps one shaped session id between two shutdowns.       *)
(***************************************************************************)
THEOREM SessionIsSticky == Spec => []SessionSticky
<1>1. Init => TypeInv /\ CacheInv
  BY DEF Init, ExecutePositions, TypeInv, TypeOK, HasPayload, AnyConfig, CacheInv
<1>2. CacheInv => SessionSticky
  BY DEF CacheInv, SessionSticky
<1> QED BY <1>1, <1>2, TypeStep, CacheStep, PTL DEF Spec

-----------------------------------------------------------------------------
(* Glue warnings                                                           *)

(***************************************************************************)
(* Steps other than InterceptMark neither add nor lose a writer of a       *)
(* credential's warning.                                                   *)
(***************************************************************************)
LEMMA WarnersKept ==
    ASSUME TypeInv, [Next]_vars, ~ \E i \in Intercepts : InterceptMark(i), NEW a \in Auths
    PROVE  Warners(a)' = Warners(a)
<1>1. ASSUME NEW i \in Intercepts, InterceptWarn(i) PROVE Warners(a)' = Warners(a)
  <2> DEFINE line == WarnLine(i)
  <2>1. /\ ipc[i] = "warning" /\ ipc' = [ipc EXCEPT ![i] = "session"]
        /\ (hostLog \cup lost)' = hostLog \cup lost \cup {line} /\ ireq' = ireq
    BY <1>1 DEF InterceptWarn, LogToHostAlways
  <2>2. line.level = "warn" /\ line.call = i /\ line.auth = ireq[i].auth
    BY DEF WarnLine
  <2> HIDE DEF line
  <2>3. WarnLines(a)' = IF ireq[i].auth = a THEN WarnLines(a) \cup {line} ELSE WarnLines(a)
    BY <2>1, <2>2 DEF WarnLines
  <2>4. \A j \in Intercepts \ {i} : ipc'[j] = ipc[j]
    BY <2>1 DEF TypeInv, TypeOK
  <2>5. ipc'[i] = "session"
    BY <2>1 DEF TypeInv, TypeOK
  <2> QED BY <2>1, <2>2, <2>3, <2>4, <2>5 DEF Warners
<1>2. ASSUME NEW i \in Intercepts,
             \/ InterceptStart(i) \/ InterceptShape(i) \/ InterceptKeep(i) \/ InterceptLog(i)
      PROVE  Warners(a)' = Warners(a)
  <2>1. /\ ipc[i] \in {"idle", "session", "log"}
        /\ \E to \in {"warn", "session", "log", "done"} : ipc' = [ipc EXCEPT ![i] = to]
        /\ \A j \in Intercepts \ {i} : ireq'[j] = ireq[j]
    BY <1>2 DEF InterceptStart, InterceptShape, InterceptKeep, InterceptLog, TypeInv, TypeOK
  <2>2. WarnLines(a)' = WarnLines(a)
    <3>1. \/ (hostLog \cup lost)' = hostLog \cup lost
          \/ (hostLog \cup lost)' = hostLog \cup lost \cup {[level |-> "info", call |-> i]}
      BY <1>2 DEF InterceptStart, InterceptShape, InterceptKeep, InterceptLog, LogToHost,
                  LogToHostAlways, hostVars
    <3>2. [level |-> "info", call |-> i].level # "warn"
      OBVIOUS
    <3> QED BY <3>1, <3>2 DEF WarnLines
  <2>3. \A j \in Intercepts :
          /\ j # i => ipc'[j] = ipc[j] /\ ireq'[j] = ireq[j]
          /\ j = i => ipc'[j] # "warning" /\ ipc[j] # "warning"
    BY <2>1 DEF TypeInv, TypeOK
  <2> QED BY <2>2, <2>3 DEF Warners
<1>3. CASE UNCHANGED <<ipc, ireq, hostLog, lost>>
  BY <1>3 DEF Warners, WarnLines
<1>4. \/ \E i \in Intercepts :
            \/ InterceptStart(i) \/ InterceptWarn(i) \/ InterceptShape(i)
            \/ InterceptKeep(i) \/ InterceptLog(i)
      \/ UNCHANGED <<ipc, ireq, hostLog, lost>>
  BY DEF vars, Next, Lifecycle, LifecycleCommit, LifecycleReject, Shutdown, ApplyLogging,
         InterceptStep, ExecuteDecode, ExecuteStep, UpstreamStep, ExecuteReject,
         ExecuteSnapshot, ExecuteShape, ExecuteKeep, NativeContext, ExecuteSend,
         ExecuteFail, ExecuteRespond, ExecuteRefused, ExecuteReadEnd, ExecuteAbort,
         ExecuteStreamClose, Advance, CleanupCancel, CleanupForget, RequestComplete,
         interceptVars, hostVars
<1> QED BY <1>1, <1>2, <1>3, <1>4

\* No credential loses its mark.
MarksKept == \A a \in Auths : warned[a] # None => warned'[a] # None

(***************************************************************************)
(* A step puts at most one configuration in force, and only then forgets   *)
(* which credentials were warned.                                          *)
(***************************************************************************)
LEMMA CommittedStep ==
    ASSUME TypeInv, [Next]_vars
    PROVE  \/ \E l \in Lifecycles \ Committed :
                Committed' = Committed \cup {l} /\ ~ \E i \in Intercepts : InterceptMark(i)
           \/ Committed' = Committed /\ MarksKept
<1>1. ASSUME NEW l \in Lifecycles, LifecycleCommit(l) \/ Shutdown(l)
      PROVE  /\ l \notin Committed /\ Committed' = Committed \cup {l}
             /\ ~ \E i \in Intercepts : InterceptMark(i)
  <2>1. lpc[l] = "idle" /\ lpc' = [lpc EXCEPT ![l] = "logging"]
    BY <1>1 DEF LifecycleCommit, Shutdown
  <2>2. l \notin Committed /\ Committed' = Committed \cup {l}
    BY <2>1 DEF Committed, TypeInv, TypeOK
  <2>3. ASSUME NEW i \in Intercepts, InterceptMark(i) PROVE FALSE
    BY <2>1, <2>3 DEF InterceptMark, lifecycleVars, TypeInv, TypeOK
  <2> QED BY <2>2, <2>3
<1>2. ASSUME NEW l \in Lifecycles, LifecycleReject(l) \/ ApplyLogging(l)
      PROVE  Committed' = Committed /\ MarksKept
  BY <1>2 DEF LifecycleReject, ApplyLogging, Committed, MarksKept, managerVars, TypeInv, TypeOK
<1>3. ASSUME NEW i \in Intercepts, InterceptMark(i)
      PROVE  Committed' = Committed /\ MarksKept
  <2>1. Committed' = Committed
    BY <1>3 DEF InterceptMark, Committed, lifecycleVars
  <2>2. warned' = [warned EXCEPT ![ireq[i].auth] =
                     IF warned[ireq[i].auth] # None THEN warned[ireq[i].auth] ELSE i]
    BY <1>3 DEF InterceptMark
  <2>3. i # None
    BY CallAssumption, IdentityAssumption DEF IdentityType
  <2> QED BY <2>1, <2>2, <2>3 DEF MarksKept, TypeInv, TypeOK
<1>4. ASSUME UNCHANGED <<lpc, warned>> PROVE Committed' = Committed /\ MarksKept
  BY <1>4 DEF Committed, MarksKept
<1>5. \/ \E l \in Lifecycles : LifecycleCommit(l) \/ Shutdown(l)
      \/ \E l \in Lifecycles : LifecycleReject(l) \/ ApplyLogging(l)
      \/ \E i \in Intercepts : InterceptMark(i)
      \/ UNCHANGED <<lpc, warned>>
  BY DEF vars, Next, Lifecycle, InterceptStart, InterceptStep, InterceptWarn,
         InterceptShape, InterceptKeep, InterceptLog, ExecuteDecode, ExecuteStep,
         UpstreamStep, ExecuteReject, ExecuteSnapshot, ExecuteShape, ExecuteKeep,
         NativeContext, ExecuteSend, ExecuteFail, ExecuteRespond, ExecuteRefused,
         ExecuteReadEnd, ExecuteAbort, ExecuteStreamClose, Advance, CleanupCancel,
         CleanupForget, RequestComplete, managerVars, lifecycleVars
<1> QED BY <1>1, <1>2, <1>3, <1>4, <1>5

(***************************************************************************)
(* With finitely many calls, a step keeps the bound on the warnings of a   *)
(* credential: a new writer marks it, a reset raises the bound.            *)
(***************************************************************************)
LEMMA WarnedOnceStep ==
    ASSUME IsFiniteSet(Intercepts), IsFiniteSet(Lifecycles),
           TypeInv, WarnedOncePerConfiguration, [Next]_vars
    PROVE  WarnedOncePerConfiguration'
<1> SUFFICES ASSUME NEW a \in Auths
             PROVE  Cardinality(Warners(a)')
                      <= Cardinality(Committed') + (IF warned'[a] # None THEN 1 ELSE 0)
  BY DEF WarnedOncePerConfiguration
<1>1. Cardinality(Warners(a)) <= Cardinality(Committed) + (IF warned[a] # None THEN 1 ELSE 0)
  BY DEF WarnedOncePerConfiguration
<1>2. IsFiniteSet(Committed) /\ Cardinality(Committed) \in Nat
  <2>1. Committed \subseteq Lifecycles
    BY DEF Committed
  <2> QED BY <2>1, FS_Subset, FS_CardinalityType
<1>3. IsFiniteSet(Warners(a)) /\ Cardinality(Warners(a)) \in Nat
  <2>1. WarnLines(a) \subseteq [level : {"warn"}, call : Intercepts, auth : Auths,
                                glue : [userAgent : HeaderNames, session : HeaderNames]]
    BY DEF WarnLines, TypeInv, TypeOK, LogLines
  <2>2. Warners(a) \subseteq Intercepts
    BY <2>1 DEF Warners
  <2> QED BY <2>2, FS_Subset, FS_CardinalityType
<1>4. ASSUME NEW i \in Intercepts, InterceptMark(i)
      PROVE  Cardinality(Warners(a)')
                <= Cardinality(Committed') + (IF warned'[a] # None THEN 1 ELSE 0)
  <2>1. /\ ipc[i] = "warn"
        /\ ipc' = [ipc EXCEPT ![i] = IF warned[ireq[i].auth] # None THEN "session" ELSE "warning"]
        /\ warned' = [warned EXCEPT ![ireq[i].auth] =
                        IF warned[ireq[i].auth] # None THEN warned[ireq[i].auth] ELSE i]
        /\ UNCHANGED <<ireq, hostLog, lost, lpc>>
    BY <1>4 DEF InterceptMark, lifecycleVars, hostVars
  <2>2. Committed' = Committed /\ WarnLines(a)' = WarnLines(a)
    BY <2>1 DEF Committed, WarnLines
  <2>3. \A j \in Intercepts \ {i} : ipc'[j] = ipc[j]
    BY <2>1 DEF TypeInv, TypeOK
  <2>4. ipc'[i] = IF warned[ireq[i].auth] # None THEN "session" ELSE "warning"
    BY <2>1 DEF TypeInv, TypeOK
  <2>5. CASE ireq[i].auth = a /\ warned[a] = None
    <3>1. Warners(a)' = Warners(a) \cup {i}
      BY <2>1, <2>2, <2>3, <2>4, <2>5 DEF Warners
    <3>2. Cardinality(Warners(a) \cup {i}) \in {Cardinality(Warners(a)), Cardinality(Warners(a)) + 1}
      <4>1. Cardinality(Warners(a) \cup {i}) =
              IF i \in Warners(a) THEN Cardinality(Warners(a)) ELSE Cardinality(Warners(a)) + 1
        BY <1>3, FS_AddElement
      <4> QED BY <4>1
    <3>3. warned'[a] # None
      <4>1. i # None
        BY CallAssumption, IdentityAssumption DEF IdentityType
      <4> QED BY <4>1, <2>1, <2>5 DEF TypeInv, TypeOK
    <3> QED BY <1>1, <1>2, <1>3, <2>2, <2>5, <3>1, <3>2, <3>3
  <2>6. CASE ~ (ireq[i].auth = a /\ warned[a] = None)
    <3>1. Warners(a)' = Warners(a)
      <4>1. ipc'[i] = "warning" => ireq[i].auth # a
        BY <2>4, <2>6
      <4>2. \A j \in Intercepts : (ipc'[j] = "warning" /\ ireq'[j].auth = a)
                                  <=> (ipc[j] = "warning" /\ ireq[j].auth = a)
        BY <4>1, <2>1, <2>3
      <4> QED BY <4>2, <2>2 DEF Warners
    <3>2. warned[a] # None => warned'[a] # None
      BY <2>1 DEF TypeInv, TypeOK
    <3> QED BY <1>1, <1>2, <1>3, <2>2, <3>1, <3>2
  <2> QED BY <2>5, <2>6
<1>5. CASE ~ \E i \in Intercepts : InterceptMark(i)
  <2>1. Warners(a)' = Warners(a)
    BY <1>5, WarnersKept
  <2>2. ASSUME NEW l \in Lifecycles \ Committed, Committed' = Committed \cup {l}
        PROVE  Cardinality(Committed') = Cardinality(Committed) + 1
    BY <1>2, <2>2, FS_AddElement
  <2>3. CASE \E l \in Lifecycles \ Committed : Committed' = Committed \cup {l}
    <3>1. Cardinality(Committed') = Cardinality(Committed) + 1
      BY <2>2, <2>3
    <3> DEFINE w == Cardinality(Warners(a))
               n == Cardinality(Committed)
               before == IF warned[a] # None THEN 1 ELSE 0
               after == IF warned'[a] # None THEN 1 ELSE 0
    <3>2. w \in Nat /\ n \in Nat /\ before \in {0, 1} /\ after \in {0, 1} /\ w <= n + before
      BY <1>1, <1>2, <1>3
    <3> HIDE DEF w, n, before, after
    <3>3. w <= n + 1 + after
      BY <3>2
    <3> QED BY <2>1, <3>1, <3>3 DEF w, n, after
  <2>4. CASE Committed' = Committed /\ MarksKept
    BY <1>1, <1>2, <1>3, <2>1, <2>4 DEF MarksKept
  <2> QED BY <2>3, <2>4, CommittedStep
<1> QED BY <1>4, <1>5

(***************************************************************************)
(* At most one glue warning per credential and configuration put in force, *)
(* for any finite number of concurrent requests and reconfigurations.      *)
(***************************************************************************)
THEOREM WarnedOnce ==
    ASSUME IsFiniteSet(Intercepts), IsFiniteSet(Lifecycles)
    PROVE  Spec => []WarnedOncePerConfiguration
<1>1. Init => TypeInv
  BY DEF Init, ExecutePositions, TypeInv, TypeOK, HasPayload, AnyConfig
<1>2. Init => WarnedOncePerConfiguration
  <2> SUFFICES ASSUME Init PROVE WarnedOncePerConfiguration
    OBVIOUS
  <2>1. Committed = {} /\ \A a \in Auths : Warners(a) = {}
    BY DEF Init, Committed, Warners, WarnLines
  <2>2. Cardinality({}) = 0
    BY FS_EmptySet
  <2> QED BY <2>1, <2>2 DEF Init, WarnedOncePerConfiguration
<1>3. TypeInv /\ WarnedOncePerConfiguration /\ [Next]_vars => WarnedOncePerConfiguration'
  BY WarnedOnceStep
<1> QED BY <1>1, <1>2, <1>3, TypeStep, PTL DEF Spec

(***************************************************************************)
(* A step keeps the writer behind every mark: marking adds one, and every  *)
(* other step leaves the marks, or clears them, and keeps the writers.     *)
(***************************************************************************)
LEMMA WarnedIsWrittenStep ==
    ASSUME TypeInv, WarnedIsWritten, [Next]_vars
    PROVE  WarnedIsWritten'
<1> SUFFICES ASSUME NEW a \in Auths, warned'[a] # None
             PROVE  warned'[a] \in Warners(a)'
  BY DEF WarnedIsWritten
<1>1. warned[a] # None => warned[a] \in Warners(a)
  BY DEF WarnedIsWritten
<1>2. ASSUME NEW i \in Intercepts, InterceptMark(i) PROVE warned'[a] \in Warners(a)'
  <2>1. /\ ipc[i] = "warn"
        /\ ipc' = [ipc EXCEPT ![i] = IF warned[ireq[i].auth] # None THEN "session" ELSE "warning"]
        /\ warned' = [warned EXCEPT ![ireq[i].auth] =
                        IF warned[ireq[i].auth] # None THEN warned[ireq[i].auth] ELSE i]
        /\ UNCHANGED <<ireq, hostLog, lost>>
    BY <1>2 DEF InterceptMark, hostVars
  <2>2. WarnLines(a)' = WarnLines(a)
    BY <2>1 DEF WarnLines
  <2>3. CASE ireq[i].auth = a /\ warned[a] = None
    <3>1. warned'[a] = i /\ ipc'[i] = "warning" /\ ireq'[i].auth = a
      BY <2>1, <2>3 DEF TypeInv, TypeOK
    <3> QED BY <3>1 DEF Warners
  <2>4. CASE ~ (ireq[i].auth = a /\ warned[a] = None)
    <3>1. warned'[a] = warned[a]
      BY <2>1, <2>4 DEF TypeInv, TypeOK
    <3>2. \A j \in Intercepts : ipc[j] = "warning" => ipc'[j] = "warning" /\ ireq'[j] = ireq[j]
      BY <2>1 DEF TypeInv, TypeOK
    <3>3. Warners(a) \subseteq Warners(a)'
      BY <2>2, <3>2 DEF Warners
    <3> QED BY <1>1, <3>1, <3>3
  <2> QED BY <2>3, <2>4
<1>3. CASE ~ \E i \in Intercepts : InterceptMark(i)
  <2>1. warned' = warned \/ warned' = [b \in Auths |-> None]
    BY <1>3 DEF vars, Next, Lifecycle, LifecycleCommit, LifecycleReject, Shutdown,
         ApplyLogging, InterceptStart, InterceptStep, InterceptWarn,
         InterceptShape, InterceptKeep, InterceptLog, ExecuteDecode, ExecuteStep,
         UpstreamStep, ExecuteReject, ExecuteSnapshot, ExecuteShape, ExecuteKeep,
         NativeContext, ExecuteSend, ExecuteFail, ExecuteRespond, ExecuteRefused,
         ExecuteReadEnd, ExecuteAbort, ExecuteStreamClose, Advance, CleanupCancel,
         CleanupForget, RequestComplete, managerVars, lifecycleVars
  <2>2. warned'[a] = warned[a]
    BY <2>1
  <2> QED BY <1>1, <1>3, <2>2, WarnersKept
<1> QED BY <1>2, <1>3

(***************************************************************************)
(* No mark without a line: whoever marked a credential has written its     *)
(* warning or is about to, for any number of requests and lifecycle calls. *)
(***************************************************************************)
THEOREM MarkedIsWarned == Spec => []WarnedIsWritten
<1>1. Init => TypeInv /\ WarnedIsWritten
  BY DEF Init, ExecutePositions, TypeInv, TypeOK, HasPayload, AnyConfig, WarnedIsWritten
<1> QED BY <1>1, TypeStep, WarnedIsWrittenStep, PTL DEF Spec

=============================================================================

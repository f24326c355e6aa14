------------------------- MODULE CredentialsProofs --------------------------
(***************************************************************************)
(* Theorems about native credentials: any credentials, requests, paid      *)
(* lists and proxy settings.                                               *)
(***************************************************************************)
EXTENDS Credentials, WellFoundedInduction, SequenceTheorems, TLAPS

-----------------------------------------------------------------------------
(* Operators *)

\* The executor takes the credential's prefix off what the host put it before.
LEMMA TrimsPrefix ==
    ASSUME NEW prefix \in Seq(STRING), prefix # <<>>,
           NEW id \in Seq(STRING), id # <<>>
    PROVE  TrimPrefix(prefix \o id, prefix) = id
<1> DEFINE whole == prefix \o id
           n == Len(prefix)
<1>1. /\ whole \in Seq(STRING)
      /\ Len(whole) = n + Len(id)
      /\ \A i \in 1 .. n + Len(id) :
            whole[i] = IF i <= n THEN prefix[i] ELSE id[i - n]
  BY ConcatProperties
<1>2. n \in Nat \ {0} /\ Len(id) \in Nat \ {0}
  BY EmptySeq, LenProperties
<1> HIDE DEF whole
<1>3. SubSeq(whole, 1, n) = prefix
  <2>1. \A i \in 1 .. n : whole[i] \in STRING
    BY <1>1, <1>2, ElementOfSeq
  <2>2. /\ SubSeq(whole, 1, n) \in Seq(STRING)
        /\ Len(SubSeq(whole, 1, n)) = n
        /\ \A i \in 1 .. n : SubSeq(whole, 1, n)[i] = whole[i]
    BY <1>2, <2>1, SubSeqProperties
  <2> QED
    BY <1>1, <1>2, <2>2, SeqEqual
<1>4. SubSeq(whole, n + 1, Len(whole)) = id
  <2>1. \A i \in n + 1 .. Len(whole) : whole[i] \in STRING
    BY <1>1, <1>2, ElementOfSeq
  <2>2. /\ SubSeq(whole, n + 1, Len(whole)) \in Seq(STRING)
        /\ Len(SubSeq(whole, n + 1, Len(whole))) = Len(id)
        /\ \A i \in 1 .. Len(id) :
              SubSeq(whole, n + 1, Len(whole))[i] = whole[n + i]
    BY <1>1, <1>2, <2>1, SubSeqProperties
  <2>3. \A i \in 1 .. Len(id) : whole[n + i] = id[i]
    BY <1>1, <1>2
  <2> QED
    BY <2>2, <2>3, SeqEqual
<1>5. TrimPrefix(whole, prefix) = id
  BY <1>1, <1>2, <1>3, <1>4 DEF TrimPrefix
<1> QED
  BY <1>5 DEF whole

\* The executor's search finds a model, if one goes by the id.
LEMMA ResolvesToFit ==
    ASSUME NEW c \in Credentials, NEW request,
           NEW k \in DOMAIN c.models,
           TrimPrefix(request, c.prefix) \in IdsOf(c.models[k])
    PROVE  \E i \in DOMAIN c.models :
              /\ TrimPrefix(request, c.prefix) \in IdsOf(c.models[i])
              /\ Resolve(c, request) = c.models[i].name
<1> DEFINE fits == {i \in DOMAIN c.models :
                       TrimPrefix(request, c.prefix) \in IdsOf(c.models[i])}
<1>1. fits \subseteq Nat /\ k \in fits
  BY CredentialsAssumption
<1> DEFINE less == OpToRel(<, Nat)
<1> HIDE DEF less
<1>2. PICK i \in fits : \A j \in fits : ~ (<<j, i>> \in less)
  BY <1>1, WFMin, NatLessThanWellFounded DEF less
<1>3. ASSUME NEW j \in fits PROVE i <= j
  <2>1. i \in Nat /\ j \in Nat
    BY <1>1
  <2>2. j < i => <<j, i>> \in less
    BY <2>1 DEF less, OpToRel
  <2> QED
    BY <1>2, <2>1, <2>2
<1>4. (CHOOSE m \in fits : \A j \in fits : m <= j) \in fits
  BY <1>3
<1>5. Resolve(c, request) = c.models[CHOOSE m \in fits : \A j \in fits : m <= j].name
  BY <1>1 DEF Resolve
<1> QED
  BY <1>4, <1>5

-----------------------------------------------------------------------------
(* The inductive invariant *)

\* What was published came from a credential that decodes.
PublishedFromModels ==
    \A entry \in published :
        /\ Unambiguous(cred.models)
        /\ \E i \in DOMAIN cred.models :
              /\ entry.id \in IdsOf(cred.models[i])
              /\ entry.name = cred.models[i].name

\* The first of credential, host and environment with an answer.
Selected(host) ==
    LET own == NormalizeNativeProxy(cred.proxy)
        global == NormalizeNativeProxy(host)
    IN  IF own # None THEN own ELSE IF global # None THEN global ELSE env

AttributeFromHost ==
    NormalizeNativeProxy(cred.proxy) = None
        => attribute = NormalizeNativeProxy(hostProxy)

LastExecution ==
    last # None =>
        /\ last.host # None
        /\ last.model = Resolve(cred, last.request)
        /\ last.transport = NativeTransport(Selected(last.host))

CredentialsInv ==
    /\ cred \in Credentials /\ hostProxy # None
    /\ PublishedFromModels /\ AttributeFromHost /\ LastExecution

\* Init establishes the invariant.
LEMMA InitCredentials == Init => CredentialsInv
<1> SUFFICES ASSUME Init PROVE CredentialsInv
  OBVIOUS
<1>1. cred \in Credentials /\ hostProxy # None
  BY ProxiesAssumption DEF Init
<1>2. PublishedFromModels
  BY DEF Init, PublishedFromModels
<1>3. AttributeFromHost
  <2>1. NormalizeNativeProxy("blank") = None
    BY DEF NormalizeNativeProxy, NoProxy
  <2> QED
    BY <2>1 DEF Init, AttributeFromHost
<1>4. LastExecution
  BY DEF Init, LastExecution
<1> QED
  BY <1>1, <1>2, <1>3, <1>4 DEF CredentialsInv

\* Every step preserves it.
LEMMA StepCredentials == CredentialsInv /\ [Next]_vars => CredentialsInv'
<1> SUFFICES ASSUME CredentialsInv, [Next]_vars PROVE CredentialsInv'
  OBVIOUS
<1> USE DEF CredentialsInv
<1>1. ASSUME NEW global \in HostProxies, AuthParse(global) PROVE CredentialsInv'
  <2>1. cred' = cred /\ env' = env /\ published' = published /\ last' = last
    BY <1>1 DEF AuthParse
  <2>2. hostProxy' # None
    BY <1>1, ProxiesAssumption DEF AuthParse
  <2>3. AttributeFromHost'
    BY <1>1, <2>1 DEF AuthParse, AttributeFromHost
  <2>4. PublishedFromModels' /\ LastExecution'
    BY <2>1 DEF PublishedFromModels, LastExecution, Selected
  <2> QED
    BY <2>1, <2>2, <2>3, <2>4
<1>2. CASE ModelForAuth
  <2>1. UNCHANGED <<cred, env, attribute, hostProxy, last>>
    BY <1>2 DEF ModelForAuth
  <2>2. Unambiguous(cred.models)
    BY <1>2 DEF ModelForAuth, Decodes
  <2>3. ASSUME NEW entry \in published'
        PROVE  \E i \in DOMAIN cred.models :
                  /\ entry.id \in IdsOf(cred.models[i])
                  /\ entry.name = cred.models[i].name
    <3>1. PICK i \in DOMAIN cred.models :
             entry \in [id : IdsOf(cred.models[i]), name : {cred.models[i].name}]
      BY <1>2 DEF ModelForAuth
    <3> QED
      BY <3>1
  <2>4. PublishedFromModels'
    BY <2>1, <2>2, <2>3 DEF PublishedFromModels
  <2>5. AttributeFromHost' /\ LastExecution'
    BY <2>1 DEF AttributeFromHost, LastExecution, Selected
  <2> QED
    BY <2>1, <2>4, <2>5
<1>3. ASSUME NEW list \in PaidLists, Reconfigure(list) PROVE CredentialsInv'
  BY <1>3 DEF Reconfigure, PublishedFromModels, AttributeFromHost, LastExecution,
              Selected
<1>4. ASSUME NEW request \in Requests, Execute(request) PROVE CredentialsInv'
  <2>1. UNCHANGED <<cred, env, attribute, hostProxy, published>>
    BY <1>4 DEF Execute
  <2>2. NativeProxyURL(cred, attribute, env) = Selected(hostProxy)
    BY DEF AttributeFromHost, NativeProxyURL, Selected
  <2>3. /\ last'.host = hostProxy
        /\ last'.model = Resolve(cred, last'.request)
        /\ last'.transport = NativeTransport(Selected(hostProxy))
    BY <1>4, <2>2 DEF Execute
  <2>4. LastExecution'
    BY <2>1, <2>3 DEF LastExecution, Selected
  <2>5. PublishedFromModels' /\ AttributeFromHost'
    BY <2>1 DEF PublishedFromModels, AttributeFromHost
  <2> QED
    BY <2>1, <2>4, <2>5
<1>5. CASE UNCHANGED vars
  BY <1>5 DEF vars, PublishedFromModels, AttributeFromHost, LastExecution, Selected
<1> QED
  BY <1>1, <1>2, <1>3, <1>4, <1>5 DEF Next

LEMMA CredentialsInvariant == Spec => []CredentialsInv
BY InitCredentials, StepCredentials, PTL DEF Spec

-----------------------------------------------------------------------------

(***************************************************************************)
(* Whatever model.for_auth publishes, executor.execute resolves to the     *)
(* model it was published for: for any list of models, aliases and prefix, *)
(* and across reconfigurations.                                            *)
(***************************************************************************)
THEOREM PublishedAlwaysResolves == Spec => []PublishedResolves
<1>1. CredentialsInv => PublishedResolves
  <2> SUFFICES ASSUME CredentialsInv,
                      NEW entry \in published, last # None,
                      last.request \in Spellings(entry.id)
               PROVE  last.model = entry.name
    BY DEF PublishedResolves
  <2>1. PICK k \in DOMAIN cred.models :
           entry.id \in IdsOf(cred.models[k]) /\ entry.name = cred.models[k].name
    BY DEF CredentialsInv, PublishedFromModels
  <2>2. entry.id \in Seq(STRING) /\ entry.id # <<>> /\ cred.prefix \in Seq(STRING)
    BY <2>1, CredentialsAssumption DEF CredentialsInv, IdsOf, IsId
  <2>3. TrimPrefix(last.request, cred.prefix) = entry.id
    <3>1. \/ cred.prefix # <<>> /\ last.request = cred.prefix \o entry.id
          \/ last.request = entry.id /\ TrimPrefix(entry.id, cred.prefix) = entry.id
      BY DEF Spellings
    <3>2. cred.prefix # <<>> => TrimPrefix(cred.prefix \o entry.id, cred.prefix) = entry.id
      BY <2>2, TrimsPrefix
    <3> QED
      BY <3>1, <3>2
  <2>4. PICK i \in DOMAIN cred.models :
           /\ entry.id \in IdsOf(cred.models[i])
           /\ Resolve(cred, last.request) = cred.models[i].name
    BY <2>1, <2>3, ResolvesToFit DEF CredentialsInv
  <2>5. cred.models[i].name = cred.models[k].name
    BY <2>1, <2>4 DEF CredentialsInv, PublishedFromModels, Unambiguous
  <2> QED
    BY <2>1, <2>4, <2>5 DEF CredentialsInv, LastExecution
<1> QED
  BY <1>1, CredentialsInvariant, PTL

(***************************************************************************)
(* The route of an execution is that of the credential's proxy, else of    *)
(* the host's, else of the environment's, for every spelling.              *)
(***************************************************************************)
THEOREM RouteAlwaysFollowsPrecedence == Spec => []RouteFollowsPrecedence
<1>1. CredentialsInv => RouteFollowsPrecedence
  <2> SUFFICES ASSUME CredentialsInv, last # None PROVE RouteFollowsPrecedence
    BY DEF RouteFollowsPrecedence
  <2>1. /\ cred.proxy # None /\ last.host # None /\ None # "direct://"
        /\ last.transport = NativeTransport(Selected(last.host))
    BY CredentialsAssumption, ProxiesAssumption DEF CredentialsInv, LastExecution, NoProxy
  <2>2. CASE cred.proxy # "blank"
    BY <2>1, <2>2 DEF RouteFollowsPrecedence, NativeTransport, Selected,
                      NormalizeNativeProxy, NoProxy
  <2>3. CASE cred.proxy = "blank" /\ last.host # "blank"
    BY <2>1, <2>3 DEF RouteFollowsPrecedence, NativeTransport, Selected,
                      NormalizeNativeProxy, NoProxy
  <2>4. CASE cred.proxy = "blank" /\ last.host = "blank"
    BY <2>1, <2>4 DEF RouteFollowsPrecedence, NativeTransport, Selected,
                      NormalizeNativeProxy, NoProxy
  <2> QED
    BY <2>2, <2>3, <2>4
<1> QED
  BY <1>1, CredentialsInvariant, PTL

=============================================================================

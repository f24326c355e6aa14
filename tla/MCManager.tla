----------------------------- MODULE MCManager ------------------------------
(***************************************************************************)
(* Small instances of Manager for TLC.  A run picks the calls it needs; the *)
(* payloads and configurations below are the few that differ in what the   *)
(* handlers decide.                                                        *)
(***************************************************************************)
EXTENDS Manager, TLC

CONSTANTS
    chat, alias,          \* two models with a free-tier marker
    zen, native, other,   \* a targeted, a native and an untargeted credential
    conv, ses,            \* a client identity; one with the ses_ shape
    req,                  \* a request id
    xSession, xSource, xSessionId, xUA, xUA2   \* header names

MCModels == {chat, alias}
MCLastSegment == [m \in MCModels |-> m]
MCHeaderNames == {xSession, xSource, xSessionId, xUA, xUA2}

MCDefault ==
    [ headerName |-> xSession, sourceHeaders |-> <<xSession, xSource>>,
      hashDerived |-> TRUE, bodyHash |-> TRUE, uaHeader |-> xUA,
      marked |-> MCModels, free |-> {}, paid |-> {},
      fingerprint |-> TRUE, freeOnly |-> TRUE, warnGlue |-> TRUE,
      targetModels |-> {}, targetAuths |-> {zen}, logging |-> FALSE ]

\* The operator renames the outbound User-Agent header and turns logging on.
Renamed == [MCDefault EXCEPT !.uaHeader = xUA2, !.logging = TRUE]

\* The operator lists a model as paid.
Guarded == [MCDefault EXCEPT !.paid = {chat}]

\* The fingerprint is off: only the session header is injected, for a targeted
\* model whatever the credential.  Logging is on.
Plain == [MCDefault EXCEPT !.fingerprint = FALSE, !.targetModels = {alias},
                           !.logging = TRUE]

NoHeaders == [h \in MCHeaderNames |-> None]
WithHeader(h, who) == [NoHeaders EXCEPT ![h] = who]

Intercept(auth, model, headers, id) ==
    [ auth |-> auth, model |-> model, requested |-> model, headers |-> headers,
      canonical |-> None, body |-> None, id |-> id ]

Execute(headers, id, stream) ==
    [ models |-> {chat}, model |-> chat, headers |-> headers,
      canonical |-> None, body |-> None, id |-> id, stream |-> stream ]

InterceptSymmetry == Permutations(Intercepts)

OnlyDefault == {MCDefault}
OnlyGuarded == {Guarded}
DefaultRenamed == {MCDefault, Renamed}
DefaultPlain == {MCDefault, Plain}

\* Executions of one request, streaming or not, and one without a request id.
RegistryExecutes ==
    { Execute(WithHeader(xSession, ses), req, TRUE),
      Execute(WithHeader(xSession, ses), req, FALSE),
      Execute(WithHeader(xSession, ses), None, FALSE) }

\* One conversation, through the interceptor and the executor; requests that
\* present no identity, and one that presents an official session id.
SessionIntercepts ==
    { Intercept(zen, chat, WithHeader(xSource, conv), None),
      Intercept(zen, chat, NoHeaders, req),
      Intercept(native, chat, WithHeader(xSource, ses), req),
      Intercept(other, alias, WithHeader(xSource, conv), None) }

SessionExecutes ==
    { Execute(WithHeader(xSessionId, conv), req, TRUE),
      Execute(NoHeaders, None, FALSE),
      Execute(WithHeader(xSource, ses), None, FALSE) }

Anonymous == { Intercept(zen, chat, NoHeaders, req) }

OfficialSource == { Intercept(zen, chat, WithHeader(xSource, ses), None) }

OneExecute == { Execute(WithHeader(xSession, ses), req, TRUE) }

=============================================================================

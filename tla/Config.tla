------------------------------- MODULE Config -------------------------------
(***************************************************************************)
(* The data the handlers of the plugin decide on: the configuration        *)
(* (config.go), the requests of the interceptor (types.go) and of the      *)
(* native executor (native.go), each abstracted to what the decisions tell *)
(* apart, and the value a session header may carry.                        *)
(***************************************************************************)
EXTENDS Naturals, Sequences

CONSTANTS
    Models,          \* model ids as the host writes them ("vendor/name")
    Segments,        \* their lower-cased final segments
    LastSegment,     \* lastSegment: the segment of every model id
    Auths,           \* credentials the host may select
    NativeAuths,     \* those whose id starts with "opencode-enhancer:"
    HeaderNames,     \* header names, case folded
    SessionIDHeader, \* X-Opencode-Session-Id, the second native header
    Identities,      \* session identities a client or the host may present
    OpenCodeShaped,  \* those that already look like ses_<12 hex><14 base62>
    RequestIds,      \* request ids the host may give
    Calls,           \* interceptor and executor calls; a call also names the
                     \* random id that newRequestID draws for it
    Stamps,          \* first-seen timestamps a session id may embed
    None             \* absence of a value

(***************************************************************************)
(* ConfigType abstracts the Config struct.  A list of model names is the   *)
(* set of their segments, markers are the set of segments they match,      *)
(* target globs the set of model ids they match and target markers the set *)
(* of credentials whose id or index contains one.                          *)
(***************************************************************************)
ConfigType ==
    [ headerName    : HeaderNames,        \* session.header_name
      sourceHeaders : Seq(HeaderNames),   \* session.source_headers
      hashDerived   : BOOLEAN,            \* session.hash_derived
      bodyHash      : BOOLEAN,            \* session.fallback_to_body_hash
      uaHeader      : HeaderNames,        \* user_agent.outbound_header
      marked        : SUBSET Segments,    \* free_tier.markers
      free          : SUBSET Segments,    \* free_tier.free_models
      paid          : SUBSET Segments,    \* free_tier.paid_models
      fingerprint   : BOOLEAN,            \* fingerprint.enabled
      freeOnly      : BOOLEAN,            \* fingerprint.free_only
      warnGlue      : BOOLEAN,            \* fingerprint.warn_missing_glue
      targetModels  : SUBSET Models,      \* target.models
      targetAuths   : SUBSET Auths,       \* target.auth_prefixes
      logging       : BOOLEAN ]           \* logging.enabled

(***************************************************************************)
(* What a request says about its conversation: the session value of each   *)
(* header after cleanSession (None: absent or unusable), the host's        *)
(* canonical_session_id and the digest of the first user turn.             *)
(***************************************************************************)
Presented == Identities \cup {None}

InterceptType ==
    [ auth      : Auths,
      model     : Models,              \* the upstream model
      requested : Models,              \* the name the client asked for
      headers   : [HeaderNames -> Presented],
      canonical : Presented,
      body      : Presented,
      id        : RequestIds \cup {None} ]

(***************************************************************************)
(* An executor request, after its credential and body are decoded.         *)
(***************************************************************************)
ExecuteType ==
    [ models    : SUBSET Models,       \* upstream names the credential selects
      model     : Models,              \* the one this request resolves to
      headers   : [HeaderNames -> Presented],
      canonical : Presented,
      body      : Presented,
      id        : RequestIds \cup {None},   \* the execution-id header
      stream    : BOOLEAN ]

(***************************************************************************)
(* An identity a session id can be derived from: one the request presents, *)
(* its request id, or the random id drawn for the call.                    *)
(***************************************************************************)
IdentityType == Identities \cup RequestIds \cup Calls

(***************************************************************************)
(* A session header value: the identity itself, its SHA-256, or the        *)
(* ses_<time><digest> id that shapeSessionID builds from it.               *)
(***************************************************************************)
Raw(who)        == [form |-> "raw", of |-> who]
Hashed(who)     == [form |-> "hash", of |-> who]
Shaped(who, at) == [form |-> "ses", of |-> who, at |-> at]

ShapedType == [form : {"ses"}, of : IdentityType, at : Stamps]
SessionType == [form : {"raw", "hash"}, of : IdentityType] \cup ShapedType

ASSUME ModelAssumption ==
    /\ LastSegment \in [Models -> Segments]
    /\ NativeAuths \subseteq Auths

ASSUME IdentityAssumption ==
    /\ SessionIDHeader \in HeaderNames
    /\ OpenCodeShaped \subseteq Identities
    /\ None \notin IdentityType

=============================================================================

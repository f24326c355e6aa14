---------------------------- MODULE Credentials -----------------------------
(***************************************************************************)
(* A native credential (native.go) from its file to an execution: auth.parse *)
(* and model.for_auth decode it for the host, executor.execute decodes it  *)
(* again, under the configuration in force by then, and turns the model the *)
(* host asks for into an upstream name, a route and the headers to send    *)
(* (native_execute.go).                                                    *)
(*                                                                         *)
(* A model id is the sequence of its path segments.  Values are trimmed.   *)
(***************************************************************************)
EXTENDS Naturals, Sequences

CONSTANTS
    Credentials,   \* credential files
    HostProxies,   \* the host's global proxy setting, as it may be spelled
    EnvProxies,    \* what the process environment says for the upstream
    PaidLists,     \* free_tier.paid_models of the configurations
    Muse,          \* final segments that start with "muse-"
    Requests,      \* model ids the host may ask the executor for
    None           \* absence of a value

NoProxy == {"direct", "none", "direct://"}   \* spellings for no proxy at all

IsId(id) == id = None \/ id \in Seq(STRING) \ {<<>>}

ASSUME CredentialsAssumption ==
    \A c \in Credentials :
        /\ c.proxy # None
        /\ c.prefix \in Seq(STRING)
        /\ \A i \in DOMAIN c.models :
              i \in Nat /\ IsId(c.models[i].name) /\ IsId(c.models[i].alias)

ASSUME ProxiesAssumption == None \notin HostProxies \cup NoProxy \cup {"blank"}

VARIABLES
    cred,       \* the credential's file
    paid,       \* the paid models of the configuration in force
    env,        \* the process's proxy environment
    attribute,  \* the proxy_url attribute auth.parse gave the host, or None
    hostProxy,  \* the global proxy it was parsed with (history)
    published,  \* what model.for_auth told the host: pairs of id and model
    last        \* the last execution that resolved a model

vars == <<cred, paid, env, attribute, hostProxy, published, last>>

-----------------------------------------------------------------------------
(* Decoding *)

(***************************************************************************)
(* The names a model may be asked for by; an alias is optional.            *)
(***************************************************************************)
IdsOf(model) == {model.name, model.alias} \ {None}

LastSegment(id) == id[Len(id)]

(***************************************************************************)
(* seen of decodeNativeAuth: no id stands for two upstream names.  The     *)
(* other form looks at aliases only.                                       *)
(***************************************************************************)
AliasesUnambiguous(models) ==
    \A i, j \in DOMAIN models :
        models[i].alias = models[j].alias /\ models[i].alias # None
            => models[i].name = models[j].name

Unambiguous(models) ==
    \A i, j \in DOMAIN models :
        IdsOf(models[i]) \cap IdsOf(models[j]) # {}
            => models[i].name = models[j].name

(***************************************************************************)
(* decodeNativeAuth accepts the credential under these paid models.        *)
(* c.sound: its JSON, type, key, base URL and custom headers are valid and *)
(* no name has a line break.                                               *)
(***************************************************************************)
Decodes(c, paidModels) ==
    /\ c.sound
    /\ \A i \in DOMAIN c.models :
          /\ c.models[i].name # None
          /\ LastSegment(c.models[i].name) \notin Muse \cup paidModels
    /\ Unambiguous(c.models)

(***************************************************************************)
(* normalizeNativeProxy: blanks are nothing, and three spellings in any    *)
(* case mean that no proxy is to be used.                                  *)
(***************************************************************************)
NormalizeNativeProxy(value) ==
    IF value \in NoProxy THEN "direct://" ELSE IF value = "blank" THEN None ELSE value

-----------------------------------------------------------------------------
(* The executor *)

(***************************************************************************)
(* strings.TrimPrefix(id, prefix + "/"): an empty prefix takes a leading   *)
(* slash, which is a first segment that is empty.                          *)
(***************************************************************************)
TrimPrefix(id, prefix) ==
    LET head == IF prefix = <<>> THEN <<"">> ELSE prefix
        n    == Len(head)
    IN  IF Len(id) > n /\ SubSeq(id, 1, n) = head
        THEN SubSeq(id, n + 1, Len(id))
        ELSE id

(***************************************************************************)
(* The first selected model that the request names.                        *)
(***************************************************************************)
Resolve(c, request) ==
    LET fits == {i \in DOMAIN c.models :
                    TrimPrefix(request, c.prefix) \in IdsOf(c.models[i])}
    IN  IF fits = {} THEN None
        ELSE c.models[CHOOSE i \in fits : \A j \in fits : i <= j].name

(***************************************************************************)
(* The proxy of an execution: the credential's, else the attribute the     *)
(* host kept, else the environment (nativeProxyURL).                       *)
(***************************************************************************)
DirectIsNoAnswer(c, attr, environment) ==
    LET own == NormalizeNativeProxy(c.proxy)
        selected == IF own # None THEN own ELSE attr
    IN  IF selected \notin {None, "direct://"} THEN selected ELSE environment

NativeProxyURL(c, attr, environment) ==
    LET own == NormalizeNativeProxy(c.proxy)
        selected == IF own # None THEN own ELSE attr
    IN  IF selected # None THEN selected ELSE environment

(***************************************************************************)
(* newNativeTransport: the route a proxy URL selects, None for an error,   *)
(* and with no proxy the IPv4 network to the upstream.                     *)
(***************************************************************************)
NativeTransport(proxyURL) ==
    LET url == NormalizeNativeProxy(proxyURL)
    IN  IF url \in {None, "direct://"} THEN [route |-> "direct", network |-> "tcp4"]
        ELSE IF url \in {"http", "https"} THEN [route |-> url, network |-> "tcp"]
        ELSE IF url \in {"socks5", "socks5h"} THEN [route |-> "socks", network |-> "tcp"]
        ELSE None

-----------------------------------------------------------------------------
Init ==
    /\ cred \in Credentials
    /\ paid \in PaidLists
    /\ env \in EnvProxies
    /\ attribute = None /\ hostProxy = "blank"
    /\ published = {}
    /\ last = None

(***************************************************************************)
(* auth.parse, for a file of this provider that has a name.                *)
(***************************************************************************)
AuthParse(global) ==
    /\ Decodes(cred, paid)
    /\ hostProxy' = global
    /\ attribute' =
          LET own == NormalizeNativeProxy(cred.proxy)
          IN  IF own # None THEN own ELSE NormalizeNativeProxy(global)
    /\ UNCHANGED <<cred, paid, env, published, last>>

(***************************************************************************)
(* model.for_auth: every name and alias, with the model it stands for.     *)
(***************************************************************************)
ModelForAuth ==
    /\ Decodes(cred, paid)
    /\ published' = UNION { [id : IdsOf(cred.models[i]), name : {cred.models[i].name}]
                            : i \in DOMAIN cred.models }
    /\ UNCHANGED <<cred, paid, env, attribute, hostProxy, last>>

Reconfigure(list) ==
    /\ paid' = list
    /\ UNCHANGED <<cred, env, attribute, hostProxy, published, last>>

(***************************************************************************)
(* executor.execute up to the dial.  A credential that does not decode, a  *)
(* request for a model it does not select (None) and a proxy that cannot   *)
(* be used (None) are answered with an error.                              *)
(***************************************************************************)
Execute(request) ==
    /\ Decodes(cred, paid)
    /\ last' = [ request   |-> request,
                 model     |-> Resolve(cred, request),
                 host      |-> hostProxy,
                 transport |-> NativeTransport(
                                   NativeProxyURL(cred, attribute, env)) ]
    /\ UNCHANGED <<cred, paid, env, attribute, hostProxy, published>>

Next ==
    \/ \E global \in HostProxies : AuthParse(global)
    \/ ModelForAuth
    \/ \E list \in PaidLists : Reconfigure(list)
    \/ \E request \in Requests : Execute(request)

Spec == Init /\ [][Next]_vars

-----------------------------------------------------------------------------
(* Properties *)

(***************************************************************************)
(* How the host may write a published id: with the credential's prefix, or *)
(* as it is, unless it starts with the prefix, when the executor takes     *)
(* that part for it.                                                       *)
(***************************************************************************)
Spellings(id) ==
    (IF cred.prefix # <<>> THEN {cred.prefix \o id} ELSE {})
        \cup {own \in {id} : TrimPrefix(own, cred.prefix) = own}

(***************************************************************************)
(* Every id that model.for_auth published, in either spelling, resolves in *)
(* the executor, and to the very model it was published for: whatever the  *)
(* order of the models, shared aliases, prefixes that are also part of a   *)
(* name, and reconfigurations in between.                                  *)
(***************************************************************************)
PublishedResolves ==
    \A entry \in published :
        last # None /\ last.request \in Spellings(entry.id)
            => last.model = entry.name

(***************************************************************************)
(* "Credential proxy settings take precedence over CPA's global proxy;     *)
(* otherwise the transport uses the process proxy environment": the route  *)
(* of an execution is that of the first of the three that says anything,   *)
(* as it was spelled; a "direct" ends the search, and nothing said means   *)
(* direct too.                                                             *)
(***************************************************************************)
RouteFollowsPrecedence ==
    last # None =>
        LET said == <<cred.proxy, last.host, IF env = None THEN "blank" ELSE env>>
            Leaves(route, network) ==
                last.transport = [route |-> route, network |-> network]
        IN  \A k \in 1 .. 3 :
                /\ \A j \in 1 .. k - 1 : said[j] = "blank"
                /\ said[k] # "blank" \/ k = 3
                => /\ said[k] \in NoProxy \cup {"blank"} => Leaves("direct", "tcp4")
                   /\ said[k] \in {"http", "https"} => Leaves(said[k], "tcp")
                   /\ said[k] \in {"socks5", "socks5h"} => Leaves("socks", "tcp")
                   /\ said[k] \notin NoProxy \cup
                          {"blank", "http", "https", "socks5", "socks5h"}
                      => last.transport = None

=============================================================================

--------------------------- MODULE MCCredentials ----------------------------
(***************************************************************************)
(* Credentials of up to MaxModels models over ids that share segments, with    *)
(* and without a prefix that is also part of an id; and every combination  *)
(* of proxy settings.                                                      *)
(***************************************************************************)
EXTENDS Credentials, FiniteSets

CONSTANT MaxModels     \* models of a credential

MCIds == { <<"kimi">>, <<"team", "kimi">>, <<"team", "glm">>, <<"", "kimi">> }
MCMuse == {"muse-spark"}
MCPaidLists == { {}, {"glm"} }
MCEnvProxies == {None, "http"}

MCRequests == MCIds \cup { <<"team">> \o id : id \in MCIds }

MCModel == [name : MCIds, alias : MCIds \cup {None}]

Credential(models, prefix, proxy) ==
    [models |-> models, prefix |-> prefix, proxy |-> proxy, sound |-> TRUE]

One == << [name |-> <<"kimi">>, alias |-> None] >>

MCCredentials ==
    { Credential(models, prefix, "blank") :
        models \in UNION {[1 .. n -> MCModel] : n \in 0 .. MaxModels},
        prefix \in {<<>>, <<"team">>} }
    \cup
    { Credential(One, <<>>, proxy) :
        proxy \in {"direct", "none", "http", "socks5h", "ftp"} }
    \cup
    { [Credential(One, <<>>, "blank") EXCEPT !.sound = FALSE],
      Credential(<< [name |-> <<"muse-spark">>, alias |-> None] >>, <<>>, "blank"),
      Credential(<< [name |-> None, alias |-> <<"kimi">>] >>, <<>>, "blank") }

=============================================================================

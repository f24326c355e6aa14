---------------------------- MODULE Conversation ----------------------------
(***************************************************************************)
(* One conversation of a client through the plugin: the client's turns and *)
(* the answers accumulate in its body, every request is identified and     *)
(* shaped by the interceptor, and a native one is shaped again by the      *)
(* executor, after the host has translated it and perhaps reconfigured the *)
(* plugin.                                                                 *)
(***************************************************************************)
EXTENDS Body

CONSTANTS
    Openings,    \* how a conversation starts: [source, wire, body]
    Turns,       \* turns a client may add
    Answers,     \* sequences of turns an upstream answer adds to the body
    Prompts,     \* contents a client may replace its system prompt with
    Configs,     \* fingerprint configurations
    MaxItems     \* turns of a body

\* "plugin" marks the declarations the plugin adds.
ClientTool == {t \in ToolType : t.kind # "plugin"}

\* A client keeps its environment out of the turns that carry reasoning or
\* tools, which have no text of a system prompt.
ClientItem ==
    { t \in ItemType : IsSystem(t) /\ t.type \in {"reasoning", "additional_tools"}
                            => ~ HasEnvironment(t.content) }

\* A Claude or Gemini client keeps it beside the turns.
Beside(protocol, items) ==
    protocol \in {"claude", "gemini"} => ~ MessagesHaveEnvironment(items)

\* The protocol of a client decides where its body keeps the turns and the
\* system prompt: Chat has none beside the turns.
OpeningType ==
    { o \in [ source : {"openai", "claude", "openai-response", "gemini", "other"},
              wire : BOOLEAN, body : BodyType ] :
        /\ o.body.items \in Seq(ClientItem) /\ Beside(o.source, o.body.items)
        /\ o.body.tools \in IF o.body.key = "contents" THEN Seq(Seq(ClientTool) \cup {Odd})
                            ELSE Seq(ClientTool)
        /\ o.source \in {"openai", "claude"} => o.body.key = "messages"
        /\ o.source = "openai-response" => o.body.key = "input"
        /\ o.source = "gemini" <=> o.body.key = "contents"
        /\ o.body.key = "messages" /\ o.source # "claude" => o.body.system = <<>> }

\* An answer starts with a turn of the model.
ASSUME ConversationAssumption ==
    /\ Openings \subseteq OpeningType
    /\ Turns \subseteq ClientItem
    /\ \A turns \in Answers : /\ turns \in Seq(ClientItem) \ {<<>>}
                              /\ turns[1] # Junk /\ turns[1].role # "user"
    /\ Prompts \subseteq ContentType
    /\ Configs \subseteq ConfigType
    /\ None \notin Seq(Texts) /\ None \notin {"user", "system", "developer"}

VARIABLES
    opening,   \* the client's protocol and the upstream's
    body,      \* the body the client would send now
    sent,      \* the request under way, or None
    settled    \* identity of the first request with one that was answered (history)

vars == <<opening, body, sent, settled>>

source == opening.source

Init ==
    /\ opening \in Openings
    /\ body = opening.body
    /\ sent = None
    /\ settled = None

-----------------------------------------------------------------------------
(* The client and the upstream *)

Extend(turns) ==
    /\ Beside(source, turns)
    /\ Len(body.items) + Len(turns) <= MaxItems
    /\ body' = [body EXCEPT !.items = @ \o turns]

Speak(turn) ==
    /\ Extend(<<turn>>)
    /\ sent' = None
    /\ UNCHANGED <<opening, settled>>

Answer(turns) ==
    /\ sent # None
    /\ Extend(turns)
    /\ sent' = None
    /\ settled' = IF settled = None /\ sent.identity # <<>>
                  THEN sent.identity ELSE settled
    /\ UNCHANGED opening

(***************************************************************************)
(* Clients rewrite their system prompt between turns.                      *)
(***************************************************************************)
Prompt(content) ==
    /\ IF body.key = "messages" /\ source # "claude"
       THEN /\ body.items # <<>> /\ IsSystem(body.items[1])
            /\ body' = [body EXCEPT !.items[1].content = content]
       ELSE body' = [body EXCEPT !.system = content]
    /\ sent' = None
    /\ UNCHANGED <<opening, settled>>

-----------------------------------------------------------------------------
(* The plugin and the host *)

(***************************************************************************)
(* handleInterceptAfter: the identity is read from the client's body, then *)
(* the body is shaped.                                                     *)
(***************************************************************************)
Intercept(c) ==
    /\ sent = None /\ body.items # <<>>
    /\ sent' = [ identity |-> FirstUserContent(source, body),
                 config   |-> c,
                 shaped   |-> ApplyFingerprintBody(body, c, source, opening.wire),
                 reread   |-> None ]
    /\ UNCHANGED <<opening, body, settled>>

(***************************************************************************)
(* Declarations of a body, in order: the groups of Gemini joined.          *)
(***************************************************************************)
Declared(b) ==
    IF b.key = "contents" THEN FlattenSeq(Keep(b.tools, LAMBDA g : g # Odd))
    ELSE b.tools

(***************************************************************************)
(* The host's translation of a body for the executor, which takes Chat     *)
(* Completions, in four steps.                                             *)
(*                                                                         *)
(* Turns of Responses that carry no text: reasoning is dropped, and the    *)
(* named functions of additional_tools become tools, unless a tool of the  *)
(* name is there.  (The plugin relies on it where it does not lift them.)  *)
(***************************************************************************)
Conversed(b) ==
    IF b.key = "input"
    THEN StripAdditionalTools([b EXCEPT !.items = StripReasoningItems(b.items)])
    ELSE b

\* The system prompt becomes the first turn.
WithPreamble(b) ==
    [b EXCEPT !.items = IF b.system \in {Odd, <<>>} THEN b.items
                        ELSE <<Turn("system", None, b.system)>> \o b.items,
              !.system = <<>>]

\* Texts stay; an image becomes an image_url object, which appendContentParts
\* does not read.
ChatContent(content) ==
    IF content = Odd THEN Odd
    ELSE [j \in DOMAIN content |->
            [content[j] EXCEPT !.kind = IF content[j].kind = "text" THEN "text" ELSE "other"]]

\* A call of a tool becomes a turn of the assistant.
ChatTurn(t) ==
    IF t = Junk THEN Junk
    ELSE Turn(IF t.role = None THEN "assistant" ELSE t.role, None, ChatContent(t.content))

InChat(b) ==
    [b EXCEPT !.key = "messages", !.items = [k \in DOMAIN b.items |-> ChatTurn(b.items[k])],
              !.tools = Declared(b)]

Translate(b) ==
    IF b.key = "messages" /\ source # "claude" THEN b
    ELSE InChat(WithPreamble(Conversed(b)))

(***************************************************************************)
(* executeNative, for a client of any protocol: it asks for a stream,      *)
(* shapes what it received with the configuration of the moment, and reads *)
(* the identity from it again, by the rules of Chat Completions.  A        *)
(* request that goes upstream as Responses is not the executor's.          *)
(***************************************************************************)
Execute(c) ==
    /\ sent # None /\ sent.reread = None
    /\ ~ opening.wire
    /\ LET received == Translate(sent.shaped)
       IN  sent' = [ sent EXCEPT
                        !.config = c,
                        !.shaped = ApplyFingerprintBody([received EXCEPT !.stream = TRUE],
                                                        c, "openai", FALSE),
                        !.reread = FirstUserContent("openai", received) ]
    /\ UNCHANGED <<opening, body, settled>>

Next ==
    \/ \E turn \in Turns : Speak(turn)
    \/ \E turns \in Answers : Answer(turns)
    \/ \E content \in Prompts : Prompt(content)
    \/ \E c \in Configs : Intercept(c)
    \/ \E c \in Configs : Execute(c)

Spec == Init /\ [][Next]_vars

-----------------------------------------------------------------------------
(* Properties *)

(***************************************************************************)
(* Once a request was answered, the identity of the conversation is fixed: *)
(* no further turn, of whatever role or shape, and no change of the system *)
(* prompt gives a later request another one (firstUserContent).            *)
(***************************************************************************)
IdentitySettles ==
    settled # None => FirstUserContent(source, body) = settled

\* A body without its images: the texts of its turns alone.
Spoken(content) ==
    IF content = Odd THEN Odd ELSE Keep(content, LAMBDA p : p.kind = "text")

WithoutImages(b) ==
    [b EXCEPT !.items = [k \in DOMAIN b.items |->
        IF b.items[k] = Junk THEN Junk
        ELSE [b.items[k] EXCEPT !.content = Spoken(b.items[k].content)]]]

(***************************************************************************)
(* The executor, which resolves the session again from the body it         *)
(* receives, reads what the interceptor read from a Chat client's body:    *)
(* neither shaping disturbs the identity.  From a Claude client's it reads *)
(* what the interceptor would have read without the images, which the      *)
(* translation hides from it.  A client whose turns do not start with the  *)
(* user's has an identity only for the interceptor, unless it speaks Chat. *)
(***************************************************************************)
IdentityKept ==
    sent # None /\ sent.reread # None /\ body.key = "messages"
        /\ (source = "openai" \/ CollectMessageTurns(body, FALSE) # <<>>)
    => sent.reread = IF source = "claude" THEN FirstUserContent(source, WithoutImages(body))
                     ELSE sent.identity

(***************************************************************************)
(* The rewriting is idempotent: a second pass, by the executor after the   *)
(* interceptor or by a retry, changes nothing.                             *)
(***************************************************************************)
ShapedOnce ==
    sent # None =>
        LET protocol == IF sent.reread # None THEN "openai" ELSE source
        IN  ApplyFingerprintBody(sent.shaped, sent.config, protocol, opening.wire)
                = sent.shaped

(***************************************************************************)
(* Environment blocks at the places the upstream reads one from: the       *)
(* system prompt beside the turns (0) and the k-th turn, if of the system. *)
(***************************************************************************)
EnvironmentParts(b, k) ==
    LET content == IF k = 0 THEN b.system
                   ELSE IF IsSystem(b.items[k]) THEN b.items[k].content ELSE <<>>
    IN  IF content = Odd THEN {} ELSE {j \in DOMAIN content : content[j] = EnvPart}

Environments(b) ==
    Cardinality(UNION {{k} \X EnvironmentParts(b, k) : k \in 0 .. Len(b.items)})

(***************************************************************************)
(* However often a body is shaped and translated, the client's environment *)
(* is kept alone, and without one exactly one is added, unless the place   *)
(* for it holds a value of another type.                                   *)
(***************************************************************************)
EnvironmentOnce ==
    sent # None =>
        LET own == Environments(body)
            firstSystem == SelectInSeq(body.items, IsSystem)
            blocked == \/ body.system = Odd
                       \/ /\ firstSystem # 0
                          /\ body.items[firstSystem].content = Odd
        IN  \/ Environments(sent.shaped) = IF own > 0 THEN own ELSE 1
            \/ blocked /\ Environments(sent.shaped) = own

(***************************************************************************)
(* Every required tool is declared; the plugin declares none twice and     *)
(* none the client declares itself, at the top or, where they are lifted,  *)
(* in additional_tools; and the client's own declarations stay, in order.  *)
(***************************************************************************)
ToolsComplete ==
    sent # None =>
        LET after  == Declared(sent.shaped)
            client == Keep(after, LAMBDA t : t.kind # "plugin")
            lifts  == body.key = "input" /\ opening.wire /\ sent.config.stripAdditional
        IN  /\ Names(FingerprintTools(sent.config)) \subseteq Names(after)
            /\ \A i, j \in DOMAIN after :
                    after[i].kind = "plugin" /\ after[i].name = after[j].name => i = j
            /\ IsPrefix(Declared(body), client)
            /\ lifts =>
                \A k \in ObjectsAt(body.items) :
                    body.items[k].type = "additional_tools" =>
                        \A t \in Range(body.items[k].tools) :
                            t.kind = "function" /\ t.name # NoName => t.name \in Names(client)

=============================================================================

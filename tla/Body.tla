-------------------------------- MODULE Body --------------------------------
(***************************************************************************)
(* The request body: the identity firstUserContent takes from it           *)
(* (session.go) and the rewriting of applyFingerprintBody (fingerprint.go). *)
(*                                                                         *)
(* A body is a record:                                                     *)
(*   key     the member that holds the turns: "messages" (Chat and Claude),*)
(*           "input" (Responses) or "contents" (Gemini)                    *)
(*   items   the turns: Junk (no object) or records [role, type, content,  *)
(*           tools, sealed]; a string as input is one user turn            *)
(*   system  the content outside the turns: instructions, system or        *)
(*           systemInstruction                                             *)
(*   tools   the declarations [name, kind]; for Gemini the groups of them, *)
(*           Odd for a group without functionDeclarations                  *)
(*   stream, store   a Boolean, or Odd for anything else                   *)
(*   caps    the three spellings of the token limit                        *)
(* A content is a sequence of parts [kind, of], empty when absent, or Odd  *)
(* for a JSON type the code does not handle there.                         *)
(***************************************************************************)
EXTENDS Selections, SequencesExt

CONSTANTS
    Env,           \* a text with an <env> block
    Odd,           \* a JSON value of another type
    Junk,          \* a turn that is no JSON object
    NoName,        \* a declaration without a name, or a blank one
    None,          \* an absent member
    Texts,         \* texts and addresses a part may hold, Env among them
    ToolNames,     \* names a declaration may have
    DefaultTools   \* defaultFingerprintTools

-----------------------------------------------------------------------------
(* Shapes *)

EnvPart == [kind |-> "text", of |-> Env]

PartType == [kind : {"text", "imageURL", "source", "other"}, of : Texts]
ContentType == Seq(PartType) \cup {Odd}
ToolType == [name : ToolNames \cup {NoName}, kind : {"function", "custom", "plugin"}]

TurnType ==
    [ role : {"user", "system", "developer", "assistant", "tool", None},
      type : {"message", "reasoning", "function_call", "additional_tools", None},
      content : ContentType, tools : Seq(ToolType), sealed : BOOLEAN ]

CapType == Nat \cup {None, Odd}

ItemType == TurnType \cup {Junk}

BodyType ==
    { b \in [ key : {"messages", "input", "contents"}, items : Seq(ItemType),
              system : ContentType,
              tools : Seq(ToolType) \cup Seq(Seq(ToolType) \cup {Odd}),
              stream : BOOLEAN \cup {Odd}, store : BOOLEAN \cup {Odd},
              caps : [output : CapType, completion : CapType, chat : CapType] ] :
        b.tools \in IF b.key = "contents" THEN Seq(Seq(ToolType) \cup {Odd})
                    ELSE Seq(ToolType) }

ConfigType ==
    [ forceStream : BOOLEAN, tools : Seq(ToolNames \cup {NoName}),
      stripReasoning : BOOLEAN, stripAdditional : BOOLEAN ]

ASSUME BodyAssumption ==
    /\ Env \in Texts
    /\ DefaultTools \in Seq(ToolNames)
    /\ NoName \notin ToolNames
    /\ Junk \notin TurnType
    /\ Odd \notin Seq(PartType) \cup Seq(ToolType)

-----------------------------------------------------------------------------
(* Identity *)

(***************************************************************************)
(* appendContentParts: texts, image URLs that are strings, and the data or *)
(* URL of a source are written; other parts are not.                       *)
(***************************************************************************)
Written(content) ==
    IF content = Odd THEN <<>>
    ELSE LET parts == Keep(content,
                         LAMBDA p : p.kind \in {"text", "imageURL", "source"})
         IN  [k \in DOMAIN parts |-> parts[k].of]

(***************************************************************************)
(* The first run of user turns: those before which no other turn follows a *)
(* user's.  at: the turns that are objects; users: the user's among them.  *)
(***************************************************************************)
RunWithoutEnd(items, at, users) == Select(items, users)

Run(items, at, users) ==
    Select(items, {k \in users : \A i \in users, j \in at \ users : j < i \/ k < j})

ObjectsAt(items) == {k \in DOMAIN items : items[k] # Junk}

IsSystem(t) == t # Junk /\ t.role \in {"system", "developer"}

(***************************************************************************)
(* collectMessageTurns: a strict search gives up when a turn that is not   *)
(* of the system preamble stands before the first user turn.               *)
(***************************************************************************)
CollectMessageTurns(b, lenient) ==
    LET at     == IF b.key = "messages" THEN ObjectsAt(b.items) ELSE {}
        users  == {k \in at : b.items[k].role = "user"}
        opened == \A j \in at \ users :
                        IsSystem(b.items[j]) \/ \E i \in users : i < j
    IN  IF lenient \/ opened THEN Run(b.items, at, users) ELSE <<>>

CollectResponsesTurns(b) ==
    LET at == IF b.key = "input" THEN ObjectsAt(b.items) ELSE {}
    IN  Run(b.items, at, {k \in at : /\ b.items[k].role = "user"
                                     /\ b.items[k].type \in {"message", None}})

(***************************************************************************)
(* firstUserContent; a protocol it does not know tries every shape.        *)
(***************************************************************************)
FirstUserContent(source, b) ==
    LET strict    == CollectMessageTurns(b, FALSE)
        lenient   == CollectMessageTurns(b, TRUE)
        responses == CollectResponsesTurns(b)
        run == IF source = "openai" THEN strict
               ELSE IF source = "claude" THEN lenient
               ELSE IF source = "openai-response" THEN responses
               ELSE IF strict # <<>> THEN strict
               ELSE IF lenient # <<>> THEN lenient ELSE responses
    IN  FlattenSeq([k \in DOMAIN run |-> Written(run[k].content)])

-----------------------------------------------------------------------------
(* Environment *)

Turn(role, type, content) ==
    [ role |-> role, type |-> type, content |-> content, tools |-> <<>>,
      sealed |-> FALSE ]

EnvironmentFromUser == Turn("user", None, <<EnvPart>>)
EnvironmentTurn == Turn("system", None, <<EnvPart>>)

\* A text that starts with the block.
StartsWithEnvironment(content) ==
    content \notin {Odd, <<>>} /\ content[1] = EnvPart

HasEnvironment(content) == content # Odd /\ EnvPart \in Range(content)

\* The preamble's first turn only.
FirstTurnHasEnvironment(items) ==
    items # <<>> /\ IsSystem(items[1]) /\ HasEnvironment(items[1].content)

MessagesHaveEnvironment(items) ==
    \E k \in DOMAIN items : IsSystem(items[k]) /\ HasEnvironment(items[k].content)

(***************************************************************************)
(* The branches of ensureEnvironment: beside the turns for Responses,      *)
(* Claude and Gemini, in the first system turn for Chat, or in a new one.  *)
(***************************************************************************)
AddToSystem(b) ==
    IF \/ b.system = Odd
       \/ HasEnvironment(b.system)
       \/ b.key = "input" /\ MessagesHaveEnvironment(b.items)
    THEN b
    ELSE [b EXCEPT !.system = Append(@, EnvPart)]

AddToMessages(b) ==
    LET k == SelectInSeq(b.items, IsSystem)
    IN  IF MessagesHaveEnvironment(b.items) THEN b
        ELSE IF k = 0 THEN [b EXCEPT !.items = <<EnvironmentTurn>> \o @]
        ELSE IF b.items[k].content = Odd THEN b
        ELSE [b EXCEPT !.items[k].content = Append(@, EnvPart)]

EnsureEnvironment(b, source) ==
    IF b.key = "input" \/ source \in {"claude", "gemini"}
    THEN AddToSystem(b)
    ELSE AddToMessages(b)

-----------------------------------------------------------------------------
(* Tools *)

Names(tools) == {t.name : t \in Range(tools)}

(***************************************************************************)
(* The first declaration of every name that is not present.                *)
(***************************************************************************)
Missing(present, more) ==
    Select(more, {k \in DOMAIN more :
                    /\ more[k].name \notin present
                    /\ \A j \in DOMAIN more : more[j].name = more[k].name => k <= j})

(***************************************************************************)
(* Appends what is not there by name: the loops of ensureTools and of the  *)
(* promotion in stripAdditionalTools.                                      *)
(***************************************************************************)
AppendAll(tools, more) == tools \o more

AppendMissing(tools, more) == tools \o Missing(Names(tools), more)

(***************************************************************************)
(* fingerprintTools, as declarations of the plugin.                        *)
(***************************************************************************)
FingerprintTools(c) ==
    LET names == Keep(c.tools, LAMBDA n : n # NoName)
        list == IF names = <<>> THEN DefaultTools ELSE names
    IN  [k \in DOMAIN list |-> [name |-> list[k], kind |-> "plugin"]]

(***************************************************************************)
(* ensureGeminiTools: a name counts in any group; what is missing goes to  *)
(* the end of the first one.                                               *)
(***************************************************************************)
EnsureGeminiTools(groups, required) ==
    LET Declares(g) == g # Odd
        first   == SelectInSeq(groups, Declares)
        present == UNION {Names(g) : g \in {h \in Range(groups) : Declares(h)}}
        missing == Missing(present, required)
    IN  IF missing = <<>> THEN groups
        ELSE IF first = 0 THEN Append(groups, missing)
        ELSE [groups EXCEPT ![first] = @ \o missing]

-----------------------------------------------------------------------------
(* Responses *)

(***************************************************************************)
(* normalizeMaxOutputTokens: a number under one of the Chat names moves,   *)
(* unless the Responses name is there; the Chat names go.                  *)
(***************************************************************************)
NormalizeMaxOutputTokens(caps) ==
    LET IsNumber(v) == v \notin {None, Odd}
    IN  [ output     |-> IF caps.output # None THEN caps.output
                         ELSE IF IsNumber(caps.completion) THEN caps.completion
                         ELSE IF IsNumber(caps.chat) THEN caps.chat
                         ELSE None,
          completion |-> None,
          chat       |-> None ]

(***************************************************************************)
(* stripReasoningItems: reasoning turns go, and every sealed payload.      *)
(***************************************************************************)
StripReasoningItems(items) ==
    LET keep == Keep(items, LAMBDA t : t = Junk \/ t.type # "reasoning")
    IN  [k \in DOMAIN keep |->
            IF keep[k] = Junk THEN Junk ELSE [keep[k] EXCEPT !.sealed = FALSE]]

(***************************************************************************)
(* stripAdditionalTools: the named function declarations of the dropped    *)
(* turns become top-level tools; a tool that is there already wins.        *)
(***************************************************************************)
StripAdditionalTools(b) ==
    LET IsAdditional(t) == t # Junk /\ t.type = "additional_tools"
        dropped == Keep(b.items, IsAdditional)
        nested == FlattenSeq([k \in DOMAIN dropped |-> dropped[k].tools])
        promoted == Keep(nested, LAMBDA t : t.kind = "function" /\ t.name # NoName)
    IN  [b EXCEPT !.items = Keep(@, LAMBDA t : ~ IsAdditional(t)),
                  !.tools = AppendMissing(@, promoted)]

ShapeResponses(b, c, wire) ==
    LET plain    == [b EXCEPT !.store = FALSE,
                              !.caps = NormalizeMaxOutputTokens(@)]
        readable == IF c.stripReasoning
                    THEN [plain EXCEPT !.items = StripReasoningItems(@)]
                    ELSE plain
        lifted   == IF wire /\ c.stripAdditional
                    THEN StripAdditionalTools(readable)
                    ELSE readable
    IN  [lifted EXCEPT !.tools = AppendMissing(@, FingerprintTools(c))]

(***************************************************************************)
(* applyFingerprintBody.  wire: the upstream gets the Responses body as it *)
(* is (isResponsesWire).                                                   *)
(***************************************************************************)
ApplyFingerprintBody(b, c, source, wire) ==
    LET placed   == EnsureEnvironment(b, source)
        streamed == IF c.forceStream /\ source # "gemini"
                    THEN [placed EXCEPT !.stream = TRUE]
                    ELSE placed
        required == FingerprintTools(c)
    IN  IF b.key = "input" THEN ShapeResponses(streamed, c, wire)
        ELSE IF source = "gemini"
        THEN [streamed EXCEPT !.tools = EnsureGeminiTools(@, required)]
        ELSE [streamed EXCEPT !.tools = AppendMissing(@, required)]

=============================================================================

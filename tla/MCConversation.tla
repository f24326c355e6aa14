--------------------------- MODULE MCConversation ---------------------------
(***************************************************************************)
(* Conversations in every protocol, each opened with the preambles, tools  *)
(* and odd values that its branch of the shaping tells apart.              *)
(***************************************************************************)
EXTENDS Conversation

Text(t)  == <<[kind |-> "text", of |-> t]>>
Image(k) == <<[kind |-> k, of |-> "picture"]>>

User(content) == Turn("user", None, content)
System(content) == Turn("system", None, content)
Item(type) == [Turn(None, type, <<>>) EXCEPT !.sealed = TRUE]

Tool(name)   == [name |-> name, kind |-> "function"]
Custom(name) == [name |-> name, kind |-> "custom"]

\* A client's declarations beside the turns (Codex Desktop).
Additional ==
    [ Turn("developer", "additional_tools", <<>>) EXCEPT
        !.tools = <<Tool("read"), Tool("exec"), Tool("exec"), Custom("patch"), Tool(NoName)>> ]

NoCaps == [output |-> None, completion |-> None, chat |-> None]

Empty(key) ==
    [ key |-> key, items |-> <<>>, system |-> <<>>, tools |-> <<>>,
      stream |-> Odd, store |-> Odd, caps |-> NoCaps ]

Open(protocol, wire, b) == [source |-> protocol, wire |-> wire, body |-> b]

ChatBodies ==
    LET chat == Empty("messages")
    IN  { [chat EXCEPT !.tools = <<Tool("read"), Tool(NoName), Tool("read")>>],
          [chat EXCEPT !.items = <<System(Text("rules"))>>],
          [chat EXCEPT !.items = <<System(Odd), System(Text("rules"))>>],
          [chat EXCEPT !.items = <<System(<<>>), System(<<EnvPart>>)>>] }

SystemBodies(key) ==
    { [Empty(key) EXCEPT !.system = content, !.stream = FALSE] :
        content \in {<<>>, Text("rules"), <<EnvPart>>, Odd} }

ResponsesBodies ==
    SystemBodies("input") \cup
    { [Empty("input") EXCEPT !.items = <<Additional>>, !.tools = <<Custom("patch")>>,
                             !.caps = [NoCaps EXCEPT !.chat = 1, !.completion = Odd]],
      [Empty("input") EXCEPT !.items = <<System(<<EnvPart>>)>>, !.store = TRUE,
                             !.caps = [NoCaps EXCEPT !.output = 2, !.completion = 1]] }

GeminiBodies ==
    SystemBodies("contents") \cup
    { [Empty("contents") EXCEPT !.tools = groups] :
        groups \in { <<Odd>>, <<Odd, <<Tool("exec")>>, <<Tool("read")>>>> } }

MCOpenings ==
    { Open(protocol, FALSE, b) : protocol \in {"openai", "other"}, b \in ChatBodies }
    \cup { Open("claude", FALSE, b) : b \in SystemBodies("messages") }
    \cup { Open("openai-response", wire, b) : wire \in BOOLEAN, b \in ResponsesBodies }
    \cup { Open("gemini", FALSE, b) : b \in GeminiBodies }

MCTurns ==
    { User(Text("hello")), User(Image("imageURL") \o Text("look")),
      User(Image("source") \o Text("look")), User(Odd),
      Turn("developer", "message", Text("note")), System(<<EnvPart>>), Junk }

MCAnswers ==
    { <<Turn("assistant", "message", Text("answer"))>>,
      <<Item("reasoning"), Item("function_call")>> }

MCPrompts == { Text("other rules"), Text("where") \o <<EnvPart>> }

MCTexts == {Env, "rules", "other rules", "where", "hello", "look", "picture", "note", "answer"}

MCToolNames == {"read", "edit", "exec", "lint", "patch"}

MCDefaultTools == <<"edit", "read">>

MCConfigs ==
    LET Config(on, tools) == [ forceStream |-> on, tools |-> tools,
                               stripReasoning |-> on, stripAdditional |-> on ]
    IN  { Config(TRUE, <<>>), Config(TRUE, <<"read", NoName, "lint", "lint">>),
          Config(FALSE, <<NoName>>) }

=============================================================================

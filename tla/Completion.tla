----------------------------- MODULE Completion -----------------------------
(***************************************************************************)
(* The assembly of a non-streaming answer (nativeCompletion in             *)
(* native_execute.go): the chunks that readNativeSSE reads are merged into *)
(* one chat.completion object.                                             *)
(*                                                                         *)
(* A JSON object is a record with a field for each key the code tells      *)
(* apart; an absent key is None and a JSON null is Null.  A string is the  *)
(* sequence of the pieces it was sent in, any other JSON value is Other or *)
(* a value of its own.  "id" stands for every key of a tool call but index *)
(* and function, "name" for every key of a function but arguments, and     *)
(* "finish" and "role" for the plain keys of a choice and of a message.    *)
(***************************************************************************)
EXTENDS Integers, Sequences, SequencesExt, FiniteSets, FiniteSetsExt, Selections

CONSTANTS
    Chunks,        \* the chunks the upstream may send
    Limit,         \* 64 MiB: the largest sum of their lengths
    MaxToolIndex,  \* 1024: tool calls beyond it are dropped
    MaxChunks,     \* bound: chunks added
    Pieces,        \* what strings are made of
    Plain,         \* values of the keys that are not merged
    None, Null, Other

TextType == Seq(Pieces) \cup {None, Null, Other}

FunctionObject == [name : Plain, arguments : TextType]

FunctionType == FunctionObject \cup {None, Null, Other}

PartType == [index : Int, id : Plain, function : FunctionType]

DeltaType ==
    [ content : TextType, reasoning : TextType, role : Plain,
      call : FunctionType, tools : Seq(PartType \cup {Other}) ]

ItemType == [index : Int, finish : Plain, delta : DeltaType \cup {None}]

ChunkType == [size : Nat, root : Plain, choices : Seq(ItemType \cup {Other})]

ASSUME CompletionAssumption ==
    /\ Chunks \subseteq ChunkType
    /\ Limit \in Nat /\ MaxToolIndex \in Nat /\ None \in Plain
    /\ None # Null /\ None # Other /\ Null # Other
    /\ \A mark \in {None, Null, Other} :
            /\ mark \notin Seq(Pieces) /\ mark \notin FunctionObject
            /\ mark \notin PartType /\ mark \notin ItemType /\ mark \notin DeltaType

VARIABLES
    pc,        \* "adding", "read" once readNativeSSE has returned, then "done"
               \* or "failed"
    err,       \* readNativeSSE returned an error
    root,      \* c.root, the keys other than choices and object
    choices,   \* c.choices: index -> the choice assembled so far
    size,      \* c.size
    response,  \* the choices array of the answer
    chunks     \* history: the chunks passed to add

vars == <<pc, err, root, choices, size, response, chunks>>

-----------------------------------------------------------------------------
(* Merging                                                                 *)

\* What a type assertion to string leaves of a value.
AsText(value) == IF value \in {None, Null, Other} THEN << >> ELSE value

\* MUTANT of MergeText: null replaces what there is, like any other value.
MergeTextNull(prior, value) ==
    IF value = None THEN prior
    ELSE IF value \in {Null, Other} THEN value
    ELSE AsText(prior) \o value

\* The text keys of a message: strings are concatenated, another value
\* replaces what there is, null is ignored.
MergeText(prior, value) ==
    IF value \in {None, Null} THEN prior
    ELSE IF value = Other THEN Other
    ELSE AsText(prior) \o value

\* The plain keys of a choice and of a message: the last value but null.
MergePlain(prior, value) == IF value \in {None, Null} THEN prior ELSE value

\* The keys that take the last value, null included.
MergeLast(prior, value) == IF value = None THEN prior ELSE value

NoFunction == [name |-> None, arguments |-> None]

\* mergeNativeFunction, into an empty function when there is none yet.
MergeFunction(prior, part) ==
    LET dst == IF prior = None THEN NoFunction ELSE prior IN
    IF part \in {Null, Other} THEN dst
    ELSE [ name      |-> MergeLast(dst.name, part.name),
           arguments |-> IF part.arguments = None THEN dst.arguments
                         ELSE AsText(dst.arguments) \o AsText(part.arguments) ]

\* function_call: only an object is merged.
MergeFunctionCall(prior, part) ==
    IF part \in {None, Null, Other} THEN prior ELSE MergeFunction(prior, part)

NoTool == [id |-> None, function |-> None]

\* MUTANT of MergeTool: an index beyond the end takes the next place.
MergeToolAtEnd(tools, part) ==
    IF part = Other \/ part.index < 0 \/ part.index > MaxToolIndex
    THEN tools
    ELSE LET at == IF part.index < Len(tools) THEN part.index + 1 ELSE Len(tools) + 1
             grown == IF at <= Len(tools) THEN tools ELSE Append(tools, NoTool)
         IN  [grown EXCEPT ![at] =
                [ id       |-> MergeLast(@.id, part.id),
                  function |-> IF part.function = None THEN @.function
                               ELSE MergeFunction(@.function, part.function) ]]

\* One part of tool_calls: the array grows up to its index.
MergeTool(tools, part) ==
    IF part = Other \/ part.index < 0 \/ part.index > MaxToolIndex
    THEN tools
    ELSE LET grown == [ t \in 1 .. (IF part.index < Len(tools) THEN Len(tools)
                                    ELSE part.index + 1) |->
                            IF t <= Len(tools) THEN tools[t] ELSE NoTool ]
         IN  [grown EXCEPT ![part.index + 1] =
                [ id       |-> MergeLast(@.id, part.id),
                  function |-> IF part.function = None THEN @.function
                               ELSE MergeFunction(@.function, part.function) ]]

\* The loop over the parts of tool_calls.
MergeTools(tools, parts) ==
    LET merged[n \in 0 .. Len(parts)] ==
            IF n = 0 THEN tools ELSE MergeTool(merged[n - 1], parts[n])
    IN  merged[Len(parts)]

\* mergeNativeDelta
MergeDelta(message, delta) ==
    [ content   |-> MergeText(message.content, delta.content),
      reasoning |-> MergeText(message.reasoning, delta.reasoning),
      role      |-> MergePlain(message.role, delta.role),
      call      |-> MergeFunctionCall(message.call, delta.call),
      tools     |-> MergeTools(message.tools, delta.tools) ]

NoChoice ==
    [ finish  |-> Null,
      message |-> [ content |-> << >>, reasoning |-> None, role |-> "assistant",
                    call |-> None, tools |-> << >> ] ]

\* One element of a chunk's choices.
MergeChoice(all, choice) ==
    IF choice = Other THEN all
    ELSE LET known == [ i \in DOMAIN all \cup {choice.index} |->
                            IF i \in DOMAIN all THEN all[i] ELSE NoChoice ]
         IN  [known EXCEPT ![choice.index] =
                [ finish  |-> MergePlain(@.finish, choice.finish),
                  message |-> IF choice.delta = None THEN @.message
                              ELSE MergeDelta(@.message, choice.delta) ]]

\* The loop over a chunk's choices.
MergeChoices(all, items) ==
    LET merged[n \in 0 .. Len(items)] ==
            IF n = 0 THEN all ELSE MergeChoice(merged[n - 1], items[n])
    IN  merged[Len(items)]

-----------------------------------------------------------------------------
(* The answer                                                              *)

Init ==
    /\ pc = "adding"
    /\ err = FALSE
    /\ root = None
    /\ choices = << >>
    /\ size = 0
    /\ response = << >>
    /\ chunks = << >>

\* add, for a chunk that keeps the sum of lengths within the limit.
Add(chunk) ==
    /\ size + chunk.size <= Limit
    /\ size' = size + chunk.size
    /\ root' = MergeLast(root, chunk.root)
    /\ choices' = MergeChoices(choices, chunk.choices)
    /\ UNCHANGED <<pc, err, response>>

\* add, for one that does not: readNativeSSE returns its error.
AddTooLarge(chunk) ==
    /\ size + chunk.size > Limit
    /\ size' = size + chunk.size
    /\ pc' = "read" /\ err' = TRUE
    /\ UNCHANGED <<root, choices, response>>

ReadChunk ==
    /\ pc = "adding" /\ Len(chunks) < MaxChunks
    /\ \E chunk \in Chunks :
        /\ chunks' = Append(chunks, chunk)
        /\ Add(chunk) \/ AddTooLarge(chunk)

\* readNativeSSE returns: nil once it has read [DONE], else the error of the
\* read, of a stream that ends early, or of a chunk add cannot parse.
ReadReturns ==
    /\ pc = "adding"
    /\ pc' = "read"
    /\ err' \in BOOLEAN
    /\ UNCHANGED <<root, choices, size, response, chunks>>

\* The choices in the order of their indices.
Listed ==
    [ n \in 1 .. Cardinality(DOMAIN choices) |->
        LET index == Nth(DOMAIN choices, n)
        IN  [index |-> index, choice |-> choices[index]] ]

\* MUTANT of Result: what was merged is the answer, whatever readNativeSSE
\* returned.
ResultUnchecked ==
    /\ pc = "read"
    /\ IF DOMAIN choices = {}
       THEN pc' = "failed" /\ UNCHANGED response
       ELSE pc' = "done" /\ response' = Listed
    /\ UNCHANGED <<err, root, choices, size, chunks>>

\* executeNative on what readNativeSSE returned: an error is its answer, else
\* result lists the choices and refuses a stream that had none.
Result ==
    /\ pc = "read"
    /\ IF err \/ DOMAIN choices = {}
       THEN pc' = "failed" /\ UNCHANGED response
       ELSE pc' = "done" /\ response' = Listed
    /\ UNCHANGED <<err, root, choices, size, chunks>>

Next == ReadChunk \/ ReadReturns \/ Result

Spec == Init /\ [][Next]_vars

-----------------------------------------------------------------------------
(* Properties: the same answer, read off the whole stream by position      *)

\* The chunk that exceeds the limit is not merged.
Merged == IF size > Limit THEN Front(chunks) ELSE chunks

\* The elements of all choices arrays.
Items == FlattenSeq([n \in DOMAIN Merged |-> Merged[n].choices])

Indices(items) == {items[n].index : n \in {m \in DOMAIN items : items[m] # Other}}

\* What the items say of choice i: its values of one key, None where it has
\* none, and all fragments of its tool calls.
Finishes(items, i) ==
    [n \in DOMAIN items |->
        IF items[n] # Other /\ items[n].index = i THEN items[n].finish ELSE None]

Speaks(item, i) == item # Other /\ item.index = i /\ item.delta # None

Sent(items, i, key) ==
    [n \in DOMAIN items |-> IF Speaks(items[n], i) THEN items[n].delta[key] ELSE None]

Fragments(items, i) ==
    FlattenSeq([n \in DOMAIN items |->
                    IF Speaks(items[n], i) THEN items[n].delta.tools ELSE << >>])

\* The last value that counts.
LastOf(values, ignored, first) ==
    LET at == {n \in DOMAIN values : values[n] \notin ignored}
    IN  IF at = {} THEN first ELSE values[Max(at)]

\* The text that the values of one key add up to: those behind the last
\* that is no string.
TextOf(values, first) ==
    LET at == {n \in DOMAIN values : values[n] \notin {None, Null}}
        tail == {n \in at : \A m \in at : values[m] = Other => m < n}
    IN  IF at = {} THEN first
        ELSE IF tail = {} THEN Other
        ELSE FlattenSeq([n \in DOMAIN values |-> IF n \in tail THEN values[n] ELSE << >>])

ArgumentsOf(texts) ==
    IF \A n \in DOMAIN texts : texts[n] = None THEN None
    ELSE FlattenSeq([n \in DOMAIN texts |-> AsText(texts[n])])

\* The function that the values of one key add up to.
FunctionOf(values) ==
    LET Field(key) ==
            [n \in DOMAIN values |->
                IF values[n] \in {None, Null, Other} THEN None ELSE values[n][key]]
    IN  IF \A n \in DOMAIN values : values[n] = None THEN None
        ELSE [ name      |-> LastOf(Field("name"), {None}, None),
               arguments |-> ArgumentsOf(Field("arguments")) ]

\* Only objects count.
Objects(values) ==
    [n \in DOMAIN values |-> IF values[n] \in {Null, Other} THEN None ELSE values[n]]

(***************************************************************************)
(* Every choice of the answer has the whole text the upstream sent for it, *)
(* in order, and the last of its plain values, however the chunks mix the  *)
(* choices and keys: nothing is lost, doubled or given to another choice.  *)
(* The keys beside the choices have the last value sent, null included.    *)
(***************************************************************************)
TextsWhole ==
    /\ root = LastOf([n \in DOMAIN Merged |-> Merged[n].root], {None}, None)
    /\ DOMAIN choices = Indices(Items)
    /\ \A i \in DOMAIN choices :
        LET message == choices[i].message
        IN  /\ message.content = TextOf(Sent(Items, i, "content"), << >>)
            /\ message.reasoning = TextOf(Sent(Items, i, "reasoning"), None)
            /\ message.role = LastOf(Sent(Items, i, "role"), {None, Null}, "assistant")
            /\ message.call = FunctionOf(Objects(Sent(Items, i, "call")))
            /\ choices[i].finish = LastOf(Finishes(Items, i), {None, Null}, Null)

\* What the fragments say of tool call t.
Told(parts, t) == {n \in DOMAIN parts : parts[n] # Other /\ parts[n].index = t}

ToolOf(parts, t) ==
    LET Field(key) == [n \in DOMAIN parts |-> IF n \in Told(parts, t) THEN parts[n][key] ELSE None]
    IN  [ id |-> LastOf(Field("id"), {None}, None), function |-> FunctionOf(Field("function")) ]

(***************************************************************************)
(* Every tool call of a choice is what its own fragments add up to,        *)
(* whatever order mergeNativeDelta meets the indices in: fragments of      *)
(* parallel calls are never mixed, and the array ends at the highest index *)
(* within the bound.                                                       *)
(***************************************************************************)
ToolCallsWhole ==
    \A i \in DOMAIN choices :
        LET tools == choices[i].message.tools
            parts == Fragments(Items, i)
        IN  /\ \A t \in 0 .. MaxToolIndex : Told(parts, t) # {} => t < Len(tools)
            /\ tools # << >> => Told(parts, Len(tools) - 1) # {}
            /\ \A t \in DOMAIN tools : tools[t] = ToolOf(parts, t - 1)

(***************************************************************************)
(* An answer lists every choice once, in ascending order of the indices,   *)
(* and is given only for a stream read to its [DONE], within the limit,    *)
(* that had a choice: executeNative never answers with the part of a       *)
(* broken or oversized stream that was merged before the error.            *)
(***************************************************************************)
AnswerInOrder ==
    /\ pc = "done" =>
        /\ ~ err /\ response # << >> /\ size <= Limit
        /\ \A m, n \in DOMAIN response :
                m < n => response[m].index < response[n].index
        /\ {response[n].index : n \in DOMAIN response} = Indices(Items)
    /\ pc # "done" => response = << >>

=============================================================================

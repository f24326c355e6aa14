# A TLA+ model of cpa-opencode-enhancer

The repository is a plugin of CLIProxyAPI (the *host*). The host loads it as a
C library, calls `HandleCall(method, payload)` from any number of threads, and
offers callbacks (`host.log`, `host.stream.emit`, `host.stream.close`). The
plugin makes requests to OpenCode look like the official client's, and brings an
executor of its own for OpenCode credentials.

This directory models the parts that keep state or decide something, checks them
with TLC on small instances and proves the main results with TLAPS for every
instance.

## The system

| Part | Source | State | Operations |
|---|---|---|---|
| Manager, lifecycle | `plugin.go`, `config.go` | `cfg`, `warnedAuths`, `sessionIDs`, `nativeRequests` under `m.mu` | register, reconfigure, quiesce, shutdown |
| Logging | `logging.go` | `hostLogEnabled` under `hostCallMu` | `SetLogEnabled`, `logToHost`, `logToHostAlways` |
| Interceptor | `plugin.go`, `fingerprint.go` | a snapshot of `cfg` per call | `request.intercept_after` |
| Glue warnings | `fingerprint.go` | `warnedAuths` | `warnGlueRequirement` |
| Session resolution | `session.go` | none | `resolveSessionID`, `sessionHeaderValue`, `firstUserContent` |
| Session id cache | `fingerprint.go` | `sessionIDs` | `shapeSessionID` |
| Classification | `target.go`, `fingerprint.go` | none | `isTarget`, `isZenFreeTierModel`, `fingerprintApplies` |
| Native executor | `native.go`, `native_execute.go` | `nativeRequests`, a context per execution | `executor.execute`, `executor.execute_stream`, `request.complete` |
| Event relay | `native_execute.go` | `frame`, `data`, `done` per stream | `readNativeSSE`, the stream goroutine |
| Completion assembly | `native_execute.go` | `root`, `choices`, `size` per answer | `nativeCompletion.add`, `result` |
| Native credentials | `native.go`, `native_execute.go` | none; the host keeps what it was told | `decodeNativeAuth`, `auth.parse`, `model.for_auth`, resolution of a model and a proxy |
| Body shaping | `fingerprint.go` | none | `applyFingerprintBody` |
| User-Agent, identity | `useragent.go` | none | string classification |
| Transport, proxy | `native_transport.go` | a socket with its deadline, a watcher per dial | `DialTLSContext`, `nativeProxyConnect`, route selection |
| C ABI | `main.go` | host function table | marshalling |

The parts meet in the Manager. Every call may run concurrently with every
other. A handler takes `m.mu` several times and works on what it read in between,
so a reconfiguration can fall between any two of its critical sections. An
execution outlives its call when it streams: a goroutine reads the upstream,
emits to the host, closes the host's stream and removes the execution from the
registry, while the host may retry, complete, reconfigure or shut down.

What is hard here: the life of an entry in `nativeRequests` among retries,
completions and late cleanups; state read in one critical section and used in
the next; the two-step update of configuration and logging switch; an upstream
that never answers; the buffers of the event reader at the limits and at the end
of the body; fragments of several choices and tool calls mixed in one stream; a
dial whose cancellation may come at any of its steps; a body that is rewritten
twice, with a translation and perhaps a reconfiguration in between; ids that the
host was given earlier and sends back later.
`PROJECT.json` lists these as hazards at their lines.

## Modules

| Module | Models |
|---|---|
| `Config` | the configuration and the requests, abstracted to what the handlers decide on; the forms of a session value |
| `Target` | which requests are touched and which are fingerprinted |
| `Session` | where a session identity comes from and how it is rendered |
| `Manager` | the shared state and all calls against it: lifecycle, interceptor, executor, completion |
| `ManagerProofs` | theorems about `Manager` |
| `StreamContract` | what the host is promised of one executor stream (abstract) |
| `StreamRelay` | `readNativeSSE` and the stream goroutine; implements `StreamContract` |
| `StreamRelayProofs` | theorems about `StreamRelay`, the implementation among them |
| `Completion` | the assembly of a non-streaming answer |
| `CompletionProofs` | theorems about `Completion` |
| `Dial` | one dial of the native transport, from the TCP connection to the upstream's TLS handshake |
| `DialProofs` | theorems about `Dial` |
| `Credentials` | a credential from its file to the model and the route of an execution |
| `CredentialsProofs` | theorems about `Credentials` |
| `Selections`, `SelectionProofs` | the elements of a sequence at chosen positions; lemmas about them, about `FlattenSeq` and about concatenation |
| `Body`, `BodyProofs` | operators on a request body: its identity and its rewriting; lemmas about each of them |
| `Conversation`, `ConversationProofs` | one conversation through interceptor, host and executor, over `Body`; theorems about it |
| `MCManager`, `MCStreamRelay`, `MCCompletion`, `MCCredentials`, `MCConversation` | instances for TLC (`Dial` needs none) |

### Manager

One step is one critical section, one host callback, or one thing the upstream
does. What a handler computes between two of them is local to the call and
belongs to the step before.

* `LifecycleCommit`, `Shutdown` are the first critical section of the lifecycle
  calls (`plugin.go:67-72`, `95-99`), `ApplyLogging` is the second. Lifecycle
  calls overlap freely: one may pass both sections while another is between them.
* `InterceptStart` reads the configuration and classifies the request;
  `InterceptMark` and `InterceptWarn` are the critical section of
  `warnGlueRequirement` and the line it writes after it; `InterceptShape` and
  `InterceptKeep` set the session; `InterceptLog` writes the log line.
  `LogToHostAlways` is best effort, as in the code: a line reaches the host or is
  lost without notice, and a mark whose line is lost stays until the next
  reconfiguration.
* `ExecuteDecode` reads the configuration for the paid-model check,
  `ExecuteSnapshot` reads it again for shaping, `ExecuteShape`/`ExecuteKeep`
  resolve the session, `NativeContext` registers. From there the upstream decides
  (`ExecuteRespond`, `ExecuteRefused`, `ExecuteFail`, `ExecuteReadEnd`) or the
  context does (`ExecuteAbort`); `CleanupCancel` and `CleanupForget` are the two
  halves of the cleanup closure. `ExecuteReject` stands for every early return
  that touches nothing shared.
* A call is a member of a constant set and is used once; `Key(e)` is the id an
  execution registers under, the call itself when `newRequestID` draws one.
* `completed`, `hostLog`, `lost` and `handed` record what the host has seen or missed.
  `warned` names the call that marked a credential where the code keeps an empty struct. The names
  and these records are read by properties only, but for one assumption about the host: it starts no attempt of a
  request that it has completed.

Data is abstracted: a model id has a final segment, a glob or marker is the set
it matches, a session value is the identity it stands for and its form (raw,
hashed, or shaped with a timestamp). SHA-256 is injective in the model. The wall
clock is arbitrary: a new session id may get any stamp.

### StreamRelay and StreamContract

A line has a kind, a length and, for a data line, the piece of payload it
carries: whole objects, the two halves of one, an upstream error, `[DONE]`,
nothing, or junk. `Flush` is `flush`; `ReadLine`, `ReadEOF` and `ReadError` are
the ways the scanner's loop goes on or ends. The host may refuse an event. A
line of `Limit` bytes does not fit the scanner's buffer, which has the same limit
as the event. `input` and `eof` are history, for the properties.

`StreamContract` is the host's view: events in order while the stream is open,
one close, clean exactly when the terminator was read. The refinement maps its
`out` to `emitted`, `terminated` to `done` and `status` to how `StreamClose` ended.

### Completion

The merging rules differ by key: text is concatenated (another value replaces
it, null is ignored), plain keys take the last value but null, other keys take
the last value and null too. Keys with the same rule are represented by one of
them. The operators are translated from the code, its two loops as recursive functions; the
properties read the same answer off the whole stream by position, without folding: the last
value of a key, the strings behind the last value that is none, the fragments of
one index. `CompletionAssumption` says what a chunk is (`ChunkType`): objects whose keys hold strings, null,
another value or nothing, with `Other` for an element that is no object.
`ReadReturns` is the return of `readNativeSSE`, with or without an error (`err`), after any chunk;
`Result` is what `executeNative` then makes of it.

### Dial

One step is one call on the connection, one assignment another goroutine can see,
or one thing that happens around the dial. `Connect`, `Watch`, `ProxyHandshake`,
`Swap`, `WriteConnect`, `ReadEstablished`, `ClearDeadline` and `Stop` are
`nativeProxyConnect` on its way; `ProxyFails` and `ProxyError` are any of its error
returns and the deferred calls they run; `Prepare`, `Handshake` and `Refuse` are the
rest of `DialTLSContext`. `Cancel` may happen at any time. The watcher reads the
variable `conn` that `conn = secured` writes without synchronisation, so between
`ProxyHandshake` and the next step the model lets its close have no effect.
A TLS connection over a socket closes that socket and carries its deadline: one
`socket` stands for both layers.

### Credentials

The host parses a credential file, asks for its models, and later executes with the
file and the attribute it kept; the configuration may change in between. A model
id is the sequence of its path segments, because resolution cuts a prefix off and
the paid check looks at the last one. A proxy setting is its scheme or the way
"no proxy" is spelled. `c.sound` stands for everything `decodeNativeAuth` refuses for
its syntax alone.

### Body and Conversation

A body keeps what the code looks at: the key that holds its turns, their roles,
types and parts, the content beside them, tools, `stream`, `store` and the token
caps, each of which may also be absent or of an unexpected type. `Body` has one operator
per function of the source. In `Conversation` the client adds turns, changes its
system prompt and includes the answers; `Intercept` identifies and shapes a request,
`Execute` shapes the translated one again with the configuration of that moment and
reads the identity again. The executor takes Chat Completions and serves clients of every
protocol; only a request that goes upstream as Responses (`wire`) is not its own.

The host's translation in between is external. `Translate` assumes of it what the second pass
depends on:

* A body that has `messages` and is not Claude's passes as it is.
* In every other one a system prompt beside the turns becomes the first turn, and a turn without a
  role (a tool call of Responses) one of the assistant.
* Texts stay as they are. An image becomes an `image_url` object, which `appendContentParts` does not read.
* Reasoning items of Responses are dropped, and the named functions in `additional_tools` become tools
  unless a tool of that name is there: the code leaves them to the host on this route
  (`isResponsesWire` in `fingerprint.go`; README, "Translated targets ... keep the items").
* The declaration groups of Gemini are joined.

`IdentityKept` speaks of bodies with `messages`. For Responses and Gemini the
interceptor's rules read other turns and parts than the Chat rules do after
the translation, so the two identities need not agree; nothing in the code
relies on it, since the interceptor's session header, when it is passed on, comes first.

`OpeningType`, `ClientItem` and `ConversationAssumption` say what a client's body looks like. The protocol decides the key that holds the turns. A client
keeps its own environment block at the place its protocol has for it: beside the turns for Claude and
Gemini, among them for Chat, which has nothing beside them. And no system turn of type `reasoning` or
`additional_tools` holds the block: the code counts such a turn as one that has it, then
drops the turn, so the request would go out without it, and a second pass would add one. "plugin" as the kind of a tool is
not data of the code; it marks the declarations the plugin made, for `ToolsComplete`.

## Runs

Bounds are the sizes of the sets of calls, `MaxLines`, `MaxChunks`, `MaxModels` and
`MaxItems`. Where a bound stops the instance (all calls are over, the body is full, the dial
has returned) deadlock is not checked; `credentials` never stops, and it is.

| Run | Instance | Shows |
|---|---|---|
| `registry` | 2 executions (attempts of one request, streaming or not, or one without id), 2 lifecycle calls, completion, fair scheduling, unfair upstream | no live execution is unregistered, no leftovers, nothing leaves the registry uncancelled, completion and lifecycle calls reach all that run, a cancelled execution ends |
| `session` | 2 interceptor calls, 1 execution, 1 lifecycle call, 2 stamps, fingerprint on and off | types; one session id per conversation until shutdown; one warning per credential and configuration, and no mark without its line, with logging off too |
| `relay` | streams of up to 5 lines, limit 6 | every event once, in order and whole; a truthful close; bounded buffers; the contract |
| `completion` | streams of up to 4 chunks, limit 6 | texts, tool calls and order of the answer |
| `dial` | one dial over each of the four routes, fair goroutines and timers, unfair peer | no leak, no deadline left, a late cancellation without effect, an end |
| `credentials` | up to 2 models over 4 ids that share segments, with and without prefix, 2 paid lists, every proxy setting | published ids resolve to their models; the route follows the precedence |
| `conversation` | openings in 5 protocols, bodies of up to 4 turns, 3 configurations | an identity that settles and that the executor reads again (Chat, and Claude without the images); for every protocol a rewriting that is idempotent before and after the translation, with one environment and every tool once |

Two executions are the least with which a late cleanup and a retry meet; the safety
properties of that run are proved for any number of them. Two
stamps are the least with which two shapings may differ; five lines let an event over two data lines, its blank line,
a second event and the body's end meet; four chunks let a tool call be opened, skipped over,
continued and answered. Two models are enough for an id to be ambiguous, since
ambiguity is a relation of two. Four turns hold a preamble, a user's turn, an answer and
what comes after it. Symmetry is used over the calls in `session` only.

Fairness (`Fairness` in `Manager`): every handler that was called goes on, because
the host's threads and Go's scheduler run it and the host answers callbacks.
Nothing is assumed of the upstream: it may never answer a request and never end
a body. What ends such an execution is the cancelled context, to which
`client.Do` and the body's `Read` react (`http.NewRequestWithContext`).

In `Dial` (`Progress`, `FairSpec`) the goroutine and the watcher run, and timers expire:
the dialer's 15 seconds, the socket's deadline, the 10 seconds of the handshake. The peer
owes nothing. A step that needs the peer is never fair; its failure is, where a timer,
a closed socket or a done context causes it. A SOCKS proxy has no timer once the TCP
connection stands, so `DialReturns` promises an end there only after cancellation.

### Disagreements between the code and what is said of it

Five runs expect a violation. Each states what a comment, test or the
repository's README says; TLC finds what the code does instead.

| Run | Said | Done |
|---|---|---|
| `completed_early` | completion cancels the execution upstream (test) | a completion before `nativeContext` cancels nothing, and the execution runs on |
| `torn_config` | paid models are never reshaped | checked with one configuration, shaped with the next |
| `request_scoped` | request-scoped identities never give a sticky session | they are cached like any other |
| `raw_source` | with `hash_derived` the client's id never leaves the proxy | a source header with the `ses_` shape is forwarded verbatim on the fingerprint path |
| `torn_logging` | `host.log` is used only when the operator opted in; calls may be concurrent | of two overlapping lifecycle calls the first to commit may set the switch last |

More can be seen in the models without a run of their own:

* A request in flight during a reconfiguration marks its credential after the marks
  were reset and names the headers of the old configuration; the new ones are not announced.
* A warning that `host.log` loses is not repeated: the mark stays.
* `FingerprintApplies` holds for a paid upstream model that was requested under a
  free-looking name.
* The identity of a body is stable from the first answer on (`IdentitySettles`). Before it, a
  user who speaks again extends the run of leading user turns and so gets another
  identity, although the README calls it "stable across turns of the same conversation".
* `firstUserContent` finds no identity by the Chat rules in a conversation that opens with an assistant's
  turn, but does by the Claude rules: there the executor, which always uses the Chat rules,
  differs from the interceptor unless it gets the interceptor's header. `IdentityKept` leaves that case out.
* In a Claude conversation with an image in its first run of user turns the executor reads the
  identity without the image (`WithoutImages`), so it resolves another session than the
  interceptor did unless it gets the interceptor's header.
* A published id that itself starts with the credential's prefix resolves only when the host
  sends it with the prefix (`Spellings`).
* On a translated route a required tool that the client declares only in
  `additional_tools` is declared again by the interceptor, because nothing is lifted there; that
  the two become one is up to the host.

## Proofs

`ManagerProofs`, for any sets of calls, configurations, requests and identities:

* `TypeCorrect`. The inductive invariant adds that a call past its first step has
  a payload (`HasPayload`), without which its fields have no type.
* `LiveRegistered`, `RegistryDrains`. Neither is inductive alone: a live execution
  is registered because nothing else may hold its key, and what is registered is
  running because whatever ended was removed or replaced. `RegistryInv` takes both,
  with the fact that a cancelled execution had a context. `CompletionCancelsAll` and
  `LifecycleCancelsAll` are then facts about one step from that invariant.
* `NeverOrphansLive` also needs that an execution which has begun to forget itself
  is cancelled (`ForgettingIsCancelled`), which is why the two halves of the
  cleanup may be apart.
* `SessionIsSticky`, from `CacheInv`: what has been handed out since the last
  shutdown is what the cache holds.
* `WarnedOnce`, for finite sets of calls, by counting: a step that adds a warner
  adds a mark, a step that clears the marks adds a committed lifecycle call.
* `MarkedIsWarned` (`WarnedIsWritten`), by the same lemma (`WarnersKept`): nothing but
  marking changes who has written, or is about to write, a credential's warning.

`StreamRelayProofs`, for any set of lines and any limit:

* `RelayTypeCorrect` and `RelayBounded`. The bound on the buffer needs the bound
  at the previous line, the bound on events that of the buffer.
* `RelayImplementsContract`. The invariant `Outcome` says that the relay reads
  exactly as long as there is neither an error nor `[DONE]`, and stops with one of the
  two; then each step is a `Deliver`, `Terminate`, `Close` or stutter of the contract.
* `RelayComplete` and `CleanCloseOnlyDone`. The properties cut the whole input into blocks by position;
  the code sees one line at a time. `PositionInv` joins the two: while the relay reads, `data` is the
  block that is being filled, all earlier blocks are events or nothing, and what was emitted is
  what was cut. A line then extends the last block or closes it, and only the end of
  the input may leave one behind.

`DialProofs`, for any routes: `DialNeverLeaks`, `DialClearsDeadline` and
`LateCancelIsHarmless` follow from `DialInv`: a result exists only at the end, a deadline and an armed
watcher exist only inside `nativeProxyConnect`, or on a connection that was refused. The
first part is needed because the watcher may close, and the deadline expire, after the return.

`CredentialsProofs`, for any credentials, ids, prefixes, paid lists and proxy settings:

* `PublishedAlwaysResolves`. The invariant says that whatever is published came from an
  unambiguous list of models and that the last execution resolved by that list. The two
  lemmas are that cutting the prefix off undoes putting it on (`TrimsPrefix`), and that
  the search finds a model with the id (`ResolvesToFit`, by the well-foundedness of the
  positions); ambiguity being excluded, it is the right one.
* `RouteAlwaysFollowsPrecedence`, from the invariant that the host's attribute is its own
  proxy whenever the credential is silent.

`ConversationProofs`, for any openings, turns, answers, system prompts and configurations, and bodies
of any length. `ConversationInv` has three parts: `BodyInv`, what stays true of the client's
body; `SentInv`, that the request under way is what the interceptor, or the executor after it,
makes of that body; `SettledInv`, that an answered run of user turns is closed.

* `IdentityFixed` (`IdentitySettles`). The identity is that of the first run of user turns. An answer
  closes the run, since it starts with a turn of the model, and nothing that
  is appended later enters a closed run (`RunStays`); a new system prompt changes no
  user turn (`RunIgnoresSystem`).
* `IdentitySurvives` (`IdentityKept`). A block added to the preamble and a turn put before it
  move the run without changing it (`PreambleKeepsRun`, `RunMoves`). The translation keeps the
  run's turns and the texts in them (`RunMapped`, `ChatRun`), and what is written of a translated content is what
  is written of the original without its images (`ImagesHidden`, `RunSpoken`).
* `ShapingIdempotent` (`ShapedOnce`). Each part of `applyFingerprintBody` leaves what it
  made, and what the later parts change of it: the turns that are dropped are not the
  ones the environment is found in, and a tool that was appended is found by its name.
* `ToolsDeclared` (`ToolsComplete`). `AppendMissing` adds the first declaration of every name that is not there,
  so nothing of the plugin's is there twice (`Alone`) and the client's own declarations
  (`Own`) are untouched; for Gemini the same holds of the groups joined, into the middle of
  which the missing ones go (`GeminiToolsBetween`). The translation keeps the declarations in
  front (`TranslatedBody`, `PrefixStays`), so the executor's pass finds them (`ReceivedBody`).
* `EnvironmentKeptOnce` (`EnvironmentOnce`). The count is the size of the set of
  places of the block. Dropping turns and moving the system prompt into a turn map that set one to
  one (`PlacesMoved`), and `ensureEnvironment` adds one place to the empty set or
  nothing (`EnvironmentAdded`). The translation rewrites turns in place (`ChatBody`) and moves the prompt (`PreambleMoved`).

`CompletionProofs`, for any chunks, any number of them, and any limits. The invariant `CompletionInv` says
that the answer so far is what the merged chunks say by position (`Assembled`); that is the
properties themselves, with the existence of an array length made explicit (`Calls`), so the work is in the step:

* One more value changes each reading by position exactly as the code's merge of that value
  does (`LastGrows`, `TextGrows`, `ArgumentsGrow`, `FunctionGrows`, `ToolGrows`), and one that belongs to another
  choice or tool call changes nothing.
* A fragment (`CallsGrow`) and a choice (`ChoiceGrows`, `AssemblyGrows`) follow from those, and the loops over them
  (`CallsMerged`, `AssemblyMerged`) by the least iteration at which they could fail.
* `TextsComplete` and `ToolCallsComplete` are then read off the invariant. `AnswerOrdered` adds that
  `result` lists finitely many indices by rank, and that an oversized stream was read with an error,
  which leaves no answer.

Loops that skip or drop elements are written as selections of positions by rank (`Selections`), not as
recursions, so that these lemmas need no induction over data; where a fact about all
lengths is needed (`FlattenSeq`), it is proved for the least length at which it could fail.

The assumptions are the `ASSUME`s of `Config`, `Manager`, `StreamRelay`, `Dial`,
`Credentials`, `Completion`, `Body` and `Conversation`; TLC evaluates them in the runs. Those of `Body`
say that the default environment is a text, the default tools have names, and that the
marks for values of unexpected types are no such values; `Conversation` adds that the
mark for a missing role is none of the roles.

Only model-checked: `CancelledEnds` and `DialReturns`; liveness is out
of the prover's reach.

## Not modelled

The User-Agent (`useragent.go`) and the fingerprint headers: classification and
formatting of strings, without state or control a property could be about. Error texts
and log wording. The TLS ClientHello, the connection pool of `http.Transport` and
its retries: library configuration. The C ABI (`main.go`): marshalling and memory
management. `request.intercept_before`, `auth.refresh`, `model.static` and the
identifier calls return constants. Payloads that are not JSON end a call before
it reads anything. The host's translators are external; what the executor's
second pass depends on is assumed of them, as listed under Body and Conversation.

## Plan

1. Done: the Manager with its properties and proofs, the relay with its contract
   and proofs, the completion, the dial and the credentials with their
   proofs, the body and the conversation with theirs.
2. Left: nothing that a run checks as an invariant or an action property is without a theorem.
   What could be added is type correctness for the modules that have no type invariant of their own.

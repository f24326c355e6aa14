------------------------- MODULE ConversationProofs -------------------------
(***************************************************************************)
(* Theorems about conversations: the identity settles with the first       *)
(* answer, survives the shaping and the translation for the executor, and  *)
(* the shaping is idempotent, declares every tool once and keeps one       *)
(* environment.                                                            *)
(***************************************************************************)
EXTENDS Conversation, BodyProofs

-----------------------------------------------------------------------------
(* The inductive invariant                                                 *)

BodyInv ==
    /\ opening \in Openings
    /\ body \in BodyType
    /\ body.key = opening.body.key
    /\ body.tools = opening.body.tools
    /\ Beside(source, body.items)
    /\ body.key = "messages" /\ source # "claude" => body.system = <<>>
    /\ body.key = "input" => EnvironmentApart(body.items)

\* What the executor shapes: the host's translation of what the interceptor
\* shaped.
Received(c) == Translate(ApplyFingerprintBody(body, c, source, opening.wire))

SentInv ==
    sent # None =>
        /\ sent = [ identity |-> FirstUserContent(source, body),
                    config   |-> sent.config,
                    shaped   |-> sent.shaped,
                    reread   |-> sent.reread ]
        /\ sent.config \in Configs
        /\ sent.reread = None =>
                sent.shaped = ApplyFingerprintBody(body, sent.config, source, opening.wire)
        /\ sent.reread # None =>
                /\ ~ opening.wire
                /\ \E c \in Configs :
                    /\ sent.shaped = ApplyFingerprintBody([Received(c) EXCEPT !.stream = TRUE],
                                                          sent.config, "openai", FALSE)
                    /\ sent.reread = FirstUserContent("openai", Received(c))

\* The answered identity comes from a run that is over.
SettledInv ==
    settled # None =>
        /\ Reads(source, body)
        /\ Closed(body)
        /\ FirstUserContent(source, body) = settled

(***************************************************************************)
(* What the constants say of an opening.                                   *)
(***************************************************************************)
LEMMA OpeningFacts ==
    ASSUME BodyInv
    PROVE  /\ opening \in OpeningType /\ opening.wire \in BOOLEAN
           /\ source \in {"openai", "claude"} => body.key = "messages"
           /\ source = "gemini" <=> body.key = "contents"
           /\ Configs \subseteq ConfigType
<1>1. opening \in OpeningType
  BY ConversationAssumption DEF BodyInv
<1>. QED
  BY <1>1, ConversationAssumption DEF BodyInv, OpeningType, source

(***************************************************************************)
(* Turns of a client are turns, and those that carry reasoning or tools    *)
(* hold no environment.                                                    *)
(***************************************************************************)
LEMMA ClientTurns ==
    ASSUME NEW items \in Seq(ClientItem)
    PROVE  items \in Seq(ItemType) /\ EnvironmentApart(items)
<1>1. \A t \in ClientItem :
        /\ t \in ItemType
        /\ IsSystem(t) /\ t.type \in {"reasoning", "additional_tools"}
                => ~ HasEnvironment(t.content)
  BY DEF ClientItem
<1>2. \A k \in DOMAIN items : items[k] \in ClientItem
  OBVIOUS
<1>3. DOMAIN items = 1 .. Len(items) /\ Len(items) \in Nat /\ items = [k \in 1 .. Len(items) |-> items[k]]
  OBVIOUS
<1>4. items \in Seq(ItemType)
  BY <1>1, <1>2, <1>3
<1>. QED
  BY <1>1, <1>2, <1>4 DEF EnvironmentApart

(***************************************************************************)
(* More turns of a client leave a body one.                                *)
(***************************************************************************)
LEMMA ExtendedBody ==
    ASSUME BodyInv, NEW turns \in Seq(ClientItem), Extend(turns), opening' = opening
    PROVE  /\ BodyInv'
           /\ turns \in Seq(ItemType)
           /\ body'.key = body.key /\ body'.items = body.items \o turns
<1>1. turns \in Seq(ItemType) /\ EnvironmentApart(turns)
  BY ClientTurns
<1>2. body \in BodyType /\ body.items \in Seq(ItemType)
  BY DEF BodyInv, BodyType
<1>. DEFINE new == body.items \o turns
<1>3. /\ new \in Seq(ItemType)
      /\ DOMAIN new = 1 .. Len(body.items) + Len(turns)
      /\ Len(body.items) \in Nat /\ Len(turns) \in Nat
      /\ DOMAIN body.items = 1 .. Len(body.items) /\ DOMAIN turns = 1 .. Len(turns)
      /\ \A k \in 1 .. Len(body.items) : new[k] = body.items[k]
      /\ \A k \in 1 .. Len(turns) : new[Len(body.items) + k] = turns[k]
  BY <1>1, <1>2
<1>4. body' = [body EXCEPT !.items = new]
  BY DEF Extend
<1>. HIDE DEF new
<1>5. \A k \in DOMAIN new : \/ k \in DOMAIN body.items /\ new[k] = body.items[k]
                            \/ \E j \in DOMAIN turns : new[k] = turns[j]
  <2>. TAKE k \in DOMAIN new
  <2>1. CASE k > Len(body.items)
    <3>1. k - Len(body.items) \in 1 .. Len(turns) /\ Len(body.items) + (k - Len(body.items)) = k
      BY <1>3, <2>1
    <3>. QED
      BY <1>3, <3>1
  <2>2. CASE ~ (k > Len(body.items))
    BY <1>3, <2>2
  <2>. QED
    BY <2>1, <2>2
<1>6. EnvironmentApart(body.items) => EnvironmentApart(new)
  BY <1>1, <1>5 DEF EnvironmentApart
<1>7. /\ body' \in BodyType /\ body'.key = body.key /\ body'.items = new
      /\ body'.tools = body.tools
  BY <1>2, <1>3, <1>4 DEF BodyType
<1>8. Beside(source, new) /\ source' = source /\ body'.system = body.system
  <2>1. Beside(source, body.items) /\ Beside(source, turns)
    BY DEF BodyInv, Extend
  <2>2. body'.system = body.system
    BY <1>2, <1>4 DEF BodyType
  <2>. QED
    BY <1>5, <2>1, <2>2 DEF Beside, MessagesHaveEnvironment, source
<1>. QED
  BY <1>1, <1>6, <1>7, <1>8 DEF BodyInv, new

(***************************************************************************)
(* Another system prompt leaves a body one, and its run of user turns.     *)
(***************************************************************************)
LEMMA PromptedBody ==
    ASSUME BodyInv, NEW content \in Prompts, Prompt(content)
    PROVE  /\ BodyInv'
           /\ body'.key = body.key
           /\ Select(body'.items, RunAt(body')) = Select(body.items, RunAt(body))
           /\ Opened(body') <=> Opened(body)
           /\ Closed(body') <=> Closed(body)
<1>1. body \in BodyType /\ body.items \in Seq(ItemType) /\ opening' = opening
  BY DEF BodyInv, BodyType, Prompt
<1>2. content \in ContentType
  BY ConversationAssumption
<1>3. CASE body.key = "messages" /\ source # "claude"
  <2>. DEFINE t == body.items[1]
              u == [t EXCEPT !.content = content]
              new == [body.items EXCEPT ![1] = u]
  <2>1. /\ 1 \in DOMAIN body.items /\ IsSystem(t)
        /\ body' = [body EXCEPT !.items[1].content = content]
    BY <1>1, <1>3 DEF Prompt
  <2>2. t \in TurnType
    BY <1>1, <2>1 DEF IsSystem, ItemType
  <2>3. u \in TurnType
    BY <1>2, <2>2 DEF TurnType
  <2>4. body' = [body EXCEPT !.items = new]
    BY <1>1, <2>1 DEF BodyType
  <2>. HIDE DEF u
  <2>5. new \in Seq(ItemType)
    BY <1>1, <2>1, <2>3 DEF ItemType
  <2>. HIDE DEF new
  <2>6. /\ body' \in BodyType /\ body'.key = body.key /\ body'.items = new
        /\ body'.tools = body.tools
    BY <1>1, <2>4, <2>5 DEF BodyType
  <2>7. BodyInv'
    <3>1. source' = source /\ body'.system = body.system
      BY <1>1, <2>4 DEF source, BodyType
    <3>2. Beside(source, new)
      BY <1>3, OpeningFacts DEF Beside
    <3>. QED
      BY <1>1, <1>3, <2>6, <3>1, <3>2 DEF BodyInv
  <2>8. body'.items = [body.items EXCEPT ![1] = [@ EXCEPT !.content = content]]
    BY <2>6 DEF new, u
  <2>9. [body.items[1] EXCEPT !.content = content] \in TurnType
    BY <2>3 DEF u
  <2>. QED
    BY <1>1, <2>1, <2>6, <2>7, <2>8, <2>9, RunIgnoresSystem
<1>4. CASE ~ (body.key = "messages" /\ source # "claude")
  <2>1. body' = [body EXCEPT !.system = content]
    BY <1>4 DEF Prompt
  <2>2. /\ body' \in BodyType /\ body'.key = body.key /\ body'.items = body.items
        /\ body'.tools = body.tools
    BY <1>1, <1>2, <2>1 DEF BodyType
  <2>3. BodyInv'
    <3>1. source' = source
      BY <1>1 DEF source
    <3>. QED
      BY <1>1, <1>4, <2>2, <3>1 DEF BodyInv
  <2>4. UserAt(body') = UserAt(body)
    BY <2>2 DEF UserAt
  <2>5. OtherAt(body') = OtherAt(body)
    BY <2>2, <2>4 DEF OtherAt
  <2>6. RunAt(body') = RunAt(body)
    BY <2>4, <2>5 DEF RunAt
  <2>. QED
    BY <2>2, <2>3, <2>4, <2>5, <2>6 DEF Opened, Closed
<1>. QED
  BY <1>3, <1>4

-----------------------------------------------------------------------------
(* Counting the environment                                                *)

EnvironmentPlaces(b) == UNION {{k} \X EnvironmentParts(b, k) : k \in 0 .. Len(b.items)}

(***************************************************************************)
(* A place is the index of a content and the index of a part in it.        *)
(***************************************************************************)
LEMMA PlaceIs ==
    ASSUME NEW b
    PROVE  \A p : p \in EnvironmentPlaces(b)
                <=> \E k \in 0 .. Len(b.items) : \E j \in EnvironmentParts(b, k) : p = <<k, j>>
BY DEF EnvironmentPlaces

(***************************************************************************)
(* What the parts of a content are.                                        *)
(***************************************************************************)
LEMMA PartsAre ==
    ASSUME NEW b \in BodyType
    PROVE  /\ \A j : j \in EnvironmentParts(b, 0)
                <=> b.system # Odd /\ j \in DOMAIN b.system /\ b.system[j] = EnvPart
           /\ \A k \in DOMAIN b.items : \A j :
                j \in EnvironmentParts(b, k)
                    <=> /\ IsSystem(b.items[k]) /\ b.items[k].content # Odd
                        /\ j \in DOMAIN b.items[k].content
                        /\ b.items[k].content[j] = EnvPart
           /\ \A k : k \in 0 .. Len(b.items) <=> k = 0 \/ k \in DOMAIN b.items
           /\ 0 \notin DOMAIN b.items
<1>1. b.items \in Seq(ItemType)
  BY DEF BodyType
<1>2. /\ DOMAIN b.items = 1 .. Len(b.items) /\ Len(b.items) \in Nat
  BY <1>1
<1>3. 0 \notin DOMAIN b.items /\ \A k : k \in 0 .. Len(b.items) <=> k = 0 \/ k \in DOMAIN b.items
  BY <1>2
<1>4. \A j : j \in EnvironmentParts(b, 0)
                <=> b.system # Odd /\ j \in DOMAIN b.system /\ b.system[j] = EnvPart
  BY DEF EnvironmentParts
<1>5. ASSUME NEW k \in DOMAIN b.items, NEW j
      PROVE  j \in EnvironmentParts(b, k)
                    <=> /\ IsSystem(b.items[k]) /\ b.items[k].content # Odd
                        /\ j \in DOMAIN b.items[k].content
                        /\ b.items[k].content[j] = EnvPart
  <2>1. k # 0
    BY <1>3
  <2>2. DOMAIN <<>> = {}
    OBVIOUS
  <2>3. CASE IsSystem(b.items[k])
    BY <2>1, <2>3 DEF EnvironmentParts
  <2>4. CASE ~ IsSystem(b.items[k])
    BY <2>1, <2>2, <2>4 DEF EnvironmentParts
  <2>. QED
    BY <2>3, <2>4
<1>. QED
  BY <1>3, <1>4, <1>5

(***************************************************************************)
(* There are finitely many, and none exactly when no content has one.      *)
(***************************************************************************)
LEMMA PlacesCounted ==
    ASSUME NEW b \in BodyType
    PROVE  /\ IsFiniteSet(EnvironmentPlaces(b))
           /\ Environments(b) = Cardinality(EnvironmentPlaces(b))
           /\ Environments(b) \in Nat
           /\ Environments(b) = 0
                <=> ~ HasEnvironment(b.system) /\ ~ MessagesHaveEnvironment(b.items)
<1>. DEFINE n == Len(b.items)
            f == [k \in 0 .. n |-> {k} \X EnvironmentParts(b, k)]
            S == {{k} \X EnvironmentParts(b, k) : k \in 0 .. n}
<1>1. b.items \in Seq(ItemType) /\ b.system \in ContentType /\ n \in Nat
  BY DEF BodyType
<1>2. ASSUME NEW k \in 0 .. n
      PROVE  IsFiniteSet(EnvironmentParts(b, k))
  <2>. DEFINE content == IF k = 0 THEN b.system
                         ELSE IF IsSystem(b.items[k]) THEN b.items[k].content ELSE <<>>
              P == {j \in DOMAIN content : content[j] = EnvPart}
  <2>1. content \in ContentType
    <3>1. k # 0 /\ IsSystem(b.items[k]) => b.items[k] \in TurnType
      BY <1>1 DEF IsSystem, ItemType
    <3>2. <<>> \in ContentType
      BY DEF ContentType
    <3>. QED
      BY <1>1, <3>1, <3>2 DEF TurnType
  <2>2. EnvironmentParts(b, k) = IF content = Odd THEN {} ELSE P
    BY DEF EnvironmentParts
  <2>. HIDE DEF content
  <2>3. CASE content = Odd
    BY <2>2, <2>3, FS_EmptySet
  <2>4. CASE content # Odd
    <3>1. content \in Seq(PartType)
      BY <2>1, <2>4 DEF ContentType
    <3>2. Len(content) \in Nat /\ P \in SUBSET (1 .. Len(content))
      BY <3>1
    <3>. HIDE DEF P
    <3>3. IsFiniteSet(P)
      BY <3>2, PositionsFinite
    <3>. QED
      BY <2>2, <2>4, <3>3
  <2>. QED
    BY <2>3, <2>4
<1>3. IsFiniteSet(S)
  <2>1. f \in Surjection(0 .. n, S)
    BY DEF Surjection
  <2>2. IsFiniteSet(0 .. n)
    BY <1>1, FS_Interval
  <2>. HIDE DEF f, S
  <2>. QED
    BY <2>1, <2>2, FS_Surjection
<1>4. \A T \in S : IsFiniteSet(T)
  <2>. SUFFICES ASSUME NEW k \in 0 .. n PROVE IsFiniteSet({k} \X EnvironmentParts(b, k))
    OBVIOUS
  <2>1. IsFiniteSet({k}) /\ IsFiniteSet(EnvironmentParts(b, k))
    BY <1>2, FS_Singleton
  <2>. QED
    BY <2>1, FS_Product
<1>5. EnvironmentPlaces(b) = UNION S /\ Environments(b) = Cardinality(UNION S)
  BY DEF EnvironmentPlaces, Environments
<1>. HIDE DEF S
<1>6. IsFiniteSet(EnvironmentPlaces(b)) /\ Environments(b) = Cardinality(EnvironmentPlaces(b))
  BY <1>3, <1>4, <1>5, FS_UNION
<1>7. Environments(b) \in Nat /\ (Environments(b) = 0 <=> EnvironmentPlaces(b) = {})
  BY <1>6, FS_EmptySet, FS_CardinalityType
<1>8. HasEnvironment(b.system) <=> \E j : j \in EnvironmentParts(b, 0)
  BY PartsAre DEF HasEnvironment, Range
<1>9. MessagesHaveEnvironment(b.items) <=> \E k \in DOMAIN b.items : \E j : j \in EnvironmentParts(b, k)
  <2>1. \A k \in DOMAIN b.items :
            IsSystem(b.items[k]) /\ HasEnvironment(b.items[k].content)
                <=> \E j : j \in EnvironmentParts(b, k)
    BY PartsAre DEF HasEnvironment, Range
  <2>. QED
    BY <2>1 DEF MessagesHaveEnvironment
<1>10. EnvironmentPlaces(b) = {}
        <=> \A k \in 0 .. Len(b.items) : ~ \E j : j \in EnvironmentParts(b, k)
  BY PlaceIs
<1>11. \A k : k \in 0 .. Len(b.items) <=> k = 0 \/ k \in DOMAIN b.items
  BY PartsAre
<1>12. EnvironmentPlaces(b) = {}
        <=> ~ HasEnvironment(b.system) /\ ~ MessagesHaveEnvironment(b.items)
  BY <1>8, <1>9, <1>10, <1>11
<1>. QED
  BY <1>6, <1>7, <1>12

(***************************************************************************)
(* Contents that move, with the parts they hold, keep the count.           *)
(***************************************************************************)
LEMMA PlacesMoved ==
    ASSUME NEW b \in BodyType, NEW d \in BodyType, NEW g,
           \A k \in 0 .. Len(b.items) : EnvironmentParts(b, k) # {} =>
                /\ g[k] \in 0 .. Len(d.items)
                /\ EnvironmentParts(d, g[k]) = EnvironmentParts(b, k),
           \A i, k \in 0 .. Len(b.items) : g[i] = g[k] => i = k,
           \A m \in 0 .. Len(d.items) : EnvironmentParts(d, m) # {} =>
                \E k \in 0 .. Len(b.items) : g[k] = m /\ EnvironmentParts(b, k) # {}
    PROVE  Environments(d) = Environments(b)
<1>. DEFINE P == EnvironmentPlaces(b)
            Q == EnvironmentPlaces(d)
            f == [p \in P |-> <<g[p[1]], p[2]>>]
<1>1. /\ IsFiniteSet(P) /\ Environments(b) = Cardinality(P) /\ Environments(d) = Cardinality(Q)
  BY PlacesCounted
<1>2. \A p : p \in P <=> \E k \in 0 .. Len(b.items) : \E j \in EnvironmentParts(b, k) : p = <<k, j>>
  BY PlaceIs
<1>3. \A p : p \in Q <=> \E k \in 0 .. Len(d.items) : \E j \in EnvironmentParts(d, k) : p = <<k, j>>
  BY PlaceIs
<1>. HIDE DEF P, Q
<1>4. ASSUME NEW p \in P
      PROVE  f[p] \in Q
  <2>1. PICK k, j : k \in 0 .. Len(b.items) /\ j \in EnvironmentParts(b, k) /\ p = <<k, j>>
    BY <1>2
  <2>2. f[p] = <<g[k], j>> /\ g[k] \in 0 .. Len(d.items) /\ j \in EnvironmentParts(d, g[k])
    BY <2>1
  <2>. QED
    BY <1>3, <2>2
<1>5. ASSUME NEW p \in P, NEW q \in P, f[p] = f[q]
      PROVE  p = q
  <2>1. PICK k, j : k \in 0 .. Len(b.items) /\ j \in EnvironmentParts(b, k) /\ p = <<k, j>>
    BY <1>2
  <2>2. PICK i, l : i \in 0 .. Len(b.items) /\ l \in EnvironmentParts(b, i) /\ q = <<i, l>>
    BY <1>2
  <2>3. <<g[k], j>> = <<g[i], l>>
    BY <1>5, <2>1, <2>2
  <2>4. g[k] = g[i] /\ j = l
    BY <2>3
  <2>. QED
    BY <2>1, <2>2, <2>4
<1>6. ASSUME NEW q \in Q
      PROVE  \E p \in P : f[p] = q
  <2>1. PICK m, j : m \in 0 .. Len(d.items) /\ j \in EnvironmentParts(d, m) /\ q = <<m, j>>
    BY <1>3
  <2>2. PICK k \in 0 .. Len(b.items) : g[k] = m /\ EnvironmentParts(b, k) # {}
    BY <2>1
  <2>3. <<k, j>> \in P
    <3>1. j \in EnvironmentParts(b, k)
      BY <2>1, <2>2
    <3>. QED
      BY <1>2, <3>1
  <2>4. f[<<k, j>>] = q
    BY <2>1, <2>2, <2>3
  <2>. QED
    BY <2>3, <2>4
<1>7. f \in [P -> Q]
  BY <1>4
<1>8. f \in Injection(P, Q) /\ f \in Surjection(P, Q)
  <2>. HIDE DEF f
  <2>1. f \in Injection(P, Q)
    BY <1>5, <1>7 DEF Injection, IsInjective
  <2>2. f \in Surjection(P, Q)
    BY <1>6, <1>7, Zenon DEF Surjection
  <2>. QED
    BY <2>1, <2>2
<1>. HIDE DEF f
<1>9. Cardinality(Q) = Cardinality(P)
  BY <1>1, <1>8, FS_Surjection
<1>. QED
  BY <1>1, <1>9

(***************************************************************************)
(* One place in all.                                                       *)
(***************************************************************************)
LEMMA OnePlace ==
    ASSUME NEW b \in BodyType, NEW m \in 0 .. Len(b.items), NEW j,
           EnvironmentParts(b, m) = {j},
           \A k \in 0 .. Len(b.items) : k # m => EnvironmentParts(b, k) = {}
    PROVE  Environments(b) = 1
<1>1. EnvironmentPlaces(b) = {<<m, j>>}
  <2>1. \A p : p \in EnvironmentPlaces(b) <=> p = <<m, j>>
    BY PlaceIs
  <2>. QED
    BY <2>1
<1>. QED
  BY <1>1, PlacesCounted, FS_Singleton

\* Its protocol's place is the only one where a client keeps its environment.
Kept(b, protocol) ==
    \/ b.key = "input"
    \/ IF protocol \in {"claude", "gemini"} THEN ~ MessagesHaveEnvironment(b.items)
       ELSE ~ HasEnvironment(b.system)

\* A value of another type stands where the environment would go.
Blocked(b) ==
    LET k == SelectInSeq(b.items, IsSystem)
    IN  b.system = Odd \/ (k # 0 /\ b.items[k].content = Odd)

(***************************************************************************)
(* ensureEnvironment leaves a body that has its environment, or whose      *)
(* place is taken, and adds one to every other.                            *)
(***************************************************************************)
LEMMA EnvironmentAdded ==
    ASSUME NEW b \in BodyType, NEW protocol, Kept(b, protocol)
    PROVE  LET p == EnsureEnvironment(b, protocol)
           IN  \/ p = b /\ (Environments(b) # 0 \/ Blocked(b))
               \/ Environments(b) = 0 /\ Environments(p) = 1
<1>. DEFINE p == EnsureEnvironment(b, protocol)
            n == Len(b.items)
            first == SelectInSeq(b.items, IsSystem)
<1>0. /\ b.items \in Seq(ItemType) /\ b.system \in ContentType
      /\ n \in Nat /\ DOMAIN b.items = 1 .. n
  BY DEF BodyType
<1>1. Environments(b) = 0
        <=> ~ HasEnvironment(b.system) /\ ~ MessagesHaveEnvironment(b.items)
  BY PlacesCounted
<1>2. CASE Placed(b, protocol)
  <2>1. p = b
    BY <1>2, PlacedStays
  <2>2. HasEnvironment(b.system) \/ MessagesHaveEnvironment(b.items) \/ Blocked(b)
    BY <1>2 DEF Placed, Blocked
  <2>. QED
    BY <1>1, <2>1, <2>2
<1>3. CASE ~ Placed(b, protocol)
  <2>1. Environments(b) = 0
    BY <1>1, <1>3 DEF Placed, Kept
  <2>2. \A k \in 0 .. n : EnvironmentParts(b, k) = {}
    <3>1. EnvironmentPlaces(b) = {}
      BY <2>1, PlacesCounted, FS_EmptySet
    <3>. QED
      BY <3>1, PlaceIs
  <2>3. p \in BodyType
    BY EnvironmentPlaced
  <2>4. EnvPart \in PartType
    BY BodyAssumption DEF EnvPart, PartType
  <2>5. CASE b.key = "input" \/ protocol \in {"claude", "gemini"}
    <3>. DEFINE m == Len(b.system) + 1
    <3>1. p = [b EXCEPT !.system = Append(@, EnvPart)] /\ b.system # Odd
      BY <1>3, <2>5 DEF EnsureEnvironment, AddToSystem, Placed
    <3>2. b.system \in Seq(PartType)
      BY <1>0, <3>1 DEF ContentType
    <3>3. p.items = b.items /\ p.system = Append(b.system, EnvPart)
      BY <3>1 DEF BodyType
    <3>4. Append(b.system, EnvPart) \in Seq(PartType)
      BY <2>4, <3>2
    <3>5. p.system # Odd
      BY <3>3, <3>4, BodyAssumption
    <3>6. \A j : j \in EnvironmentParts(p, 0) <=> j = m
      <4>1. \A j : j \in EnvironmentParts(p, 0) <=> j \in DOMAIN p.system /\ p.system[j] = EnvPart
        BY <2>3, <3>5, PartsAre
      <4>2. \A j \in DOMAIN b.system : b.system[j] # EnvPart
        <5>1. \A j : j \notin EnvironmentParts(b, 0)
          BY <1>0, <2>2
        <5>. QED
          BY <3>1, <5>1, PartsAre
      <4>3. /\ DOMAIN p.system = 1 .. m /\ DOMAIN b.system = 1 .. Len(b.system)
            /\ Len(b.system) \in Nat /\ p.system[m] = EnvPart
            /\ \A j \in 1 .. Len(b.system) : p.system[j] = b.system[j]
        BY <2>4, <3>2, <3>3
      <4>4. \A j : j \in 1 .. m <=> j \in 1 .. Len(b.system) \/ j = m
        BY <4>3
      <4>. QED
        BY <4>1, <4>2, <4>3, <4>4
    <3>7. \A k \in 0 .. Len(p.items) : k # 0 => EnvironmentParts(p, k) = {}
      <4>. SUFFICES ASSUME NEW k \in 0 .. Len(p.items), k # 0 PROVE EnvironmentParts(p, k) = {}
        OBVIOUS
      <4>1. EnvironmentParts(p, k) = EnvironmentParts(b, k)
        BY <3>3 DEF EnvironmentParts
      <4>. QED
        BY <2>2, <3>3, <4>1
    <3>8. EnvironmentParts(p, 0) = {m} /\ 0 \in 0 .. Len(p.items)
      BY <1>0, <3>3, <3>6
    <3>. HIDE DEF m, p
    <3>. DEFINE place == 0
    <3>9. /\ place \in 0 .. Len(p.items) /\ EnvironmentParts(p, place) = {m}
          /\ \A k \in 0 .. Len(p.items) : k # place => EnvironmentParts(p, k) = {}
      BY <3>7, <3>8
    <3>. HIDE DEF place
    <3>10. Environments(p) = 1
      BY <2>3, <3>9, OnePlace
    <3>. QED
      BY <2>1, <3>10 DEF p
  <2>6. CASE ~ (b.key = "input" \/ protocol \in {"claude", "gemini"}) /\ first = 0
    <3>1. p = [b EXCEPT !.items = <<EnvironmentTurn>> \o @]
      BY <1>3, <2>6 DEF EnsureEnvironment, AddToMessages, Placed
    <3>2. EnvironmentTurn \in TurnType
      BY <2>4 DEF EnvironmentTurn, Turn, TurnType, ContentType
    <3>3. EnvironmentTurn # Junk /\ EnvironmentTurn.role = "system"
          /\ EnvironmentTurn.content = <<EnvPart>>
      BY <3>2, BodyAssumption DEF EnvironmentTurn, Turn
    <3>4. <<EnvPart>> # Odd
      <4>1. <<EnvPart>> \in Seq(PartType)
        BY <2>4
      <4>. QED
        BY <4>1, BodyAssumption
    <3>5. p.items = <<EnvironmentTurn>> \o b.items /\ p.system = b.system
      BY <3>1 DEF BodyType
    <3>6. /\ Len(p.items) = n + 1 /\ DOMAIN p.items = 1 .. n + 1
          /\ p.items[1] = EnvironmentTurn
          /\ \A k \in 1 .. n : p.items[k + 1] = b.items[k]
      <4>1. EnvironmentTurn \in ItemType
        BY <3>2 DEF ItemType
      <4>. DEFINE old == b.items
      <4>2. p.items = <<EnvironmentTurn>> \o old /\ old \in Seq(ItemType) /\ n = Len(old)
        BY <1>0, <3>5
      <4>. HIDE DEF old, n, p
      <4>3. /\ Len(p.items) = n + 1 /\ DOMAIN p.items = 1 .. n + 1
            /\ p.items[1] = EnvironmentTurn
            /\ \A k \in 1 .. n : p.items[k + 1] = old[k]
        BY <4>1, <4>2, Prepended
      <4>. QED
        BY <4>3 DEF old
    <3>7. \A j : j \in EnvironmentParts(p, 1) <=> j = 1
      <4>1. IsSystem(p.items[1]) /\ p.items[1].content = <<EnvPart>> /\ 1 \in DOMAIN p.items
        BY <1>0, <3>3, <3>6 DEF IsSystem
      <4>2. \A j : j \in EnvironmentParts(p, 1) <=> j \in DOMAIN <<EnvPart>> /\ <<EnvPart>>[j] = EnvPart
        BY <2>3, <3>4, <4>1, PartsAre
      <4>. QED
        BY <4>2
    <3>8. \A k \in 0 .. Len(p.items) : k # 1 => EnvironmentParts(p, k) = {}
      <4>. SUFFICES ASSUME NEW k \in 0 .. Len(p.items), k # 1 PROVE EnvironmentParts(p, k) = {}
        OBVIOUS
      <4>1. CASE k = 0
        <5>1. EnvironmentParts(p, 0) = EnvironmentParts(b, 0)
          BY <3>5 DEF EnvironmentParts
        <5>. QED
          BY <1>0, <2>2, <4>1, <5>1
      <4>2. CASE k # 0
        <5>1. k - 1 \in 1 .. n /\ (k - 1) + 1 = k /\ k - 1 # 0 /\ k - 1 \in 0 .. n
          BY <1>0, <3>6, <4>2
        <5>2. p.items[k] = b.items[k - 1]
          BY <3>6, <5>1
        <5>3. EnvironmentParts(p, k) = EnvironmentParts(b, k - 1)
          BY <4>2, <5>1, <5>2 DEF EnvironmentParts
        <5>. QED
          BY <2>2, <5>1, <5>3
      <4>. QED
        BY <4>1, <4>2
    <3>. DEFINE place == 1
    <3>9. /\ place \in 0 .. Len(p.items) /\ EnvironmentParts(p, place) = {1}
          /\ \A k \in 0 .. Len(p.items) : k # place => EnvironmentParts(p, k) = {}
      BY <1>0, <3>6, <3>7, <3>8
    <3>. HIDE DEF place, p
    <3>10. Environments(p) = 1
      BY <2>3, <3>9, OnePlace
    <3>. QED
      BY <2>1, <3>10 DEF p
  <2>7. CASE ~ (b.key = "input" \/ protocol \in {"claude", "gemini"}) /\ first # 0
    <3>. DEFINE t == b.items[first]
                m == Len(t.content) + 1
                u == WithEnvironment(t)
    <3>1. /\ p = [b EXCEPT !.items[first].content = Append(@, EnvPart)]
          /\ t.content # Odd
      BY <1>3, <2>7 DEF EnsureEnvironment, AddToMessages, Placed
    <3>2. first \in DOMAIN b.items /\ IsSystem(t) /\ first # 0
      BY <1>0, <2>7, FirstSystem
    <3>3. t \in TurnType
      BY <1>0, <3>2 DEF IsSystem, ItemType
    <3>4. t.content \in Seq(PartType)
      BY <3>1, <3>3 DEF TurnType, ContentType
    <3>5. u = [t EXCEPT !.content = Append(t.content, EnvPart)]
      BY <3>3 DEF WithEnvironment, TurnType
    <3>. HIDE DEF first
    <3>6. u.content = Append(t.content, EnvPart) /\ u.role = t.role /\ u \in TurnType
      <4>. DEFINE new == Append(t.content, EnvPart)
      <4>1. new \in Seq(PartType)
        BY <2>4, <3>4
      <4>2. new \in ContentType
        BY <4>1 DEF ContentType
      <4>3. u = [t EXCEPT !.content = new]
        BY <3>5
      <4>. HIDE DEF new, u, t
      <4>4. u.content = new /\ u.role = t.role /\ u \in TurnType
        BY <3>3, <4>2, <4>3 DEF TurnType
      <4>. QED
        BY <4>4 DEF new
    <3>7. p.items = [b.items EXCEPT ![first] = u] /\ p.system = b.system
      BY <3>1, <3>2, <3>3, <3>5 DEF BodyType, TurnType
    <3>8. u.content # Odd /\ IsSystem(u)
      <4>1. Append(t.content, EnvPart) \in Seq(PartType)
        BY <2>4, <3>4
      <4>2. u # Junk
        BY <3>6, BodyAssumption
      <4>. QED
        BY <3>2, <3>6, <4>1, <4>2, BodyAssumption DEF IsSystem
    <3>. HIDE DEF u
    <3>9. /\ DOMAIN p.items = DOMAIN b.items /\ Len(p.items) = n /\ p.items[first] = u
          /\ \A k \in DOMAIN b.items : k # first => p.items[k] = b.items[k]
      BY <1>0, <3>2, <3>6, <3>7 DEF ItemType
    <3>10. \A j : j \in EnvironmentParts(p, first) <=> j = m
      <4>1. \A j : j \in EnvironmentParts(p, first)
                <=> j \in DOMAIN u.content /\ u.content[j] = EnvPart
        BY <2>3, <3>2, <3>8, <3>9, PartsAre
      <4>2. \A j \in DOMAIN t.content : t.content[j] # EnvPart
        <5>1. \A j : j \notin EnvironmentParts(b, first)
          BY <1>0, <2>2, <3>2
        <5>. QED
          BY <3>1, <3>2, <5>1, PartsAre
      <4>. DEFINE old == t.content
                  new == u.content
      <4>3. old \in Seq(PartType) /\ new = Append(old, EnvPart) /\ m = Len(old) + 1
        BY <3>4, <3>6
      <4>. HIDE DEF old, new, m
      <4>4. /\ DOMAIN new = 1 .. m /\ DOMAIN old = 1 .. Len(old)
            /\ Len(old) \in Nat /\ new[m] = EnvPart
            /\ \A j \in 1 .. Len(old) : new[j] = old[j]
        BY <2>4, <4>3
      <4>5. \A j : j \in 1 .. m <=> j \in 1 .. Len(old) \/ j = m
        BY <4>3, <4>4
      <4>. QED
        BY <4>1, <4>2, <4>4, <4>5 DEF old, new
    <3>11. \A k \in 0 .. Len(p.items) : k # first => EnvironmentParts(p, k) = {}
      <4>. SUFFICES ASSUME NEW k \in 0 .. Len(p.items), k # first PROVE EnvironmentParts(p, k) = {}
        OBVIOUS
      <4>1. EnvironmentParts(p, k) = EnvironmentParts(b, k)
        <5>1. k # 0 => p.items[k] = b.items[k]
          BY <1>0, <3>9
        <5>. HIDE DEF p
        <5>2. CASE k = 0
          BY <3>7, <5>2 DEF EnvironmentParts
        <5>3. CASE k # 0
          <6>1. p.items[k] = b.items[k]
            BY <5>1, <5>3
          <6>2. ASSUME NEW body1, k # 0
                PROVE  EnvironmentParts(body1, k) =
                        LET content == IF IsSystem(body1.items[k]) THEN body1.items[k].content ELSE <<>>
                        IN  IF content = Odd THEN {} ELSE {j \in DOMAIN content : content[j] = EnvPart}
            BY <6>2 DEF EnvironmentParts
          <6>. QED
            BY <5>3, <6>1, <6>2, Zenon
        <5>. QED
          BY <5>2, <5>3
      <4>. QED
        BY <2>2, <3>9, <4>1
    <3>12. first \in 0 .. Len(p.items) /\ EnvironmentParts(p, first) = {m}
      BY <1>0, <3>2, <3>9, <3>10
    <3>. HIDE DEF p, m
    <3>13. Environments(p) = 1
      BY <2>3, <3>11, <3>12, OnePlace
    <3>. QED
      BY <2>1, <3>13 DEF p
  <2>. QED
    BY <2>5, <2>6, <2>7
<1>. QED
  BY <1>2, <1>3

(***************************************************************************)
(* The count is one of turns and system prompt.                            *)
(***************************************************************************)
LEMMA EnvironmentsOf ==
    ASSUME NEW b, NEW d, d.items = b.items, d.system = b.system
    PROVE  Environments(d) = Environments(b)
<1>1. \A k : EnvironmentParts(d, k) = EnvironmentParts(b, k)
  BY DEF EnvironmentParts
<1>2. EnvironmentPlaces(d) = EnvironmentPlaces(b)
  <2>1. \A p : p \in EnvironmentPlaces(d) <=> p \in EnvironmentPlaces(b)
    BY <1>1, PlaceIs
  <2>. QED
    BY <2>1
<1>. QED
  BY <1>2 DEF Environments, EnvironmentPlaces

(***************************************************************************)
(* Dropping turns without an environment keeps the count.                  *)
(***************************************************************************)
LEMMA EnvironmentThinned ==
    ASSUME NEW b \in BodyType, NEW d \in BodyType, d.system = b.system,
           NEW P \in SUBSET (DOMAIN b.items), Len(d.items) = Cardinality(P),
           \A k \in DOMAIN d.items :
                /\ IsSystem(d.items[k]) <=> IsSystem(b.items[Nth(P, k)])
                /\ IsSystem(d.items[k]) => d.items[k].content = b.items[Nth(P, k)].content,
           \A k \in DOMAIN b.items \ P :
                ~ (IsSystem(b.items[k]) /\ HasEnvironment(b.items[k].content))
    PROVE  Environments(b) = Environments(d)
<1>. DEFINE n == Len(d.items)
            g == [k \in 0 .. n |-> IF k = 0 THEN 0 ELSE Nth(P, k)]
<1>1. /\ b.items \in Seq(ItemType) /\ d.items \in Seq(ItemType) /\ n \in Nat
      /\ DOMAIN d.items = 1 .. n /\ DOMAIN b.items = 1 .. Len(b.items) /\ Len(b.items) \in Nat
  BY DEF BodyType
<1>2. P \in SUBSET Int /\ IsFiniteSet(P)
  BY <1>1, PositionsFinite
<1>3. \A k \in 1 .. n : Nth(P, k) \in P /\ Rank(P, Nth(P, k)) = k
  BY <1>2, NthRank
<1>4. \A p \in P : Rank(P, p) \in 1 .. n /\ Nth(P, Rank(P, p)) = p
  BY <1>2, RankOrder, NthRank
<1>5. ASSUME NEW k \in 0 .. n
      PROVE  g[k] \in 0 .. Len(b.items) /\ EnvironmentParts(b, g[k]) = EnvironmentParts(d, k)
  <2>1. CASE k = 0
    <3>1. EnvironmentParts(b, 0) = EnvironmentParts(d, 0)
      BY DEF EnvironmentParts
    <3>. QED
      BY <1>1, <2>1, <3>1
  <2>2. CASE k # 0
    <3>. DEFINE p == Nth(P, k)
    <3>1. k \in DOMAIN d.items /\ g[k] = p /\ p \in DOMAIN b.items
      BY <1>1, <1>3, <2>2
    <3>2. /\ IsSystem(d.items[k]) <=> IsSystem(b.items[p])
          /\ IsSystem(d.items[k]) => d.items[k].content = b.items[p].content
      BY <3>1
    <3>. HIDE DEF p, g
    <3>3. \A j : j \in EnvironmentParts(b, p) <=> j \in EnvironmentParts(d, k)
      <4>1. \A j : j \in EnvironmentParts(b, p)
                <=> /\ IsSystem(b.items[p]) /\ b.items[p].content # Odd
                    /\ j \in DOMAIN b.items[p].content /\ b.items[p].content[j] = EnvPart
        BY <3>1, PartsAre
      <4>2. \A j : j \in EnvironmentParts(d, k)
                <=> /\ IsSystem(d.items[k]) /\ d.items[k].content # Odd
                    /\ j \in DOMAIN d.items[k].content /\ d.items[k].content[j] = EnvPart
        BY <3>1, PartsAre
      <4>3. CASE IsSystem(d.items[k])
        BY <3>2, <4>1, <4>2, <4>3
      <4>4. CASE ~ IsSystem(d.items[k])
        BY <3>2, <4>1, <4>2, <4>4
      <4>. QED
        BY <4>3, <4>4
    <3>4. EnvironmentParts(b, p) = EnvironmentParts(d, k)
      BY <3>3
    <3>5. p \in 0 .. Len(b.items)
      BY <1>1, <3>1
    <3>. QED
      BY <3>1, <3>4, <3>5
  <2>. QED
    BY <2>1, <2>2
<1>6. ASSUME NEW i \in 0 .. n, NEW k \in 0 .. n, g[i] = g[k]
      PROVE  i = k
  <2>1. \A m \in 1 .. n : Nth(P, m) # 0
    BY <1>1, <1>3
  <2>2. CASE i = 0 \/ k = 0
    BY <1>6, <2>1, <2>2
  <2>3. CASE i # 0 /\ k # 0
    <3>1. i \in 1 .. n /\ k \in 1 .. n /\ Nth(P, i) = Nth(P, k)
      BY <1>6, <2>3
    <3>. QED
      BY <1>3, <3>1
  <2>. QED
    BY <2>2, <2>3
<1>7. ASSUME NEW m \in 0 .. Len(b.items), EnvironmentParts(b, m) # {}
      PROVE  \E k \in 0 .. n : g[k] = m /\ EnvironmentParts(d, k) # {}
  <2>1. \E k \in 0 .. n : g[k] = m
    <3>1. CASE m = 0
      BY <1>1, <3>1
    <3>2. CASE m # 0
      <4>1. m \in DOMAIN b.items
        BY <1>1, <3>2
      <4>2. IsSystem(b.items[m]) /\ HasEnvironment(b.items[m].content)
        BY <1>7, <4>1, PartsAre DEF HasEnvironment, Range
      <4>3. m \in P
        BY <4>1, <4>2
      <4>. DEFINE k == Rank(P, m)
      <4>4. k \in 1 .. n /\ Nth(P, k) = m
        BY <1>4, <4>3
      <4>. HIDE DEF k
      <4>5. k \in 0 .. n /\ g[k] = m
        BY <1>1, <4>4
      <4>. QED
        BY <4>5
    <3>. QED
      BY <3>1, <3>2
  <2>. HIDE DEF g
  <2>. QED
    BY <1>5, <1>7, <2>1
<1>. HIDE DEF g
<1>8. /\ \A k \in 0 .. Len(d.items) : EnvironmentParts(d, k) # {} =>
            /\ g[k] \in 0 .. Len(b.items)
            /\ EnvironmentParts(b, g[k]) = EnvironmentParts(d, k)
      /\ \A i, k \in 0 .. Len(d.items) : g[i] = g[k] => i = k
      /\ \A m \in 0 .. Len(b.items) : EnvironmentParts(b, m) # {} =>
            \E k \in 0 .. Len(d.items) : g[k] = m /\ EnvironmentParts(d, k) # {}
  BY <1>5, <1>6, <1>7
<1>. QED
  BY <1>8, PlacesMoved

(***************************************************************************)
(* stripReasoningItems keeps the count.                                    *)
(***************************************************************************)
LEMMA ReasoningCounted ==
    ASSUME NEW b \in BodyType, EnvironmentApart(b.items)
    PROVE  Environments([b EXCEPT !.items = StripReasoningItems(@)]) = Environments(b)
<1>. DEFINE items == b.items
            P == {k \in DOMAIN items : items[k] = Junk \/ items[k].type # "reasoning"}
            keep == Select(items, P)
            new == StripReasoningItems(items)
            d == [b EXCEPT !.items = StripReasoningItems(@)]
<1>1. items \in Seq(ItemType) /\ new \in Seq(ItemType)
  BY ReasoningStripped DEF BodyType
<1>2. new = [k \in DOMAIN keep |-> IF keep[k] = Junk THEN Junk ELSE [keep[k] EXCEPT !.sealed = FALSE]]
  BY DEF StripReasoningItems, Keep
<1>3. P \in SUBSET (DOMAIN items)
  OBVIOUS
<1>4. \A k \in DOMAIN items \ P : ~ (IsSystem(items[k]) /\ HasEnvironment(items[k].content))
  BY DEF EnvironmentApart
<1>5. d \in BodyType /\ d.system = b.system /\ d.items = new
  <2>. HIDE DEF new
  <2>1. d = [b EXCEPT !.items = new]
    BY DEF new
  <2>. QED
    BY <1>1, <2>1 DEF BodyType
<1>6. b.items = items
  OBVIOUS
<1>. HIDE DEF P, d, items
<1>7. P \in SUBSET Int /\ IsFiniteSet(P)
  BY <1>1, <1>3, SelectHas
<1>8. /\ DOMAIN keep = 1 .. Cardinality(P) /\ Cardinality(P) \in Nat
      /\ \A k \in DOMAIN keep : Nth(P, k) \in P /\ keep[k] = items[Nth(P, k)]
  BY <1>7, NthRank, SelectElements DEF Select
<1>. HIDE DEF keep, new
<1>9. DOMAIN new = DOMAIN keep /\ Len(new) = Cardinality(P)
  BY <1>1, <1>2, <1>8
<1>10. ASSUME NEW k \in DOMAIN new
       PROVE  /\ IsSystem(new[k]) <=> IsSystem(items[Nth(P, k)])
              /\ IsSystem(new[k]) => new[k].content = items[Nth(P, k)].content
  <2>. DEFINE t == items[Nth(P, k)]
  <2>1. t \in ItemType /\ new[k] = IF t = Junk THEN Junk ELSE [t EXCEPT !.sealed = FALSE]
    <3>1. k \in DOMAIN keep
      BY <1>9
    <3>2. Nth(P, k) \in DOMAIN items /\ keep[k] = t
      BY <1>3, <1>8, <3>1
    <3>3. new[k] = IF keep[k] = Junk THEN Junk ELSE [keep[k] EXCEPT !.sealed = FALSE]
      BY <1>2, <3>1
    <3>4. t \in ItemType
      BY <1>1, <3>2
    <3>. QED
      BY <3>2, <3>3, <3>4
  <2>. HIDE DEF t
  <2>2. CASE t = Junk
    BY <2>1, <2>2 DEF IsSystem, t
  <2>3. CASE t # Junk
    <3>. DEFINE u == [t EXCEPT !.sealed = FALSE]
    <3>1. t \in TurnType
      BY <2>1, <2>3 DEF ItemType
    <3>2. u \in TurnType /\ u.role = t.role /\ u.content = t.content
      BY <3>1 DEF TurnType
    <3>3. u # Junk /\ new[k] = u
      BY <2>1, <2>3, <3>2, BodyAssumption
    <3>. HIDE DEF u
    <3>. QED
      BY <2>3, <3>2, <3>3 DEF IsSystem, t
  <2>. QED
    BY <2>2, <2>3
<1>11. Environments(b) = Environments(d)
  <2>1. /\ P \in SUBSET (DOMAIN b.items) /\ Len(d.items) = Cardinality(P)
        /\ \A k \in DOMAIN d.items :
                /\ IsSystem(d.items[k]) <=> IsSystem(b.items[Nth(P, k)])
                /\ IsSystem(d.items[k]) => d.items[k].content = b.items[Nth(P, k)].content
        /\ \A k \in DOMAIN b.items \ P :
                ~ (IsSystem(b.items[k]) /\ HasEnvironment(b.items[k].content))
    BY <1>3, <1>4, <1>5, <1>6, <1>9, <1>10
  <2>. QED
    BY <1>5, <2>1, EnvironmentThinned
<1>. QED
  BY <1>11 DEF d

(***************************************************************************)
(* And so does stripAdditionalTools.                                       *)
(***************************************************************************)
LEMMA AdditionalCounted ==
    ASSUME NEW b \in BodyType, b.key = "input", EnvironmentApart(b.items)
    PROVE  /\ Environments(StripAdditionalTools(b)) = Environments(b)
           /\ EnvironmentApart(StripAdditionalTools(b).items)
<1>. DEFINE P == {k \in DOMAIN b.items :
                    ~ (b.items[k] # Junk /\ b.items[k].type = "additional_tools")}
            keep == Select(b.items, P)
            d == StripAdditionalTools(b)
<1>1. b.items \in Seq(ItemType)
  BY DEF BodyType
<1>2. d \in BodyType /\ d = [b EXCEPT !.items = d.items, !.tools = d.tools]
  BY AdditionalStripped
<1>3. d.items = keep
  BY DEF StripAdditionalTools, Keep, BodyType
<1>4. P \in SUBSET (DOMAIN b.items)
  OBVIOUS
<1>5. \A k \in DOMAIN b.items \ P : ~ (IsSystem(b.items[k]) /\ HasEnvironment(b.items[k].content))
  BY DEF EnvironmentApart
<1>. HIDE DEF P, d
<1>6. d.system = b.system
  BY <1>2 DEF BodyType
<1>7. P \in SUBSET Int /\ IsFiniteSet(P) /\ keep \in Seq(ItemType)
  BY <1>1, <1>4, SelectHas
<1>8. /\ DOMAIN keep = 1 .. Cardinality(P) /\ Cardinality(P) \in Nat
      /\ \A k \in DOMAIN keep : Nth(P, k) \in P /\ keep[k] = b.items[Nth(P, k)]
  BY <1>7, NthRank, SelectElements DEF Select
<1>. HIDE DEF keep
<1>9. Len(d.items) = Cardinality(P)
  BY <1>3, <1>7, <1>8
<1>10. \A k \in DOMAIN d.items :
            /\ IsSystem(d.items[k]) <=> IsSystem(b.items[Nth(P, k)])
            /\ IsSystem(d.items[k]) => d.items[k].content = b.items[Nth(P, k)].content
  BY <1>3, <1>8
<1>11. Environments(b) = Environments(d)
  BY <1>2, <1>4, <1>5, <1>6, <1>9, <1>10, EnvironmentThinned
<1>12. EnvironmentApart(d.items)
  BY <1>3, <1>4, <1>8 DEF EnvironmentApart
<1>. QED
  BY <1>11, <1>12 DEF d

(***************************************************************************)
(* After the environment is placed, nothing in the shaping of a Responses  *)
(* body adds or drops one, or brings one to a turn that carries tools.     *)
(***************************************************************************)
LEMMA InputShaped ==
    ASSUME NEW b \in BodyType, NEW c \in ConfigType, NEW protocol, NEW wire,
           b.key = "input", EnvironmentApart(b.items)
    PROVE  LET s == ApplyFingerprintBody(b, c, protocol, wire)
           IN  /\ s \in BodyType /\ s.key = "input" /\ EnvironmentApart(s.items)
               /\ Environments(s) = Environments(EnsureEnvironment(b, protocol))
<1>. DEFINE st == Streamed(b, c, protocol)
            placed == EnsureEnvironment(b, protocol)
            plain == [st EXCEPT !.store = FALSE, !.caps = NormalizeMaxOutputTokens(@)]
            readable == IF c.stripReasoning
                        THEN [plain EXCEPT !.items = StripReasoningItems(@)] ELSE plain
            lifted == IF wire /\ c.stripAdditional
                      THEN StripAdditionalTools(readable) ELSE readable
            s == [lifted EXCEPT !.tools = AppendMissing(@, FingerprintTools(c))]
<1>1. ApplyFingerprintBody(b, c, protocol, wire) = s
  BY DEF ApplyFingerprintBody, Streamed, ShapeResponses
<1>2. /\ st \in BodyType /\ st.key = "input" /\ st.items = b.items
      /\ st.items = placed.items /\ st.system = placed.system
  <2>1. EnsureEnvironment(b, protocol).items = b.items
    BY EnvironmentPlaced
  <2>. QED
    BY <2>1, StreamedType
<1>. HIDE DEF st, placed
<1>3. NormalizeMaxOutputTokens(st.caps) \in [output : CapType, completion : CapType, chat : CapType]
  <2>1. st.caps \in [output : CapType, completion : CapType, chat : CapType]
    BY <1>2 DEF BodyType
  <2>. QED
    BY <2>1 DEF NormalizeMaxOutputTokens, CapType
<1>4. /\ plain \in BodyType /\ plain.key = "input" /\ plain.items = b.items
      /\ plain.items = placed.items /\ plain.system = placed.system
  <2>1. plain = [st EXCEPT !.store = FALSE, !.caps = NormalizeMaxOutputTokens(st.caps)]
    BY <1>2 DEF BodyType
  <2>. QED
    BY <1>2, <1>3, <2>1 DEF BodyType
<1>. HIDE DEF plain
<1>5. Environments(plain) = Environments(placed)
  BY <1>4, EnvironmentsOf
<1>6. /\ readable \in BodyType /\ readable.key = "input" /\ EnvironmentApart(readable.items)
      /\ Environments(readable) = Environments(plain)
  <2>1. CASE c.stripReasoning
    <3>1. b.items \in Seq(ItemType)
      BY DEF BodyType
    <3>2. /\ StripReasoningItems(b.items) \in Seq(ItemType)
          /\ EnvironmentApart(StripReasoningItems(b.items))
      BY <3>1, ReasoningStripped
    <3>3. Environments([plain EXCEPT !.items = StripReasoningItems(@)]) = Environments(plain)
      BY <1>4, ReasoningCounted
    <3>4. readable = [plain EXCEPT !.items = StripReasoningItems(@)]
      BY <2>1
    <3>. HIDE DEF readable
    <3>5. readable = [plain EXCEPT !.items = StripReasoningItems(b.items)]
      BY <1>4, <3>4 DEF BodyType
    <3>6. readable \in BodyType /\ readable.key = "input" /\ readable.items = StripReasoningItems(b.items)
      BY <1>4, <3>2, <3>5 DEF BodyType
    <3>. QED
      BY <3>2, <3>3, <3>4, <3>6
  <2>2. CASE ~ c.stripReasoning
    BY <1>4, <2>2
  <2>. QED
    BY <2>1, <2>2
<1>. HIDE DEF readable
<1>7. /\ lifted \in BodyType /\ lifted.key = "input" /\ EnvironmentApart(lifted.items)
      /\ Environments(lifted) = Environments(readable)
  <2>1. CASE wire /\ c.stripAdditional
    <3>. DEFINE l == StripAdditionalTools(readable)
    <3>1. l \in BodyType /\ l = [readable EXCEPT !.items = l.items, !.tools = l.tools]
      BY <1>6, AdditionalStripped
    <3>2. Environments(l) = Environments(readable) /\ EnvironmentApart(l.items)
      BY <1>6, AdditionalCounted
    <3>. HIDE DEF l
    <3>3. l.key = "input"
      BY <1>6, <3>1 DEF BodyType
    <3>. QED
      BY <2>1, <3>1, <3>2, <3>3 DEF l
  <2>2. CASE ~ (wire /\ c.stripAdditional)
    BY <1>6, <2>2
  <2>. QED
    BY <2>1, <2>2
<1>. HIDE DEF lifted
<1>8. s \in BodyType /\ s.key = "input" /\ s.items = lifted.items /\ s.system = lifted.system
  <2>. DEFINE tools == AppendMissing(lifted.tools, FingerprintTools(c))
  <2>1. tools \in Seq(ToolType)
    BY <1>7, AppendMissingTwice, FingerprintToolsType DEF BodyType
  <2>2. s = [lifted EXCEPT !.tools = tools]
    BY <1>7 DEF BodyType
  <2>. HIDE DEF tools, s
  <2>3. s \in BodyType
    BY <1>7, <2>1, <2>2, BodyMembers
  <2>. QED
    BY <1>7, <2>2, <2>3 DEF BodyType
<1>. HIDE DEF s
<1>9. Environments(s) = Environments(lifted)
  BY <1>8, EnvironmentsOf
<1>. QED
  BY <1>1, <1>5, <1>6, <1>7, <1>8, <1>9 DEF placed

(***************************************************************************)
(* What the interceptor sends holds what ensureEnvironment made of the     *)
(* client's body.                                                          *)
(***************************************************************************)
LEMMA InterceptedCount ==
    ASSUME BodyInv, NEW c \in Configs
    PROVE  LET own == Environments(body)
               s == ApplyFingerprintBody(body, c, source, opening.wire)
           IN  \/ Environments(s) = own /\ (own # 0 \/ Blocked(body))
               \/ Environments(s) = 1 /\ own = 0
<1>. DEFINE src == source
            w == opening.wire
            placed == EnsureEnvironment(body, src)
            s == ApplyFingerprintBody(body, c, src, w)
<1>1. body \in BodyType /\ c \in ConfigType /\ body.key \in {"messages", "input", "contents"}
  BY OpeningFacts DEF BodyInv, BodyType
<1>2. src = "gemini" <=> body.key = "contents"
  BY OpeningFacts
<1>3. Kept(body, src)
  <2>1. Range(<<>>) = {}
    BY DEF Range
  <2>2. ~ HasEnvironment(<<>>)
    BY <2>1 DEF HasEnvironment
  <2>3. CASE body.key = "input"
    BY <2>3 DEF Kept
  <2>4. CASE src \in {"claude", "gemini"}
    BY <2>4 DEF Kept, BodyInv, Beside
  <2>5. CASE body.key # "input" /\ src \notin {"claude", "gemini"}
    <3>1. body.system = <<>>
      BY <1>1, <1>2, <2>5 DEF BodyInv
    <3>. QED
      BY <2>2, <2>5, <3>1 DEF Kept
  <2>. QED
    BY <2>3, <2>4, <2>5
<1>4. body.key = "input" => EnvironmentApart(body.items)
  BY DEF BodyInv
<1>. HIDE DEF src, w
<1>5. \/ placed = body /\ (Environments(body) # 0 \/ Blocked(body))
      \/ Environments(body) = 0 /\ Environments(placed) = 1
  BY <1>1, <1>3, EnvironmentAdded
<1>6. Environments(s) = Environments(placed)
  <2>1. CASE body.key = "messages"
    <3>1. s.items = placed.items /\ s.system = placed.system
      <4>1. src # "gemini"
        BY <1>2, <2>1
      <4>. QED
        BY <1>1, <2>1, <4>1, MessagesShapedTwice
    <3>. HIDE DEF s, placed
    <3>. QED
      BY <3>1, EnvironmentsOf
  <2>2. CASE body.key = "contents"
    <3>1. s.items = placed.items /\ s.system = placed.system
      <4>1. src = "gemini"
        BY <1>2, <2>2
      <4>. QED
        BY <1>1, <2>2, <4>1, ContentsShapedTwice
    <3>. HIDE DEF s, placed
    <3>. QED
      BY <3>1, EnvironmentsOf
  <2>3. CASE body.key = "input"
    BY <1>1, <1>4, <2>3, InputShaped
  <2>. QED
    BY <1>1, <2>1, <2>2, <2>3
<1>. HIDE DEF placed, s
<1>7. \/ Environments(s) = Environments(body) /\ (Environments(body) # 0 \/ Blocked(body))
      \/ Environments(s) = 1 /\ Environments(body) = 0
  BY <1>5, <1>6
<1>. QED
  BY <1>7 DEF s, src, w

(***************************************************************************)
(* What the interceptor sends: a body under the client's key, of whose     *)
(* turns only the preamble has changed in Chat and Claude.                 *)
(***************************************************************************)
LEMMA InterceptedBody ==
    ASSUME BodyInv, NEW c \in Configs
    PROVE  LET s == ApplyFingerprintBody(body, c, source, opening.wire)
           IN  /\ s \in BodyType /\ s.key = body.key
               /\ s.key = "input" => EnvironmentApart(s.items)
               /\ s.key = "messages" /\ source # "claude" => s.system = <<>>
               /\ s.key = "messages" => Preambled(body.items, s.items)
<1>. DEFINE src == source
            w == opening.wire
            placed == EnsureEnvironment(body, src)
            s == ApplyFingerprintBody(body, c, src, w)
<1>1. /\ body \in BodyType /\ c \in ConfigType /\ body.key \in {"messages", "input", "contents"}
      /\ src = "gemini" <=> body.key = "contents"
      /\ body.key = "messages" /\ src # "claude" => body.system = <<>>
      /\ body.key = "input" => EnvironmentApart(body.items)
  BY OpeningFacts DEF BodyInv, BodyType
<1>. HIDE DEF src, w
<1>2. CASE body.key = "messages"
  <2>1. /\ s \in BodyType /\ s.key = "messages"
        /\ s.items = placed.items /\ s.system = placed.system
    BY <1>1, <1>2, MessagesShapedTwice
  <2>2. Preambled(body.items, placed.items)
    BY <1>1, EnvironmentPlaced
  <2>3. ASSUME src # "claude"
        PROVE  placed.system = <<>>
    <3>1. placed = AddToMessages(body)
      BY <1>1, <1>2, <2>3 DEF EnsureEnvironment
    <3>2. AddToMessages(body).system = body.system
      BY <1>1 DEF AddToMessages, BodyType
    <3>. QED
      BY <1>1, <1>2, <2>3, <3>1, <3>2
  <2>. HIDE DEF s, placed
  <2>. QED
    BY <1>2, <2>1, <2>2, <2>3 DEF s, src, w
<1>3. CASE body.key = "input"
  <2>1. s \in BodyType /\ s.key = "input" /\ EnvironmentApart(s.items)
    BY <1>1, <1>3, InputShaped
  <2>. HIDE DEF s
  <2>. QED
    BY <1>3, <2>1 DEF s, src, w
<1>4. CASE body.key = "contents"
  <2>. DEFINE st == Streamed(body, c, src)
              groups == EnsureGeminiTools(st.tools, FingerprintTools(c))
  <2>1. st \in BodyType /\ st.key = "contents"
    BY <1>1, <1>4, StreamedType
  <2>2. s = [st EXCEPT !.tools = groups]
    <3>1. s = [st EXCEPT !.tools = EnsureGeminiTools(@, FingerprintTools(c))]
      BY <1>1, <1>4 DEF ApplyFingerprintBody, Streamed
    <3>. HIDE DEF s, st
    <3>. QED
      BY <2>1, <3>1 DEF BodyType
  <2>. HIDE DEF st, s
  <2>3. st.tools \in Seq(Seq(ToolType) \cup {Odd}) /\ FingerprintTools(c) \in Seq(ToolType)
    BY <1>1, <2>1, FingerprintToolsType DEF BodyType
  <2>4. groups \in Seq(Seq(ToolType) \cup {Odd})
    BY <2>3, GeminiToolsTwice
  <2>. HIDE DEF groups
  <2>5. s \in BodyType
    BY <2>1, <2>2, <2>4, BodyMembers
  <2>6. s.key = "contents"
    BY <2>1, <2>2 DEF BodyType
  <2>. QED
    BY <1>4, <2>5, <2>6 DEF s, src, w
<1>. QED
  BY <1>1, <1>2, <1>3, <1>4

-----------------------------------------------------------------------------
(* The translation                                                         *)

(***************************************************************************)
(* The count depends on the parts at each place only.                      *)
(***************************************************************************)
LEMMA EnvironmentsMapped ==
    ASSUME NEW b, NEW d, Len(d.items) = Len(b.items),
           \A k \in 0 .. Len(b.items) : EnvironmentParts(d, k) = EnvironmentParts(b, k)
    PROVE  Environments(d) = Environments(b)
<1>1. EnvironmentPlaces(d) = EnvironmentPlaces(b)
  <2>1. \A p : p \in EnvironmentPlaces(d) <=> p \in EnvironmentPlaces(b)
    BY PlaceIs
  <2>. QED
    BY <2>1
<1>. QED
  BY <1>1 DEF Environments, EnvironmentPlaces

(***************************************************************************)
(* Dropping reasoning and lifting tools keeps the environment, and adds    *)
(* declarations of the client only.                                        *)
(***************************************************************************)
LEMMA ConversedBody ==
    ASSUME NEW b \in BodyType, b.key = "input" => EnvironmentApart(b.items)
    PROVE  LET d == Conversed(b)
           IN  /\ d \in BodyType /\ d.key = b.key
               /\ Environments(d) = Environments(b)
               /\ b.key # "input" => d = b
               /\ b.key = "input" => \E promoted \in Seq(ToolType) :
                                        d.tools = AppendMissing(b.tools, promoted)
<1>. DEFINE d == Conversed(b)
<1>1. CASE b.key # "input"
  BY <1>1 DEF Conversed
<1>2. CASE b.key = "input"
  <2>. DEFINE new == StripReasoningItems(b.items)
              r == [b EXCEPT !.items = new]
  <2>1. b.items \in Seq(ItemType)
    BY DEF BodyType
  <2>2. new \in Seq(ItemType) /\ EnvironmentApart(new)
    BY <1>2, <2>1, ReasoningStripped
  <2>3. Environments(r) = Environments(b)
    BY <1>2, ReasoningCounted
  <2>. HIDE DEF new
  <2>4. r \in BodyType /\ r.key = "input" /\ r.items = new /\ r.tools = b.tools
    BY <1>2, <2>2 DEF BodyType
  <2>5. d = StripAdditionalTools(r)
    BY <1>2 DEF Conversed, new
  <2>. HIDE DEF r, d
  <2>6. d \in BodyType /\ d = [r EXCEPT !.items = d.items, !.tools = d.tools]
    BY <2>4, <2>5, AdditionalStripped
  <2>7. d.key = "input"
    BY <2>4, <2>6 DEF BodyType
  <2>8. Environments(d) = Environments(r)
    BY <2>2, <2>4, <2>5, AdditionalCounted
  <2>9. \E promoted \in Seq(ToolType) : d.tools = AppendMissing(b.tools, promoted)
    BY <2>4, <2>5, AdditionalPromoted
  <2>. QED
    BY <1>2, <2>3, <2>6, <2>7, <2>8, <2>9 DEF d
<1>. QED
  BY <1>1, <1>2

(***************************************************************************)
(* Moving the system prompt to the first turn moves its environment, and   *)
(* leaves the run of user turns.                                           *)
(***************************************************************************)
LEMMA PreambleMoved ==
    ASSUME NEW b \in BodyType
    PROVE  LET d == WithPreamble(b)
           IN  /\ d \in BodyType /\ d.key = b.key /\ d.tools = b.tools /\ d.system = <<>>
               /\ Environments(d) = Environments(b)
               /\ Select(d.items, RunAt(d)) = Select(b.items, RunAt(b))
               /\ Opened(d) <=> Opened(b)
<1>. DEFINE d == WithPreamble(b)
<1>0. <<>> \in ContentType /\ Range(<<>>) = {}
  BY DEF ContentType, Range
<1>2. CASE b.system \in {Odd, <<>>}
  <2>1. d = [b EXCEPT !.system = <<>>]
    BY <1>2 DEF WithPreamble, BodyType
  <2>2. d \in BodyType /\ d.key = b.key /\ d.tools = b.tools /\ d.items = b.items /\ d.system = <<>>
    BY <1>0, <2>1 DEF BodyType
  <2>. HIDE DEF d
  <2>3. \A k \in 0 .. Len(b.items) : EnvironmentParts(d, k) = EnvironmentParts(b, k)
    <3>. TAKE k \in 0 .. Len(b.items)
    <3>1. CASE k = 0
      <4>1. EnvironmentParts(d, 0) = {}
        <5>1. \A j : j \notin EnvironmentParts(d, 0)
          BY <2>2, PartsAre
        <5>. QED
          BY <5>1
      <4>2. EnvironmentParts(b, 0) = {}
        <5>1. \A j : j \notin EnvironmentParts(b, 0)
          BY <1>2, PartsAre
        <5>. QED
          BY <5>1
      <4>. QED
        BY <3>1, <4>1, <4>2
    <3>2. CASE k # 0
      BY <2>2, <3>2 DEF EnvironmentParts
    <3>. QED
      BY <3>1, <3>2
  <2>4. Environments(d) = Environments(b)
    BY <2>2, <2>3, EnvironmentsMapped
  <2>5. UserAt(d) = UserAt(b)
    BY <2>2 DEF UserAt
  <2>6. OtherAt(d) = OtherAt(b)
    BY <2>2, <2>5 DEF OtherAt
  <2>7. RunAt(d) = RunAt(b)
    BY <2>5, <2>6 DEF RunAt
  <2>. QED
    BY <2>2, <2>4, <2>5, <2>6, <2>7 DEF d, Opened
<1>3. CASE b.system \notin {Odd, <<>>}
  <2>. DEFINE t == Turn("system", None, b.system)
              n == Len(b.items)
              g == [k \in 0 .. n |-> k + 1]
              new == <<t>> \o b.items
  <2>1. d = [b EXCEPT !.items = new, !.system = <<>>]
    BY <1>3 DEF WithPreamble
  <2>3. b.items \in Seq(ItemType) /\ b.system \in ContentType /\ n \in Nat
        /\ DOMAIN b.items = 1 .. n
    BY DEF BodyType
  <2>4. t \in TurnType
    BY <2>3 DEF Turn, TurnType
  <2>5. t # Junk /\ t.role = "system" /\ t.content = b.system
    BY <2>4, BodyAssumption DEF Turn
  <2>14. new \in Seq(ItemType)
    <3>. HIDE DEF t
    <3>1. <<t>> \in Seq(ItemType)
      BY <2>4 DEF ItemType
    <3>. QED
      BY <2>3, <3>1
  <2>15. d \in BodyType /\ d.key = b.key /\ d.tools = b.tools /\ d.items = new /\ d.system = <<>>
    <3>. HIDE DEF new, d
    <3>. QED
      BY <1>0, <2>1, <2>14 DEF BodyType
  <2>2. d.items = <<t>> \o b.items /\ d.system = <<>>
    BY <2>15
  <2>6. IsSystem(t)
    BY <2>5 DEF IsSystem
  <2>. HIDE DEF t, d, new
  <2>7. /\ Len(d.items) = n + 1 /\ DOMAIN d.items = 1 .. n + 1 /\ d.items[1] = t
        /\ \A k \in 1 .. n : d.items[k + 1] = b.items[k]
    <3>1. t \in ItemType
      BY <2>4 DEF ItemType
    <3>. DEFINE old == b.items
    <3>2. d.items = <<t>> \o old /\ old \in Seq(ItemType) /\ n = Len(old)
      BY <2>2, <2>3
    <3>. HIDE DEF old, n
    <3>3. /\ Len(d.items) = n + 1 /\ DOMAIN d.items = 1 .. n + 1 /\ d.items[1] = t
          /\ \A k \in 1 .. n : d.items[k + 1] = old[k]
      BY <3>1, <3>2, Prepended
    <3>. QED
      BY <3>3 DEF old
  <2>8. /\ Select(d.items, RunAt(d)) = Select(b.items, RunAt(b))
        /\ Opened(d) <=> Opened(b)
    BY <2>2, <2>4, <2>6, <2>15, RunMoves
  <2>9. EnvironmentParts(d, 0) = {}
    <3>1. \A j : j \notin EnvironmentParts(d, 0)
      BY <2>2, <2>15, PartsAre
    <3>. QED
      BY <3>1
  <2>10. ASSUME NEW k \in 0 .. n
         PROVE  g[k] \in 0 .. Len(d.items) /\ EnvironmentParts(d, g[k]) = EnvironmentParts(b, k)
    <3>1. g[k] = k + 1 /\ k + 1 \in 0 .. Len(d.items) /\ k + 1 # 0 /\ k + 1 \in DOMAIN d.items
      BY <2>3, <2>7
    <3>2. CASE k = 0
      <4>1. EnvironmentParts(d, 1) = EnvironmentParts(b, 0)
        <5>1. \A j : j \in EnvironmentParts(d, 1)
                <=> t.content # Odd /\ j \in DOMAIN t.content /\ t.content[j] = EnvPart
          <6>1. 1 \in DOMAIN d.items /\ d \in BodyType
            BY <2>3, <2>7, <2>15
          <6>. QED
            BY <2>6, <2>7, <6>1, PartsAre
        <5>2. \A j : j \in EnvironmentParts(b, 0)
                <=> b.system # Odd /\ j \in DOMAIN b.system /\ b.system[j] = EnvPart
          BY PartsAre
        <5>3. \A j : j \in EnvironmentParts(d, 1) <=> j \in EnvironmentParts(b, 0)
          BY <2>5, <5>1, <5>2
        <5>. QED
          BY <5>3
      <4>. QED
        BY <3>1, <3>2, <4>1
    <3>3. CASE k # 0
      <4>1. d.items[k + 1] = b.items[k]
        BY <2>7, <3>3
      <4>. DEFINE m == k + 1
      <4>2. m # 0 /\ d.items[m] = b.items[k] /\ g[k] = m
        BY <3>1, <4>1
      <4>. HIDE DEF m, g
      <4>3. EnvironmentParts(d, m) = EnvironmentParts(b, k)
        BY <3>3, <4>2 DEF EnvironmentParts
      <4>. QED
        BY <3>1, <4>2, <4>3
    <3>. QED
      BY <3>2, <3>3
  <2>11. \A i, k \in 0 .. n : g[i] = g[k] => i = k
    BY <2>3
  <2>12. ASSUME NEW m \in 0 .. Len(d.items), EnvironmentParts(d, m) # {}
         PROVE  \E k \in 0 .. n : g[k] = m /\ EnvironmentParts(b, k) # {}
    <3>1. m # 0
      BY <2>9, <2>12
    <3>2. PICK k \in 0 .. n : k = m - 1
      BY <2>3, <2>7, <3>1
    <3>3. g[k] = m
      BY <2>7, <3>2
    <3>. HIDE DEF g
    <3>. QED
      BY <2>10, <2>12, <3>3
  <2>. HIDE DEF g
  <2>13. Environments(d) = Environments(b)
    <3>1. d \in BodyType
      BY <2>15
    <3>. QED
      BY <2>10, <2>11, <2>12, <3>1, PlacesMoved DEF n
  <2>. QED
    BY <2>8, <2>13, <2>15 DEF d
<1>. QED
  BY <1>2, <1>3

(***************************************************************************)
(* Translating a content keeps its environment.                            *)
(***************************************************************************)
LEMMA ChatContentParts ==
    ASSUME NEW content \in ContentType
    PROVE  /\ ChatContent(content) \in ContentType
           /\ ChatContent(content) = Odd <=> content = Odd
           /\ content # Odd =>
                /\ content \in Seq(PartType) /\ ChatContent(content) \in Seq(PartType)
                /\ DOMAIN ChatContent(content) = DOMAIN content
                /\ \A j \in DOMAIN content :
                    /\ ChatContent(content)[j].of = content[j].of
                    /\ ChatContent(content)[j].kind =
                            IF content[j].kind = "text" THEN "text" ELSE "other"
                    /\ ChatContent(content)[j] = EnvPart <=> content[j] = EnvPart
<1>. DEFINE new == ChatContent(content)
<1>1. CASE content = Odd
  BY <1>1 DEF ChatContent, ContentType
<1>2. CASE content # Odd
  <2>1. content \in Seq(PartType)
    BY <1>2 DEF ContentType
  <2>2. Len(content) \in Nat /\ DOMAIN content = 1 .. Len(content)
    BY <2>1
  <2>3. /\ DOMAIN new = DOMAIN content
        /\ \A j \in DOMAIN content :
            new[j] = [content[j] EXCEPT !.kind = IF content[j].kind = "text" THEN "text" ELSE "other"]
    BY <1>2 DEF ChatContent
  <2>. HIDE DEF new
  <2>4. ASSUME NEW j \in DOMAIN content
        PROVE  /\ new[j] \in PartType
               /\ new[j].of = content[j].of
               /\ new[j].kind = IF content[j].kind = "text" THEN "text" ELSE "other"
               /\ new[j] = EnvPart <=> content[j] = EnvPart
    <3>. DEFINE p == content[j]
                q == new[j]
    <3>1. p \in PartType
      BY <2>1
    <3>2. q = [p EXCEPT !.kind = IF p.kind = "text" THEN "text" ELSE "other"]
      BY <2>3
    <3>. HIDE DEF p, q
    <3>3. /\ q \in PartType /\ q.of = p.of
          /\ q.kind = IF p.kind = "text" THEN "text" ELSE "other"
      BY <3>1, <3>2 DEF PartType
    <3>4. q = EnvPart <=> p = EnvPart
      <4>1. \A x \in PartType : x = EnvPart <=> x.kind = "text" /\ x.of = Env
        BY DEF PartType, EnvPart
      <4>. QED
        BY <3>1, <3>3, <4>1
    <3>. QED
      BY <3>3, <3>4 DEF p, q
  <2>5. new \in Seq(PartType)
    <3>1. new = [j \in 1 .. Len(content) |-> new[j]]
      BY <1>2, <2>2 DEF new, ChatContent
    <3>2. \A j \in 1 .. Len(content) : new[j] \in PartType
      BY <2>2, <2>4
    <3>. QED
      BY <2>2, <3>1, <3>2
  <2>6. new # Odd /\ new \in ContentType
    BY <2>5, BodyAssumption DEF ContentType
  <2>. QED
    BY <1>2, <2>1, <2>3, <2>4, <2>5, <2>6 DEF new
<1>. QED
  BY <1>1, <1>2

(***************************************************************************)
(* Translating a turn keeps what the plugin tells turns apart by.          *)
(***************************************************************************)
LEMMA ChatTurnKinds ==
    ASSUME NEW t \in ItemType
    PROVE  /\ ChatTurn(t) \in ItemType
           /\ ChatTurn(t) = Junk <=> t = Junk
           /\ IsSystem(ChatTurn(t)) <=> IsSystem(t)
           /\ t # Junk => /\ t \in TurnType
                          /\ ChatTurn(t).content = ChatContent(t.content)
                          /\ ChatTurn(t).role = "user" <=> t.role = "user"
<1>1. CASE t = Junk
  BY <1>1 DEF ChatTurn, IsSystem
<1>2. CASE t # Junk
  <2>. DEFINE content == ChatContent(t.content)
              role == IF t.role = None THEN "assistant" ELSE t.role
              u == ChatTurn(t)
  <2>1. t \in TurnType
    BY <1>2 DEF ItemType
  <2>2. content \in ContentType
    BY <2>1, ChatContentParts DEF TurnType
  <2>3. u = Turn(role, None, content)
    BY <1>2 DEF ChatTurn
  <2>. HIDE DEF content, u
  <2>4. u \in TurnType /\ u.role = role /\ u.content = content
    BY <2>1, <2>2, <2>3 DEF Turn, TurnType
  <2>5. u # Junk /\ u \in ItemType
    BY <2>4, BodyAssumption DEF ItemType
  <2>6. /\ role = "user" <=> t.role = "user"
        /\ role \in {"system", "developer"} <=> t.role \in {"system", "developer"}
    BY ConversationAssumption
  <2>. HIDE DEF role
  <2>7. IsSystem(u) <=> IsSystem(t)
    BY <1>2, <2>4, <2>5, <2>6 DEF IsSystem
  <2>. QED
    BY <1>2, <2>1, <2>4, <2>5, <2>6, <2>7 DEF u, content
<1>. QED
  BY <1>1, <1>2

(***************************************************************************)
(* The declarations of a body, whatever their grouping.                    *)
(***************************************************************************)
LEMMA DeclaredIs ==
    ASSUME NEW b \in BodyType
    PROVE  /\ Declared(b) = IF b.key = "contents" THEN Joined(b.tools) ELSE b.tools
           /\ Declared(b) \in Seq(ToolType)
<1>1. Declared(b) = IF b.key = "contents" THEN Joined(b.tools) ELSE b.tools
  BY DEF Declared, Joined, DeclaringAt, Keep
<1>2. CASE b.key = "contents"
  <2>1. b.tools \in Seq(Seq(ToolType) \cup {Odd})
    BY <1>2 DEF BodyType
  <2>2. Joined(b.tools) \in Seq(ToolType)
    BY <2>1, JoinedGroups
  <2>. QED
    BY <1>1, <1>2, <2>2
<1>3. CASE b.key # "contents"
  BY <1>1, <1>3 DEF BodyType
<1>. QED
  BY <1>1, <1>2, <1>3

(***************************************************************************)
(* The turns in the form of Chat: as many, with the same environment.      *)
(***************************************************************************)
LEMMA ChatBody ==
    ASSUME NEW b \in BodyType
    PROVE  LET d == InChat(b)
           IN  /\ d \in BodyType /\ d.key = "messages" /\ d.system = b.system
               /\ d.tools = Declared(b)
               /\ Len(d.items) = Len(b.items)
               /\ \A k \in DOMAIN b.items : d.items[k] = ChatTurn(b.items[k])
               /\ Environments(d) = Environments(b)
<1>. DEFINE d == InChat(b)
            n == Len(b.items)
            new == [k \in DOMAIN b.items |-> ChatTurn(b.items[k])]
            tools == Declared(b)
<1>1. b.items \in Seq(ItemType) /\ n \in Nat /\ DOMAIN b.items = 1 .. n
  BY DEF BodyType
<1>2. tools \in Seq(ToolType)
  BY DeclaredIs
<1>3. \A k \in DOMAIN b.items : b.items[k] \in ItemType /\ ChatTurn(b.items[k]) \in ItemType
  BY <1>1, ChatTurnKinds
<1>4. new \in Seq(ItemType) /\ Len(new) = n /\ \A k \in DOMAIN b.items : new[k] = ChatTurn(b.items[k])
  BY <1>1, <1>3
<1>5. d = [b EXCEPT !.key = "messages", !.items = new, !.tools = tools]
  BY DEF InChat
<1>. HIDE DEF new, d, tools
<1>6. /\ d \in BodyType /\ d.key = "messages" /\ d.system = b.system
      /\ d.tools = tools /\ d.items = new
  BY <1>2, <1>4, <1>5 DEF BodyType
<1>7. ASSUME NEW k \in 0 .. n
      PROVE  EnvironmentParts(d, k) = EnvironmentParts(b, k)
  <2>1. CASE k = 0
    BY <1>6, <2>1 DEF EnvironmentParts
  <2>2. CASE k # 0
    <3>. DEFINE t == b.items[k]
                u == ChatTurn(t)
    <3>1. /\ k \in DOMAIN b.items /\ k \in DOMAIN d.items /\ t \in ItemType
          /\ d.items[k] = u /\ b.items[k] = t
      BY <1>1, <1>3, <1>4, <1>6, <2>2
    <3>2. /\ IsSystem(u) <=> IsSystem(t)
          /\ t # Junk => t \in TurnType /\ u.content = ChatContent(t.content)
      BY <3>1, ChatTurnKinds
    <3>3. \A j : j \in EnvironmentParts(b, k)
                <=> IsSystem(t) /\ t.content # Odd /\ j \in DOMAIN t.content /\ t.content[j] = EnvPart
      BY <3>1, PartsAre
    <3>4. \A j : j \in EnvironmentParts(d, k)
                <=> IsSystem(u) /\ u.content # Odd /\ j \in DOMAIN u.content /\ u.content[j] = EnvPart
      BY <1>6, <3>1, PartsAre
    <3>. HIDE DEF t, u
    <3>5. \A j : j \in EnvironmentParts(d, k) <=> j \in EnvironmentParts(b, k)
      <4>1. CASE ~ IsSystem(t)
        BY <3>2, <3>3, <3>4, <4>1
      <4>2. CASE IsSystem(t)
        <5>1. t.content \in ContentType /\ u.content = ChatContent(t.content)
          BY <3>2, <4>2 DEF IsSystem, TurnType
        <5>. DEFINE content == t.content
                    chat == ChatContent(content)
        <5>2. /\ chat = Odd <=> content = Odd
              /\ content # Odd =>
                    /\ DOMAIN chat = DOMAIN content
                    /\ \A j \in DOMAIN content : chat[j] = EnvPart <=> content[j] = EnvPart
          BY <5>1, ChatContentParts
        <5>3. u.content = chat /\ t.content = content
          BY <5>1
        <5>. HIDE DEF content, chat
        <5>. QED
          BY <3>2, <3>3, <3>4, <4>2, <5>2, <5>3
      <4>. QED
        BY <4>1, <4>2
    <3>. QED
      BY <3>5
  <2>. QED
    BY <2>1, <2>2
<1>8. Len(d.items) = Len(b.items)
  BY <1>4, <1>6
<1>9. Environments(d) = Environments(b)
  BY <1>7, <1>8, EnvironmentsMapped
<1>. QED
  BY <1>4, <1>6, <1>8, <1>9 DEF d, tools

(***************************************************************************)
(* A body whose turns keep their places and roles keeps its run.           *)
(***************************************************************************)
LEMMA RunMapped ==
    ASSUME NEW b \in BodyType, NEW d \in BodyType, b.key = "messages", d.key = "messages",
           Len(d.items) = Len(b.items),
           \A k \in DOMAIN b.items :
                /\ d.items[k] = Junk <=> b.items[k] = Junk
                /\ IsSystem(d.items[k]) <=> IsSystem(b.items[k])
                /\ b.items[k] # Junk => (d.items[k].role = "user" <=> b.items[k].role = "user")
    PROVE  /\ RunAt(d) = RunAt(b)
           /\ Opened(d) <=> Opened(b)
<1>1. DOMAIN d.items = DOMAIN b.items
  BY TurnsAt
<1>2. ObjectsAt(d.items) = ObjectsAt(b.items)
  BY <1>1 DEF ObjectsAt
<1>3. \A k \in ObjectsAt(b.items) : d.items[k].role = "user" <=> b.items[k].role = "user"
  BY DEF ObjectsAt
<1>4. UserAt(d) = UserAt(b)
  BY <1>2, <1>3 DEF UserAt
<1>5. OtherAt(d) = OtherAt(b) /\ \A k \in OtherAt(b) : IsSystem(d.items[k]) <=> IsSystem(b.items[k])
  BY <1>2, <1>4 DEF OtherAt, ObjectsAt
<1>6. RunAt(d) = RunAt(b)
  BY <1>4, <1>5 DEF RunAt
<1>7. Opened(d) <=> Opened(b)
  BY <1>4, <1>5 DEF Opened
<1>. QED
  BY <1>6, <1>7

\* The texts of a run, without its images.
SpokenInRun(run) == FlattenSeq([k \in DOMAIN run |-> Written(Spoken(run[k].content))])

(***************************************************************************)
(* A body whose turns say what those of another say without their images.  *)
(***************************************************************************)
LEMMA RunSpoken ==
    ASSUME NEW b \in BodyType, NEW d \in BodyType, RunAt(d) = RunAt(b),
           \A k \in RunAt(b) : Written(d.items[k].content) = Written(Spoken(b.items[k].content))
    PROVE  TextOfRun(Select(d.items, RunAt(d))) = SpokenInRun(Select(b.items, RunAt(b)))
<1>. DEFINE R == RunAt(b)
            new == Select(d.items, R)
            old == Select(b.items, R)
<1>1. R \in SUBSET Int /\ IsFiniteSet(R)
  BY TurnsAt
<1>. HIDE DEF R
<1>2. /\ DOMAIN new = 1 .. Cardinality(R) /\ DOMAIN old = 1 .. Cardinality(R)
      /\ \A k \in 1 .. Cardinality(R) :
            Nth(R, k) \in R /\ new[k] = d.items[Nth(R, k)] /\ old[k] = b.items[Nth(R, k)]
  BY <1>1, NthRank, SelectElements DEF Select
<1>. HIDE DEF new, old
<1>3. \A k \in 1 .. Cardinality(R) : Written(new[k].content) = Written(Spoken(old[k].content))
  BY <1>2 DEF R
<1>4. [k \in DOMAIN new |-> Written(new[k].content)]
        = [k \in DOMAIN old |-> Written(Spoken(old[k].content))]
  BY <1>2, <1>3
<1>5. TextOfRun(new) = SpokenInRun(old)
  BY <1>4 DEF TextOfRun, SpokenInRun
<1>. QED
  BY <1>5 DEF new, old, R

(***************************************************************************)
(* The plugin reads from a translated content its texts.                   *)
(***************************************************************************)
LEMMA ChatWritten ==
    ASSUME NEW content \in ContentType
    PROVE  /\ Spoken(content) \in ContentType
           /\ Written(ChatContent(content)) = Written(Spoken(content))
<1>1. CASE content = Odd
  BY <1>1 DEF ChatContent, Spoken, ContentType
<1>2. CASE content # Odd
  <2>. DEFINE chat == ChatContent(content)
              P == {j \in DOMAIN content : content[j].kind = "text"}
              said == Select(content, P)
              n == Cardinality(P)
  <2>1. /\ content \in Seq(PartType) /\ chat \in Seq(PartType) /\ chat # Odd
        /\ DOMAIN chat = DOMAIN content
        /\ \A j \in DOMAIN content :
            /\ chat[j].of = content[j].of
            /\ chat[j].kind = IF content[j].kind = "text" THEN "text" ELSE "other"
    BY <1>2, ChatContentParts
  <2>2. Spoken(content) = said
    BY <1>2 DEF Spoken, Keep
  <2>3. {j \in DOMAIN chat : chat[j].kind \in {"text", "imageURL", "source"}} = P
    BY <2>1
  <2>4. P \in SUBSET (DOMAIN content) /\ \A p \in P : content[p].kind = "text"
    OBVIOUS
  <2>. HIDE DEF chat, P
  <2>5. /\ P \in SUBSET Int /\ IsFiniteSet(P) /\ said \in Seq(PartType)
        /\ \A k \in DOMAIN said : \E p \in P : said[k] = content[p]
    BY <2>1, <2>4, SelectHas
  <2>6. /\ n \in Nat /\ DOMAIN said = 1 .. n
        /\ DOMAIN Select(chat, P) = 1 .. n
        /\ \A k \in 1 .. n : /\ Nth(P, k) \in P /\ said[k] = content[Nth(P, k)]
                             /\ Select(chat, P)[k] = chat[Nth(P, k)]
    BY <2>5, NthRank, SelectElements DEF Select
  <2>. HIDE DEF said, n
  <2>7. said # Odd
    BY <2>5, BodyAssumption
  <2>8. {j \in DOMAIN said : said[j].kind \in {"text", "imageURL", "source"}} = DOMAIN said
    BY <2>4, <2>5
  <2>9. Select(said, DOMAIN said) = said
    BY <2>5, SelectAll
  <2>10. Written(said) = [k \in 1 .. n |-> said[k].of]
    BY <2>6, <2>7, <2>8, <2>9 DEF Written, Keep
  <2>11. Written(chat) = [k \in 1 .. n |-> Select(chat, P)[k].of]
    BY <2>1, <2>3, <2>6 DEF Written, Keep
  <2>12. \A k \in 1 .. n : Select(chat, P)[k].of = said[k].of
    BY <2>1, <2>4, <2>6
  <2>. QED
    BY <2>2, <2>5, <2>10, <2>11, <2>12 DEF chat, ContentType
<1>. QED
  BY <1>1, <1>2

(***************************************************************************)
(* What is read from a body without its images.                            *)
(***************************************************************************)
LEMMA ImagesHidden ==
    ASSUME NEW b \in BodyType, b.key = "messages"
    PROVE  LET d == WithoutImages(b)
           IN  /\ d \in BodyType /\ d.key = "messages"
               /\ TextOfRun(Select(d.items, RunAt(d))) = SpokenInRun(Select(b.items, RunAt(b)))
<1>. DEFINE d == WithoutImages(b)
            n == Len(b.items)
            Silent(t) == IF t = Junk THEN Junk ELSE [t EXCEPT !.content = Spoken(t.content)]
            new == [k \in DOMAIN b.items |-> Silent(b.items[k])]
<1>1. b.items \in Seq(ItemType) /\ n \in Nat /\ DOMAIN b.items = 1 .. n
  BY DEF BodyType
<1>2. ASSUME NEW t \in ItemType
      PROVE  /\ Silent(t) \in ItemType /\ (Silent(t) = Junk <=> t = Junk)
             /\ IsSystem(Silent(t)) <=> IsSystem(t)
             /\ t # Junk => Silent(t).role = t.role /\ Silent(t).content = Spoken(t.content)
  <2>1. CASE t = Junk
    BY <2>1 DEF IsSystem
  <2>2. CASE t # Junk
    <3>. DEFINE said == Spoken(t.content)
                u == [t EXCEPT !.content = said]
    <3>1. t \in TurnType
      BY <2>2 DEF ItemType
    <3>2. said \in ContentType
      BY <3>1, ChatWritten DEF TurnType
    <3>3. Silent(t) = u
      BY <2>2
    <3>. HIDE DEF said
    <3>4. u \in TurnType /\ u.role = t.role /\ u.content = said
      BY <3>1, <3>2 DEF TurnType
    <3>5. u # Junk /\ u \in ItemType
      BY <3>4, BodyAssumption DEF ItemType
    <3>. HIDE DEF u, Silent
    <3>. QED
      BY <2>2, <3>3, <3>4, <3>5 DEF IsSystem, said
  <2>. QED
    BY <2>1, <2>2
<1>3. d = [b EXCEPT !.items = new]
  BY DEF WithoutImages
<1>. HIDE DEF Silent
<1>4. new \in Seq(ItemType) /\ Len(new) = n /\ \A k \in DOMAIN b.items : new[k] = Silent(b.items[k])
  BY <1>1, <1>2
<1>. HIDE DEF new, d
<1>5. d \in BodyType /\ d.key = "messages" /\ d.items = new
  BY <1>3, <1>4 DEF BodyType
<1>6. \A k \in DOMAIN b.items :
        /\ d.items[k] = Junk <=> b.items[k] = Junk
        /\ IsSystem(d.items[k]) <=> IsSystem(b.items[k])
        /\ b.items[k] # Junk => /\ d.items[k].role = "user" <=> b.items[k].role = "user"
                                /\ d.items[k].content = Spoken(b.items[k].content)
  BY <1>1, <1>2, <1>4, <1>5
<1>7. RunAt(d) = RunAt(b)
  BY <1>4, <1>5, <1>6, RunMapped
<1>8. \A k \in RunAt(b) : Written(d.items[k].content) = Written(Spoken(b.items[k].content))
  <2>1. \A k \in RunAt(b) : k \in DOMAIN b.items /\ b.items[k] # Junk
    BY DEF RunAt, UserAt, ObjectsAt
  <2>. QED
    BY <1>6, <2>1
<1>9. TextOfRun(Select(d.items, RunAt(d))) = SpokenInRun(Select(b.items, RunAt(b)))
  BY <1>5, <1>7, <1>8, RunSpoken
<1>. QED
  BY <1>5, <1>9 DEF d

(***************************************************************************)
(* What is read from a body in the form of Chat.                           *)
(***************************************************************************)
LEMMA ChatRun ==
    ASSUME NEW b \in BodyType, b.key = "messages"
    PROVE  LET d == InChat(b)
           IN  /\ Opened(d) <=> Opened(b)
               /\ TextOfRun(Select(d.items, RunAt(d))) = SpokenInRun(Select(b.items, RunAt(b)))
<1>. DEFINE d == InChat(b)
<1>1. /\ d \in BodyType /\ d.key = "messages" /\ Len(d.items) = Len(b.items)
      /\ \A k \in DOMAIN b.items : d.items[k] = ChatTurn(b.items[k])
  BY ChatBody
<1>. HIDE DEF d
<1>2. \A k \in DOMAIN b.items : b.items[k] \in ItemType
  BY DEF BodyType
<1>3. \A k \in DOMAIN b.items :
        /\ d.items[k] = Junk <=> b.items[k] = Junk
        /\ IsSystem(d.items[k]) <=> IsSystem(b.items[k])
        /\ b.items[k] # Junk => /\ b.items[k] \in TurnType
                                /\ d.items[k].role = "user" <=> b.items[k].role = "user"
                                /\ d.items[k].content = ChatContent(b.items[k].content)
  BY <1>1, <1>2, ChatTurnKinds
<1>4. RunAt(d) = RunAt(b) /\ (Opened(d) <=> Opened(b))
  BY <1>1, <1>3, RunMapped
<1>5. ASSUME NEW k \in RunAt(b)
      PROVE  Written(d.items[k].content) = Written(Spoken(b.items[k].content))
  <2>1. k \in DOMAIN b.items /\ b.items[k] # Junk
    BY DEF RunAt, UserAt, ObjectsAt
  <2>. DEFINE content == b.items[k].content
  <2>2. content \in ContentType /\ d.items[k].content = ChatContent(content)
    BY <1>3, <2>1 DEF TurnType
  <2>. HIDE DEF content
  <2>3. Written(ChatContent(content)) = Written(Spoken(content))
    BY <2>2, ChatWritten
  <2>. QED
    BY <2>2, <2>3 DEF content
<1>6. TextOfRun(Select(d.items, RunAt(d))) = SpokenInRun(Select(b.items, RunAt(b)))
  BY <1>1, <1>4, <1>5, RunSpoken
<1>. QED
  BY <1>4, <1>6 DEF d

(***************************************************************************)
(* The host's translation of a body: a Chat body with its environment, its *)
(* declarations and, without the images, what its users say.               *)
(***************************************************************************)
LEMMA TranslatedBody ==
    ASSUME NEW b \in BodyType, b.key = "input" => EnvironmentApart(b.items),
           b.key = "messages" /\ source # "claude" => b.system = <<>>
    PROVE  LET d == Translate(b)
           IN  /\ d \in BodyType /\ d.key = "messages" /\ d.system = <<>>
               /\ Environments(d) = Environments(b)
               /\ b.key # "input" => d.tools = Declared(b)
               /\ b.key = "input" => \E promoted \in Seq(ToolType) :
                                        d.tools = AppendMissing(b.tools, promoted)
               /\ b.key = "messages" /\ source # "claude" => d = b
               /\ b.key = "messages" /\ source = "claude" =>
                    /\ Opened(d) <=> Opened(b)
                    /\ TextOfRun(Select(d.items, RunAt(d))) = SpokenInRun(Select(b.items, RunAt(b)))
<1>1. CASE b.key = "messages" /\ source # "claude"
  <2>1. Translate(b) = b
    BY <1>1 DEF Translate
  <2>2. Declared(b) = b.tools
    BY <1>1, DeclaredIs
  <2>. QED
    BY <1>1, <2>1, <2>2
<1>2. CASE ~ (b.key = "messages" /\ source # "claude")
  <2>. DEFINE d == Translate(b)
              said == Conversed(b)
              p == WithPreamble(said)
  <2>1. d = InChat(p)
    BY <1>2 DEF Translate
  <2>2. /\ said \in BodyType /\ said.key = b.key /\ Environments(said) = Environments(b)
        /\ b.key # "input" => said = b
        /\ b.key = "input" => \E promoted \in Seq(ToolType) :
                                said.tools = AppendMissing(b.tools, promoted)
    BY ConversedBody
  <2>. HIDE DEF said, d
  <2>3. /\ p \in BodyType /\ p.key = said.key /\ p.tools = said.tools /\ p.system = <<>>
        /\ Environments(p) = Environments(said)
        /\ Select(p.items, RunAt(p)) = Select(said.items, RunAt(said))
        /\ Opened(p) <=> Opened(said)
    BY <2>2, PreambleMoved
  <2>. HIDE DEF p
  <2>4. /\ d \in BodyType /\ d.key = "messages" /\ d.system = <<>> /\ d.tools = Declared(p)
        /\ Environments(d) = Environments(p)
    BY <2>1, <2>3, ChatBody
  <2>5. Declared(p) = Declared(said) /\ (b.key = "input" => Declared(said) = said.tools)
    BY <2>2, <2>3, DeclaredIs
  <2>6. ASSUME b.key = "messages"
        PROVE  /\ Opened(d) <=> Opened(b)
               /\ TextOfRun(Select(d.items, RunAt(d))) = SpokenInRun(Select(b.items, RunAt(b)))
    <3>1. /\ Opened(d) <=> Opened(p)
          /\ TextOfRun(Select(d.items, RunAt(d))) = SpokenInRun(Select(p.items, RunAt(p)))
      BY <2>1, <2>2, <2>3, <2>6, ChatRun
    <3>. QED
      BY <2>2, <2>3, <2>6, <3>1
  <2>. QED
    BY <1>2, <2>2, <2>3, <2>4, <2>5, <2>6 DEF d
<1>. QED
  BY <1>1, <1>2

(***************************************************************************)
(* A prefix stays one of what is continued.                                *)
(***************************************************************************)
LEMMA PrefixStays ==
    ASSUME NEW S, NEW r \in Seq(S), NEW s \in Seq(S), NEW t \in Seq(S), IsPrefix(r, s)
    PROVE  IsPrefix(r, s \o t)
<1>. DEFINE u == s \o t
            n == Len(r)
<1>1. /\ Len(s) \in Nat /\ Len(t) \in Nat /\ n \in Nat /\ Len(u) = Len(s) + Len(t) /\ u \in Seq(S)
      /\ \A k \in 1 .. Len(s) : u[k] = s[k]
  OBVIOUS
<1>2. n <= Len(s) /\ SubSeq(r, 1, n) = SubSeq(s, 1, n)
  BY DEF IsPrefix
<1>. HIDE DEF u, n
<1>3. SubSeq(s, 1, n) = SubSeq(u, 1, n)
  BY <1>1, <1>2
<1>. QED
  BY <1>1, <1>2, <1>3 DEF IsPrefix, u, n

(***************************************************************************)
(* The client's own declarations.                                          *)
(***************************************************************************)
LEMMA ClientTools ==
    ASSUME BodyInv
    PROVE  /\ body.key # "contents" =>
                /\ body.tools \in Seq(ToolType) /\ Alone(body.tools)
                /\ \A k \in DOMAIN body.tools : body.tools[k].kind # "plugin"
                /\ Own(body.tools) = body.tools
           /\ body.key = "contents" =>
                /\ body.tools \in Seq(Seq(ToolType) \cup {Odd})
                /\ \A k \in DOMAIN Joined(body.tools) : Joined(body.tools)[k].kind # "plugin"
<1>1. /\ body \in BodyType /\ body.key = opening.body.key /\ body.tools = opening.body.tools
      /\ opening \in OpeningType
  BY OpeningFacts DEF BodyInv
<1>2. body.tools \in IF body.key = "contents" THEN Seq(Seq(ClientTool) \cup {Odd})
                     ELSE Seq(ClientTool)
  BY <1>1 DEF OpeningType
<1>3. \A t \in ClientTool : t \in ToolType /\ t.kind # "plugin"
  BY DEF ClientTool
<1>4. ASSUME body.key # "contents"
      PROVE  /\ body.tools \in Seq(ToolType) /\ Alone(body.tools)
             /\ \A k \in DOMAIN body.tools : body.tools[k].kind # "plugin"
             /\ Own(body.tools) = body.tools
  <2>1. body.tools \in Seq(ToolType)
    BY <1>1, <1>4 DEF BodyType
  <2>2. \A k \in DOMAIN body.tools : body.tools[k].kind # "plugin"
    <3>1. \A k \in DOMAIN body.tools : body.tools[k] \in ClientTool
      BY <1>2, <1>4
    <3>. QED
      BY <1>3, <3>1
  <2>3. Own(body.tools) = body.tools
    BY <2>1, <2>2, OwnOnly
  <2>. QED
    BY <2>1, <2>2, <2>3 DEF Alone
<1>5. ASSUME body.key = "contents"
      PROVE  /\ body.tools \in Seq(Seq(ToolType) \cup {Odd})
             /\ \A k \in DOMAIN Joined(body.tools) : Joined(body.tools)[k].kind # "plugin"
  <2>1. body.tools \in Seq(Seq(ToolType) \cup {Odd})
    BY <1>1, <1>5 DEF BodyType
  <2>2. \A i \in DOMAIN body.tools : body.tools[i] # Odd => body.tools[i] \in Seq(ClientTool)
    BY <1>2, <1>5
  <2>3. \A e \in Range(Joined(body.tools)) : e \in ClientTool
    <3>. TAKE e \in Range(Joined(body.tools))
    <3>1. PICK i \in DOMAIN body.tools : body.tools[i] # Odd /\ e \in Range(body.tools[i])
      BY <2>1, JoinedGroups
    <3>2. PICK k \in DOMAIN body.tools[i] : e = body.tools[i][k]
      BY <3>1 DEF Range
    <3>. DEFINE g == body.tools[i]
    <3>3. g \in Seq(ClientTool) /\ k \in DOMAIN g /\ e = g[k]
      BY <2>2, <3>1, <3>2
    <3>. HIDE DEF g
    <3>. QED
      BY <3>3
  <2>4. \A k \in DOMAIN Joined(body.tools) : Joined(body.tools)[k] \in Range(Joined(body.tools))
    BY DEF Range
  <2>. QED
    BY <1>3, <2>1, <2>3, <2>4
<1>. QED
  BY <1>4, <1>5

(***************************************************************************)
(* What the executor receives, for a client of any protocol: a Chat body   *)
(* with the environment and the declarations the interceptor sent.         *)
(***************************************************************************)
LEMMA ReceivedBody ==
    ASSUME BodyInv, NEW c \in Configs
    PROVE  LET r == Received(c)
           IN  /\ r \in BodyType /\ r.key = "messages" /\ r.system = <<>>
               /\ Environments(r)
                    = Environments(ApplyFingerprintBody(body, c, source, opening.wire))
               /\ r.tools \in Seq(ToolType) /\ Alone(r.tools)
               /\ IsPrefix(Declared(body), Own(r.tools))
<1>. DEFINE src == source
            w == opening.wire
            first == ApplyFingerprintBody(body, c, src, w)
            r == Received(c)
            mine == Declared(body)
<1>1. /\ body \in BodyType /\ c \in ConfigType /\ body.key \in {"messages", "input", "contents"}
      /\ src = "gemini" <=> body.key = "contents"
  BY OpeningFacts DEF BodyInv, BodyType
<1>2. /\ first \in BodyType /\ first.key = body.key
      /\ first.key = "input" => EnvironmentApart(first.items)
      /\ first.key = "messages" /\ source # "claude" => first.system = <<>>
  BY InterceptedBody
<1>3. r = Translate(first)
  BY DEF Received
<1>4. /\ body.key # "contents" =>
            /\ body.tools \in Seq(ToolType) /\ Alone(body.tools)
            /\ \A k \in DOMAIN body.tools : body.tools[k].kind # "plugin"
            /\ Own(body.tools) = body.tools
      /\ body.key = "contents" =>
            /\ body.tools \in Seq(Seq(ToolType) \cup {Odd})
            /\ \A k \in DOMAIN Joined(body.tools) : Joined(body.tools)[k].kind # "plugin"
  BY ClientTools
<1>5. /\ mine = IF body.key = "contents" THEN Joined(body.tools) ELSE body.tools
      /\ mine \in Seq(ToolType) /\ IsPrefix(mine, mine)
  BY <1>1, DeclaredIs, PrefixContinued
<1>. HIDE DEF src, w, mine
<1>6. CASE body.key = "messages"
  <2>1. first.tools = AppendMissing(body.tools, FingerprintTools(c))
    BY <1>1, <1>6, MessagesShapedTwice
  <2>. HIDE DEF first, r
  <2>2. /\ r \in BodyType /\ r.key = "messages" /\ r.system = <<>>
        /\ Environments(r) = Environments(first) /\ r.tools = Declared(first)
    BY <1>2, <1>3, <1>6, TranslatedBody
  <2>3. r.tools = first.tools
    BY <1>2, <1>6, <2>2, DeclaredIs
  <2>4. first.tools \in Seq(ToolType) /\ Alone(first.tools) /\ Own(first.tools) = mine
    BY <1>1, <1>4, <1>5, <1>6, <2>1, ToolsEnsured
  <2>. QED
    BY <1>5, <2>2, <2>3, <2>4 DEF r, first, src, w, mine
<1>7. CASE body.key = "contents"
  <2>1. first.tools = EnsureGeminiTools(body.tools, FingerprintTools(c))
    BY <1>1, <1>7, ContentsShapedTwice
  <2>. HIDE DEF first, r
  <2>2. /\ r \in BodyType /\ r.key = "messages" /\ r.system = <<>>
        /\ Environments(r) = Environments(first) /\ r.tools = Declared(first)
    BY <1>2, <1>3, <1>7, TranslatedBody
  <2>3. r.tools = Joined(first.tools)
    BY <1>2, <1>7, <2>2, DeclaredIs
  <2>4. r.tools \in Seq(ToolType) /\ Alone(r.tools) /\ Own(r.tools) = mine
    BY <1>1, <1>4, <1>5, <1>7, <2>1, <2>3, GeminiToolsEnsured
  <2>. QED
    BY <1>5, <2>2, <2>4 DEF r, first, src, w, mine
<1>8. CASE body.key = "input"
  <2>1. Complete(body.tools, c, first.tools)
    BY <1>1, <1>4, <1>8, InputTools
  <2>. HIDE DEF first, r
  <2>2. /\ r \in BodyType /\ r.key = "messages" /\ r.system = <<>>
        /\ Environments(r) = Environments(first)
        /\ \E promoted \in Seq(ToolType) : r.tools = AppendMissing(first.tools, promoted)
    BY <1>2, <1>3, <1>8, TranslatedBody
  <2>3. PICK promoted \in Seq(ToolType) : r.tools = AppendMissing(first.tools, promoted)
    BY <2>2
  <2>. DEFINE more == Missing(Names(first.tools), promoted)
  <2>4. first.tools \in Seq(ToolType) /\ Alone(first.tools) /\ IsPrefix(mine, Own(first.tools))
    BY <1>2, <1>5, <1>8, <2>1 DEF BodyType, Complete
  <2>5. more \in Seq(ToolType)
    BY MissingNew
  <2>. HIDE DEF more
  <2>6. /\ r.tools \in Seq(ToolType) /\ Alone(r.tools)
        /\ Own(r.tools) = Own(first.tools) \o Own(more)
    BY <2>3, <2>4, AppendMissingAlone DEF more
  <2>7. \A tools \in Seq(ToolType) : Own(tools) \in Seq(ToolType)
    <3>. TAKE tools \in Seq(ToolType)
    <3>1. OwnAt(tools) \in SUBSET (DOMAIN tools)
      BY DEF OwnAt
    <3>. QED
      BY <3>1, SelectHas DEF Own
  <2>8. Own(first.tools) \in Seq(ToolType) /\ Own(more) \in Seq(ToolType)
    BY <2>4, <2>5, <2>7
  <2>9. IsPrefix(mine, Own(r.tools))
    BY <1>5, <2>4, <2>6, <2>8, PrefixStays
  <2>. QED
    BY <2>2, <2>6, <2>9 DEF r, first, src, w, mine
<1>. QED
  BY <1>1, <1>6, <1>7, <1>8

(***************************************************************************)
(* What the executor reads from it: what the interceptor read from a Chat  *)
(* body, and the texts of that from a Claude body.                         *)
(***************************************************************************)
LEMMA ReceivedRun ==
    ASSUME BodyInv, body.key = "messages", NEW c \in Configs
    PROVE  LET r == Received(c)
           IN  /\ Opened(r) <=> Opened(body)
               /\ source # "claude" =>
                    Select(r.items, RunAt(r)) = Select(body.items, RunAt(body))
               /\ source = "claude" =>
                    TextOfRun(Select(r.items, RunAt(r)))
                        = SpokenInRun(Select(body.items, RunAt(body)))
<1>. DEFINE first == ApplyFingerprintBody(body, c, source, opening.wire)
            r == Received(c)
<1>1. body \in BodyType
  BY DEF BodyInv
<1>2. /\ first \in BodyType /\ first.key = "messages"
      /\ first.key = "messages" /\ source # "claude" => first.system = <<>>
      /\ Preambled(body.items, first.items)
  BY InterceptedBody
<1>3. r = Translate(first)
  BY DEF Received
<1>. HIDE DEF first, r
<1>4. /\ Select(first.items, RunAt(first)) = Select(body.items, RunAt(body))
      /\ Opened(first) <=> Opened(body)
  BY <1>1, <1>2, PreambleKeepsRun
<1>5. /\ source # "claude" => r = first
      /\ source = "claude" =>
            /\ Opened(r) <=> Opened(first)
            /\ TextOfRun(Select(r.items, RunAt(r))) = SpokenInRun(Select(first.items, RunAt(first)))
  BY <1>2, <1>3, TranslatedBody
<1>. QED
  BY <1>4, <1>5 DEF r

-----------------------------------------------------------------------------
(* The steps                                                               *)

ConversationInv == BodyInv /\ SentInv /\ SettledInv

(***************************************************************************)
(* The identity of a conversation that was answered outlives a step that   *)
(* leaves its run, and whether it is opened.                               *)
(***************************************************************************)
LEMMA SettledStays ==
    ASSUME BodyInv, BodyInv', SettledInv, opening' = opening, settled' = settled,
           body'.key = body.key,
           settled # None =>
                /\ Select(body'.items, RunAt(body')) = Select(body.items, RunAt(body))
                /\ Opened(body') <=> Opened(body)
                /\ Closed(body')
    PROVE  SettledInv'
<1>. SUFFICES ASSUME settled # None
              PROVE  /\ Reads(source, body') /\ Closed(body')
                     /\ FirstUserContent(source, body') = settled
  BY DEF SettledInv, source
<1>1. body \in BodyType /\ body' \in BodyType
  BY DEF BodyInv
<1>2. /\ Reads(source, body') <=> Reads(source, body)
      /\ FirstUserContent(source, body') = FirstUserContent(source, body)
  BY <1>1, SameIdentity
<1>. QED
  BY <1>2 DEF SettledInv

(***************************************************************************)
(* Every step preserves the invariant.                                     *)
(***************************************************************************)
LEMMA ConversationStep ==
    ASSUME ConversationInv, [Next]_vars
    PROVE  ConversationInv'
<1>. USE DEF ConversationInv
<1>0. BodyInv /\ SentInv /\ SettledInv /\ body \in BodyType
  BY DEF BodyInv
<1>1. ASSUME NEW turn \in Turns, Speak(turn)
      PROVE  ConversationInv'
  <2>1. /\ <<turn>> \in Seq(ClientItem) /\ Extend(<<turn>>)
        /\ opening' = opening /\ settled' = settled /\ sent' = None
    BY <1>1, ConversationAssumption DEF Speak
  <2>2. /\ BodyInv' /\ <<turn>> \in Seq(ItemType)
        /\ body'.key = body.key /\ body'.items = body.items \o <<turn>>
    BY <1>0, <2>1, ExtendedBody
  <2>3. body' \in BodyType
    BY <2>2 DEF BodyInv
  <2>4. ASSUME settled # None
        PROVE  /\ Select(body'.items, RunAt(body')) = Select(body.items, RunAt(body))
               /\ Opened(body') <=> Opened(body)
               /\ Closed(body')
    <3>1. Closed(body) /\ UserAt(body) # {}
      BY <1>0, <2>4 DEF SettledInv, Closed
    <3>. DEFINE more == <<turn>>
    <3>2. more \in Seq(ItemType) /\ body'.items = body.items \o more
      BY <2>2
    <3>. HIDE DEF more
    <3>. QED
      BY <1>0, <2>2, <2>3, <3>1, <3>2, RunStays
  <2>5. SettledInv'
    BY <1>0, <2>1, <2>2, <2>4, SettledStays
  <2>. QED
    BY <2>1, <2>2, <2>5 DEF SentInv
<1>2. ASSUME NEW turns \in Answers, Answer(turns)
      PROVE  ConversationInv'
  <2>1. /\ turns \in Seq(ClientItem) /\ turns # <<>> /\ turns[1] # Junk /\ turns[1].role # "user"
        /\ Extend(turns) /\ opening' = opening /\ sent' = None /\ sent # None
    BY <1>2, ConversationAssumption DEF Answer
  <2>2. /\ BodyInv' /\ turns \in Seq(ItemType)
        /\ body'.key = body.key /\ body'.items = body.items \o turns
    BY <1>0, <2>1, ExtendedBody
  <2>3. body' \in BodyType
    BY <2>2 DEF BodyInv
  <2>4. ASSUME UserAt(body) # {}
        PROVE  /\ Select(body'.items, RunAt(body')) = Select(body.items, RunAt(body))
               /\ Opened(body') <=> Opened(body)
               /\ Closed(body')
    BY <1>0, <2>1, <2>2, <2>3, <2>4, RunStays
  <2>5. CASE settled = None /\ sent.identity # <<>>
    <3>1. sent.identity = FirstUserContent(source, body)
      BY <1>0, <2>1 DEF SentInv
    <3>2. Reads(source, body) /\ UserAt(body) # {}
      BY <1>0, <2>5, <3>1, IdentityNeedsUser
    <3>3. /\ Reads(source, body') <=> Reads(source, body)
          /\ FirstUserContent(source, body') = FirstUserContent(source, body)
      BY <1>0, <2>2, <2>3, <2>4, <3>2, SameIdentity
    <3>4. settled' = sent.identity /\ source' = source
      BY <1>2, <2>1, <2>5 DEF Answer, source
    <3>5. SettledInv'
      BY <2>4, <3>1, <3>2, <3>3, <3>4 DEF SettledInv
    <3>. QED
      BY <2>1, <2>2, <3>5 DEF SentInv
  <2>6. CASE ~ (settled = None /\ sent.identity # <<>>)
    <3>1. settled' = settled
      BY <1>2, <2>6 DEF Answer
    <3>2. settled # None => UserAt(body) # {}
      BY <1>0 DEF SettledInv, Closed
    <3>3. SettledInv'
      BY <1>0, <2>1, <2>2, <2>4, <3>1, <3>2, SettledStays
    <3>. QED
      BY <2>1, <2>2, <3>3 DEF SentInv
  <2>. QED
    BY <2>5, <2>6
<1>3. ASSUME NEW content \in Prompts, Prompt(content)
      PROVE  ConversationInv'
  <2>1. opening' = opening /\ settled' = settled /\ sent' = None
    BY <1>3 DEF Prompt
  <2>2. /\ BodyInv' /\ body'.key = body.key
        /\ Select(body'.items, RunAt(body')) = Select(body.items, RunAt(body))
        /\ Opened(body') <=> Opened(body)
        /\ Closed(body') <=> Closed(body)
    BY <1>0, <1>3, PromptedBody
  <2>3. SettledInv'
    <3>1. settled # None => Closed(body')
      BY <1>0, <2>2 DEF SettledInv
    <3>. QED
      BY <1>0, <2>1, <2>2, <3>1, SettledStays
  <2>. QED
    BY <2>1, <2>2, <2>3 DEF SentInv
<1>4. ASSUME NEW c \in Configs, Intercept(c)
      PROVE  ConversationInv'
  <2>1. opening' = opening /\ body' = body /\ settled' = settled
    BY <1>4 DEF Intercept
  <2>2. BodyInv' /\ SettledInv'
    BY <1>0, <2>1 DEF BodyInv, SettledInv, source
  <2>3. sent' = [ identity |-> FirstUserContent(source, body),
                  config   |-> c,
                  shaped   |-> ApplyFingerprintBody(body, c, source, opening.wire),
                  reread   |-> None ]
    BY <1>4 DEF Intercept
  <2>4. SentInv'
    BY <2>1, <2>3 DEF SentInv, source
  <2>. QED
    BY <2>2, <2>4
<1>5. ASSUME NEW c \in Configs, Execute(c)
      PROVE  ConversationInv'
  <2>1. opening' = opening /\ body' = body /\ settled' = settled
    BY <1>5 DEF Execute
  <2>2. BodyInv' /\ SettledInv'
    BY <1>0, <2>1 DEF BodyInv, SettledInv, source
  <2>. DEFINE d == sent.config
  <2>3. /\ sent # None /\ sent.reread = None /\ ~ opening.wire
        /\ d \in Configs
        /\ sent.shaped = ApplyFingerprintBody(body, d, source, opening.wire)
        /\ sent = [ identity |-> FirstUserContent(source, body), config |-> d,
                    shaped |-> sent.shaped, reread |-> sent.reread ]
    BY <1>0, <1>5 DEF Execute, SentInv
  <2>4. Translate(sent.shaped) = Received(d)
    BY <2>3 DEF Received
  <2>5. sent' = [ sent EXCEPT
                    !.config = c,
                    !.shaped = ApplyFingerprintBody([Received(d) EXCEPT !.stream = TRUE],
                                                    c, "openai", FALSE),
                    !.reread = FirstUserContent("openai", Received(d)) ]
    BY <1>5, <2>4 DEF Execute
  <2>6. FirstUserContent("openai", Received(d)) # None
    <3>1. Received(d) \in BodyType
      BY <1>0, <2>3, ReceivedBody
    <3>2. FirstUserContent("openai", Received(d)) \in Seq(Texts)
      BY <3>1, IdentityType
    <3>. QED
      BY <3>2, ConversationAssumption
  <2>. HIDE DEF d
  <2>7. /\ sent' = [ identity |-> FirstUserContent(source, body), config |-> sent'.config,
                     shaped |-> sent'.shaped, reread |-> sent'.reread ]
        /\ sent'.config = c
        /\ sent'.shaped = ApplyFingerprintBody([Received(d) EXCEPT !.stream = TRUE],
                                               c, "openai", FALSE)
        /\ sent'.reread = FirstUserContent("openai", Received(d))
    <3>. DEFINE id == FirstUserContent(source, body)
                old == sent.shaped
                new == ApplyFingerprintBody([Received(d) EXCEPT !.stream = TRUE],
                                            c, "openai", FALSE)
                again == FirstUserContent("openai", Received(d))
    <3>1. sent = [identity |-> id, config |-> d, shaped |-> old, reread |-> None]
      BY <2>3
    <3>2. sent' = [sent EXCEPT !.config = c, !.shaped = new, !.reread = again]
      BY <2>5
    <3>. HIDE DEF id, old, new, again
    <3>3. sent' = [identity |-> id, config |-> c, shaped |-> new, reread |-> again]
      BY <3>1, <3>2
    <3>4. /\ sent'.config = c /\ sent'.shaped = new /\ sent'.reread = again
          /\ sent' = [ identity |-> id, config |-> sent'.config,
                       shaped |-> sent'.shaped, reread |-> sent'.reread ]
      BY <3>3
    <3>. QED
      BY <3>4 DEF id, new, again
  <2>8. source' = source /\ \A e : Received(e)' = Received(e)
    BY <2>1 DEF source, Received, Translate
  <2>9. SentInv'
    BY <2>1, <2>3, <2>6, <2>7, <2>8 DEF SentInv
  <2>. QED
    BY <2>2, <2>9
<1>6. ASSUME UNCHANGED vars
      PROVE  ConversationInv'
  <2>1. opening' = opening /\ body' = body /\ settled' = settled /\ sent' = sent
    BY <1>6 DEF vars
  <2>2. BodyInv' /\ SettledInv'
    BY <1>0, <2>1 DEF BodyInv, SettledInv, source
  <2>3. source' = source /\ \A e : Received(e)' = Received(e)
    BY <2>1 DEF source, Received, Translate
  <2>4. SentInv'
    BY <1>0, <2>1, <2>3 DEF SentInv
  <2>. QED
    BY <2>2, <2>4
<1>. QED
  BY <1>1, <1>2, <1>3, <1>4, <1>5, <1>6 DEF Next

-----------------------------------------------------------------------------
(* The theorems                                                            *)

(***************************************************************************)
(* The invariant holds in every state of every conversation.               *)
(***************************************************************************)
THEOREM ConversationSafe == Spec => []ConversationInv
<1>1. ASSUME Init
      PROVE  ConversationInv
  <2>1. opening \in OpeningType /\ body = opening.body
    BY <1>1, ConversationAssumption DEF Init
  <2>2. body \in BodyType /\ body.items \in Seq(ClientItem)
    BY <2>1 DEF OpeningType
  <2>3. EnvironmentApart(body.items)
    BY <2>2, ClientTurns
  <2>4. Beside(source, body.items) /\ (body.key = "messages" /\ source # "claude" => body.system = <<>>)
    BY <2>1 DEF OpeningType, source
  <2>. QED
    BY <1>1, <2>1, <2>2, <2>3, <2>4 DEF Init, ConversationInv, BodyInv, SentInv, SettledInv
<1>2. ConversationInv /\ [Next]_vars => ConversationInv'
  BY ConversationStep
<1>. QED
  BY <1>1, <1>2, PTL DEF Spec

(***************************************************************************)
(* For every client and every sequence of turns: once a request was        *)
(* answered, firstUserContent reads the same identity from every later     *)
(* body of the conversation.                                               *)
(***************************************************************************)
THEOREM IdentityFixed == Spec => []IdentitySettles
<1>1. ConversationInv => IdentitySettles
  BY DEF ConversationInv, SettledInv, IdentitySettles
<1>. QED
  BY <1>1, ConversationSafe, PTL

(***************************************************************************)
(* For every conversation of a Chat or Claude client: the executor reads   *)
(* from what it receives the identity the interceptor read from the        *)
(* client's body, for Claude the texts of it.                              *)
(***************************************************************************)
THEOREM IdentitySurvives == Spec => []IdentityKept
<1>1. ASSUME ConversationInv
      PROVE  IdentityKept
  <2>. SUFFICES ASSUME sent # None, sent.reread # None, body.key = "messages",
                       source = "openai" \/ CollectMessageTurns(body, FALSE) # <<>>
                PROVE  sent.reread = IF source = "claude"
                                     THEN FirstUserContent(source, WithoutImages(body))
                                     ELSE sent.identity
    BY DEF IdentityKept
  <2>1. BodyInv /\ body \in BodyType
    BY <1>1 DEF ConversationInv, BodyInv
  <2>2. sent.identity = FirstUserContent(source, body)
    BY <1>1 DEF ConversationInv, SentInv
  <2>3. PICK c \in Configs : sent.reread = FirstUserContent("openai", Received(c))
    BY <1>1 DEF ConversationInv, SentInv
  <2>. DEFINE r == Received(c)
  <2>4. r \in BodyType /\ r.key = "messages"
    BY <2>1, ReceivedBody
  <2>5. /\ Opened(r) <=> Opened(body)
        /\ source # "claude" => Select(r.items, RunAt(r)) = Select(body.items, RunAt(body))
        /\ source = "claude" =>
                TextOfRun(Select(r.items, RunAt(r))) = SpokenInRun(Select(body.items, RunAt(body)))
    BY <2>1, ReceivedRun
  <2>6. source # "openai" => Opened(body)
    <3>. SUFFICES ASSUME ~ Opened(body) PROVE CollectMessageTurns(body, FALSE) = <<>>
      OBVIOUS
    <3>1. {k \in ObjectsAt(body.items) : body.items[k].role = "user"} = UserAt(body)
      BY DEF UserAt
    <3>. QED
      BY <3>1 DEF CollectMessageTurns, Opened, OtherAt
  <2>. HIDE DEF r
  <2>7. CASE source = "claude"
    <3>. DEFINE silent == WithoutImages(body)
                chat == "openai"
                claude == "claude"
    <3>1. /\ silent \in BodyType /\ silent.key = "messages"
          /\ TextOfRun(Select(silent.items, RunAt(silent)))
                = SpokenInRun(Select(body.items, RunAt(body)))
      BY <2>1, ImagesHidden
    <3>. HIDE DEF silent
    <3>2. Reads(chat, r) /\ Reads(claude, silent)
      BY <2>4, <2>5, <2>6, <2>7, <3>1 DEF Reads
    <3>. HIDE DEF chat, claude
    <3>3. FirstUserContent(chat, r) = TextOfRun(Select(r.items, RunAt(r)))
      BY <2>4, <3>2, IdentityByRun
    <3>4. FirstUserContent(claude, silent) = TextOfRun(Select(silent.items, RunAt(silent)))
      BY <3>1, <3>2, IdentityByRun
    <3>. QED
      BY <2>3, <2>5, <2>7, <3>1, <3>3, <3>4 DEF r, chat, claude, silent
  <2>8. CASE source # "claude"
    <3>. DEFINE src == source
                chat == "openai"
    <3>1. Reads(src, body) <=> Reads(chat, r)
      <4>1. CASE source = "openai"
        BY <2>4, <2>5, <4>1 DEF Reads
      <4>2. CASE source # "openai"
        <5>1. source # "openai-response"
          <6>1. opening \in OpeningType /\ body.key = opening.body.key
            BY <2>1, OpeningFacts DEF BodyInv
          <6>. QED
            BY <6>1 DEF OpeningType, source
        <5>. QED
          BY <2>4, <2>5, <2>6, <2>8, <4>2, <5>1 DEF Reads
      <4>. QED
        BY <4>1, <4>2
    <3>. HIDE DEF src, chat
    <3>2. FirstUserContent(src, body)
            = TextOfRun(IF Reads(src, body) THEN Select(body.items, RunAt(body)) ELSE <<>>)
      BY <2>1, IdentityByRun
    <3>3. FirstUserContent(chat, r)
            = TextOfRun(IF Reads(chat, r) THEN Select(r.items, RunAt(r)) ELSE <<>>)
      BY <2>4, IdentityByRun
    <3>4. FirstUserContent(chat, r) = FirstUserContent(src, body)
      BY <2>5, <2>8, <3>1, <3>2, <3>3
    <3>. QED
      BY <2>2, <2>3, <2>8, <3>4 DEF r, chat, src
  <2>. QED
    BY <2>7, <2>8
<1>. QED
  BY <1>1, ConversationSafe, PTL

(***************************************************************************)
(* For every body, configuration and protocol: applyFingerprintBody leaves *)
(* what it has shaped.                                                     *)
(***************************************************************************)
THEOREM ShapingIdempotent == Spec => []ShapedOnce
<1>1. ASSUME ConversationInv
      PROVE  ShapedOnce
  <2>. SUFFICES ASSUME sent # None
                PROVE  ApplyFingerprintBody(sent.shaped, sent.config,
                                            IF sent.reread # None THEN "openai" ELSE source,
                                            opening.wire) = sent.shaped
    BY DEF ShapedOnce
  <2>1. BodyInv /\ SentInv /\ body \in BodyType
    BY <1>1 DEF ConversationInv, BodyInv
  <2>2. sent.config \in ConfigType
    BY <2>1, OpeningFacts DEF SentInv
  <2>3. CASE sent.reread = None
    <3>1. sent.shaped = ApplyFingerprintBody(body, sent.config, source, opening.wire)
      BY <2>1, <2>3 DEF SentInv
    <3>2. source = "gemini" <=> body.key = "contents"
      BY <2>1, OpeningFacts
    <3>. DEFINE src == source
                c == sent.config
                w == opening.wire
                s == ApplyFingerprintBody(body, c, src, w)
    <3>3. ApplyFingerprintBody(s, c, src, w) = s
      <4>1. CASE body.key = "messages"
        <5>1. src # "gemini" /\ c \in ConfigType
          BY <2>2, <3>2, <4>1
        <5>. HIDE DEF src, c, w
        <5>. QED
          BY <2>1, <4>1, <5>1, MessagesShapedTwice
      <4>2. CASE body.key = "contents"
        <5>1. src = "gemini" /\ c \in ConfigType
          BY <2>2, <3>2, <4>2
        <5>. HIDE DEF src, c, w
        <5>. QED
          BY <2>1, <4>2, <5>1, ContentsShapedTwice
      <4>3. CASE body.key = "input"
        <5>1. src # "gemini" /\ c \in ConfigType /\ EnvironmentApart(body.items)
          BY <2>1, <2>2, <3>2, <4>3 DEF BodyInv
        <5>. HIDE DEF src, c, w
        <5>. QED
          BY <2>1, <4>3, <5>1, InputShapedTwice
      <4>. QED
        BY <2>1, <4>1, <4>2, <4>3 DEF BodyType
    <3>. QED
      BY <2>3, <3>1, <3>3
  <2>4. CASE sent.reread # None
    <3>2. PICK d \in Configs :
            sent.shaped = ApplyFingerprintBody([Received(d) EXCEPT !.stream = TRUE],
                                               sent.config, "openai", FALSE)
      BY <2>1, <2>4 DEF SentInv
    <3>. DEFINE r == [Received(d) EXCEPT !.stream = TRUE]
                c == sent.config
                w == opening.wire
                src == "openai"
                raw == FALSE
                s == ApplyFingerprintBody(r, c, src, raw)
    <3>3. r \in BodyType /\ r.key = "messages" /\ c \in ConfigType
      <4>1. Received(d) \in BodyType /\ Received(d).key = "messages"
        BY <2>1, ReceivedBody
      <4>. QED
        BY <2>2, <4>1 DEF BodyType
    <3>4. ApplyFingerprintBody(s, c, src, w) = s
      <4>1. src # "gemini"
        OBVIOUS
      <4>. HIDE DEF r, c, w, src, raw
      <4>. QED
        BY <3>3, <4>1, MessagesShapedTwice
    <3>. QED
      BY <2>4, <3>2, <3>4
  <2>. QED
    BY <2>3, <2>4
<1>. QED
  BY <1>1, ConversationSafe, PTL

(***************************************************************************)
(* For every body and every configuration, or two in a row: the required   *)
(* tools are declared, the plugin's declarations are the only ones of      *)
(* their names, and the client's stay, with those lifted from its turns.   *)
(***************************************************************************)
THEOREM ToolsDeclared == Spec => []ToolsComplete
<1>1. ASSUME ConversationInv, sent # None
      PROVE  /\ Complete(Declared(body), sent.config, Declared(sent.shaped))
             /\ body.key = "input" /\ opening.wire /\ sent.config.stripAdditional =>
                    \A p \in DOMAIN body.items :
                        body.items[p] # Junk /\ body.items[p].type = "additional_tools" =>
                            \A t \in Range(body.items[p].tools) :
                                t.kind = "function" /\ t.name # NoName
                                    => t.name \in Names(Own(Declared(sent.shaped)))
  <2>. DEFINE c == sent.config
              shaped == sent.shaped
  <2>1. BodyInv /\ SentInv /\ body \in BodyType /\ c \in Configs /\ c \in ConfigType
    BY <1>1, OpeningFacts DEF ConversationInv, BodyInv, SentInv
  <2>2. /\ source \in {"openai", "claude"} => body.key = "messages"
        /\ source = "gemini" <=> body.key = "contents"
        /\ body.key \in {"messages", "input", "contents"}
    BY <2>1, OpeningFacts DEF BodyType
  <2>3. /\ body.key # "contents" =>
                /\ body.tools \in Seq(ToolType) /\ Alone(body.tools)
                /\ \A k \in DOMAIN body.tools : body.tools[k].kind # "plugin"
                /\ Own(body.tools) = body.tools
        /\ body.key = "contents" =>
                /\ body.tools \in Seq(Seq(ToolType) \cup {Odd})
                /\ \A k \in DOMAIN Joined(body.tools) : Joined(body.tools)[k].kind # "plugin"
    BY <2>1, ClientTools
  <2>4. /\ \A b : Declared(b) = IF b.key = "contents" THEN Joined(b.tools) ELSE b.tools
        /\ Declared(body) \in Seq(ToolType)
    BY <2>1, DeclaredIs DEF Declared, Joined, DeclaringAt, Keep
  <2>. HIDE DEF c, shaped
  <2>5. CASE sent.reread = None /\ body.key = "input"
    <3>. DEFINE wire == opening.wire
    <3>1. shaped = ApplyFingerprintBody(body, c, source, wire)
      BY <1>1, <2>1, <2>5 DEF SentInv, c, shaped
    <3>. HIDE DEF wire
    <3>2. /\ shaped.key = "input" /\ Complete(body.tools, c, shaped.tools)
          /\ wire /\ c.stripAdditional =>
                \A p \in DOMAIN body.items :
                    body.items[p] # Junk /\ body.items[p].type = "additional_tools" =>
                        \A t \in Range(body.items[p].tools) :
                            t.kind = "function" /\ t.name # NoName
                                => t.name \in Names(Own(shaped.tools))
      BY <2>1, <2>2, <2>3, <2>5, <3>1, InputTools
    <3>3. Declared(shaped) = shaped.tools /\ Declared(body) = body.tools
      BY <2>4, <2>5, <3>2
    <3>. QED
      BY <3>2, <3>3 DEF c, shaped, wire
  <2>6. CASE sent.reread = None /\ body.key = "contents"
    <3>1. source = "gemini" /\ shaped = ApplyFingerprintBody(body, c, "gemini", opening.wire)
      BY <1>1, <2>1, <2>2, <2>6 DEF SentInv, c, shaped
    <3>2. shaped.key = "contents" /\ shaped.tools = EnsureGeminiTools(body.tools, FingerprintTools(c))
      BY <2>1, <2>6, <3>1, ContentsShapedTwice
    <3>. DEFINE all == Joined(shaped.tools)
    <3>3. /\ all \in Seq(ToolType) /\ Alone(all)
          /\ Names(FingerprintTools(c)) \subseteq Names(all)
          /\ Own(all) = Joined(body.tools)
      BY <2>1, <2>3, <2>6, <3>2, GeminiToolsEnsured
    <3>4. Declared(shaped) = all /\ Declared(body) = Joined(body.tools)
      BY <2>4, <2>6, <3>2
    <3>5. Joined(body.tools) \in Seq(ToolType)
      BY <2>3, <2>6, JoinedGroups
    <3>6. IsPrefix(Joined(body.tools), Own(all))
      BY <3>3, <3>5, PrefixContinued
    <3>. HIDE DEF all
    <3>. QED
      BY <2>6, <3>3, <3>4, <3>6 DEF c, shaped, Complete
  <2>7. ASSUME NEW tools \in Seq(ToolType), Alone(tools), IsPrefix(Declared(body), Own(tools)),
               shaped.key = "messages",
               shaped.tools = AppendMissing(tools, FingerprintTools(c))
        PROVE  Complete(Declared(body), c, Declared(shaped))
    <3>. DEFINE all == AppendMissing(tools, FingerprintTools(c))
    <3>1. /\ all \in Seq(ToolType) /\ Alone(all)
          /\ Names(FingerprintTools(c)) \subseteq Names(all)
          /\ Own(all) = Own(tools)
      BY <2>1, <2>7, ToolsEnsured
    <3>2. Declared(shaped) = all
      BY <2>4, <2>7
    <3>. HIDE DEF all
    <3>. QED
      BY <2>7, <3>1, <3>2 DEF Complete
  <2>8. CASE sent.reread = None /\ body.key = "messages"
    <3>. DEFINE wire == opening.wire
    <3>1. shaped = ApplyFingerprintBody(body, c, source, wire) /\ source # "gemini"
      BY <1>1, <2>1, <2>2, <2>8 DEF SentInv, c, shaped
    <3>. HIDE DEF wire
    <3>2. shaped.key = "messages" /\ shaped.tools = AppendMissing(body.tools, FingerprintTools(c))
      BY <2>1, <2>8, <3>1, MessagesShapedTwice
    <3>3. IsPrefix(Declared(body), Own(body.tools))
      BY <2>3, <2>4, <2>8, PrefixContinued
    <3>4. Complete(Declared(body), c, Declared(shaped))
      BY <2>3, <2>7, <2>8, <3>2, <3>3
    <3>. QED
      BY <2>8, <3>4 DEF c, shaped
  <2>9. CASE sent.reread # None
    <3>1. ~ opening.wire
      BY <1>1, <2>1, <2>9 DEF SentInv
    <3>2. PICK d \in Configs :
            shaped = ApplyFingerprintBody([Received(d) EXCEPT !.stream = TRUE], c, "openai", FALSE)
      BY <1>1, <2>1, <2>9 DEF SentInv, c, shaped
    <3>. DEFINE r == [Received(d) EXCEPT !.stream = TRUE]
                tools == Received(d).tools
                other == FALSE
                protocol == "openai"
    <3>3. /\ Received(d) \in BodyType /\ Received(d).key = "messages"
          /\ tools \in Seq(ToolType) /\ Alone(tools) /\ IsPrefix(Declared(body), Own(tools))
      BY <2>1, ReceivedBody
    <3>4. r \in BodyType /\ r.key = "messages" /\ r.tools = tools
      BY <3>3 DEF BodyType
    <3>6. shaped = ApplyFingerprintBody(r, c, protocol, other) /\ protocol # "gemini"
      BY <3>2
    <3>. HIDE DEF r, tools, other, protocol
    <3>7. shaped.key = "messages" /\ shaped.tools = AppendMissing(tools, FingerprintTools(c))
      BY <2>1, <3>4, <3>6, MessagesShapedTwice
    <3>8. Complete(Declared(body), c, Declared(shaped))
      BY <2>7, <3>3, <3>7
    <3>. QED
      BY <3>1, <3>8 DEF c, shaped
  <2>. QED
    BY <2>2, <2>5, <2>6, <2>8, <2>9
<1>2. ASSUME ConversationInv
      PROVE  ToolsComplete
  <2>. SUFFICES ASSUME sent # None
                PROVE  ToolsComplete
    BY DEF ToolsComplete
  <2>. DEFINE after == Declared(sent.shaped)
  <2>1. Keep(after, LAMBDA t : t.kind # "plugin") = Own(after)
    BY DEF Keep, Own, OwnAt
  <2>2. /\ Names(FingerprintTools(sent.config)) \subseteq Names(after)
        /\ \A i, j \in DOMAIN after :
                after[i].kind = "plugin" /\ after[i].name = after[j].name => i = j
        /\ IsPrefix(Declared(body), Own(after))
    BY <1>1, <1>2 DEF Complete, Alone
  <2>3. body.key = "input" /\ opening.wire /\ sent.config.stripAdditional =>
            \A k \in ObjectsAt(body.items) :
                body.items[k].type = "additional_tools" =>
                    \A t \in Range(body.items[k].tools) :
                        t.kind = "function" /\ t.name # NoName => t.name \in Names(Own(after))
    BY <1>1, <1>2 DEF ObjectsAt
  <2>. HIDE DEF after
  <2>. QED
    BY <2>1, <2>2, <2>3 DEF ToolsComplete, after
<1>. QED
  BY <1>2, ConversationSafe, PTL

(***************************************************************************)
(* The executor's pass leaves the environment the interceptor sent, where  *)
(* the translation put it, or adds the missing one.                        *)
(***************************************************************************)
LEMMA ExecutedCount ==
    ASSUME BodyInv, NEW d \in Configs, NEW c \in Configs
    PROVE  LET sentOn == Environments(ApplyFingerprintBody(body, d, source, opening.wire))
               s == ApplyFingerprintBody([Received(d) EXCEPT !.stream = TRUE], c, "openai", FALSE)
           IN  Environments(s) = sentOn \/ (sentOn = 0 /\ Environments(s) = 1)
<1>. DEFINE first == ApplyFingerprintBody(body, d, source, opening.wire)
            r == [Received(d) EXCEPT !.stream = TRUE]
            src == "openai"
            raw == FALSE
            placed == EnsureEnvironment(r, src)
            s == ApplyFingerprintBody(r, c, src, raw)
<1>1. d \in ConfigType /\ c \in ConfigType
  BY OpeningFacts
<1>2. /\ Received(d) \in BodyType /\ Received(d).key = "messages" /\ Received(d).system = <<>>
      /\ Environments(Received(d)) = Environments(first)
  BY ReceivedBody
<1>. HIDE DEF first
<1>3. ~ HasEnvironment(<<>>)
  <2>1. Range(<<>>) = {}
    BY DEF Range
  <2>. QED
    BY <2>1 DEF HasEnvironment
<1>4. /\ r \in BodyType /\ r.key = "messages" /\ r.system = <<>>
      /\ r.items = Received(d).items /\ r.system = Received(d).system
  BY <1>2 DEF BodyType
<1>5. Kept(r, src) /\ src # "gemini"
  BY <1>3, <1>4 DEF Kept
<1>. HIDE DEF r, src, raw
<1>6. Environments(r) = Environments(first)
  <2>1. Environments(r) = Environments(Received(d))
    BY <1>4, EnvironmentsOf
  <2>. QED
    BY <1>2, <2>1
<1>7. \/ placed = r
      \/ Environments(r) = 0 /\ Environments(placed) = 1
  BY <1>4, <1>5, EnvironmentAdded
<1>8. s.items = placed.items /\ s.system = placed.system
  BY <1>1, <1>4, <1>5, MessagesShapedTwice
<1>. HIDE DEF s, placed
<1>9. Environments(s) = Environments(placed)
  BY <1>8, EnvironmentsOf
<1>10. Environments(s) = Environments(first) \/ (Environments(first) = 0 /\ Environments(s) = 1)
  BY <1>6, <1>7, <1>9
<1>. QED
  BY <1>10 DEF s, r, first, src, raw

(***************************************************************************)
(* For every conversation: ensureEnvironment keeps the client's own        *)
(* environment alone and adds one where there is none, and neither the     *)
(* stripping of turns, the host's translation nor the executor's second    *)
(* pass loses or doubles it.                                               *)
(***************************************************************************)
THEOREM EnvironmentKeptOnce == Spec => []EnvironmentOnce
<1>1. ASSUME ConversationInv
      PROVE  EnvironmentOnce
  <2>. DEFINE own == Environments(body)
              now == Environments(sent.shaped)
  <2>. SUFFICES ASSUME sent # None
                PROVE  now = (IF own > 0 THEN own ELSE 1) \/ (Blocked(body) /\ now = own)
    BY DEF EnvironmentOnce, Blocked
  <2>1. BodyInv /\ SentInv /\ body \in BodyType /\ sent.config \in Configs
    BY <1>1 DEF ConversationInv, BodyInv, SentInv
  <2>2. own \in Nat
    BY <2>1, PlacesCounted
  <2>3. CASE sent.reread = None
    <3>1. sent.shaped = ApplyFingerprintBody(body, sent.config, source, opening.wire)
      BY <2>1, <2>3 DEF SentInv
    <3>2. (now = own /\ (own # 0 \/ Blocked(body))) \/ (now = 1 /\ own = 0)
      BY <2>1, <3>1, InterceptedCount
    <3>. HIDE DEF own, now
    <3>. QED
      BY <2>2, <3>2
  <2>4. CASE sent.reread # None
    <3>1. PICK d \in Configs :
            sent.shaped = ApplyFingerprintBody([Received(d) EXCEPT !.stream = TRUE],
                                               sent.config, "openai", FALSE)
      BY <2>1, <2>4 DEF SentInv
    <3>. DEFINE sentOn == Environments(ApplyFingerprintBody(body, d, source, opening.wire))
    <3>3. (sentOn = own /\ (own # 0 \/ Blocked(body))) \/ (sentOn = 1 /\ own = 0)
      BY <2>1, InterceptedCount
    <3>4. now = sentOn \/ (sentOn = 0 /\ now = 1)
      BY <2>1, <3>1, ExecutedCount
    <3>. HIDE DEF own, now, sentOn
    <3>. QED
      BY <2>2, <3>3, <3>4
  <2>. QED
    BY <2>3, <2>4
<1>. QED
  BY <1>1, ConversationSafe, PTL

=============================================================================

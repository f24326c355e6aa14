----------------------------- MODULE BodyProofs -----------------------------
(***************************************************************************)
(* Facts about the identity and the rewriting of a body.                   *)
(***************************************************************************)
EXTENDS Body, SelectionProofs

-----------------------------------------------------------------------------
(* The run of user turns                                                   *)

UserAt(b) ==
    {k \in ObjectsAt(b.items) :
        /\ b.items[k].role = "user"
        /\ b.key = "input" => b.items[k].type \in {"message", None}}

OtherAt(b) == ObjectsAt(b.items) \ UserAt(b)

RunAt(b) == {k \in UserAt(b) : \A i \in UserAt(b), j \in OtherAt(b) : j < i \/ k < j}

TextOfRun(run) == FlattenSeq([k \in DOMAIN run |-> Written(run[k].content)])

\* Only the preamble stands before the first user turn.
Opened(b) ==
    \A j \in OtherAt(b) : IsSystem(b.items[j]) \/ \E i \in UserAt(b) : i < j

\* A turn of another role has followed a user's.
Closed(b) == \E i \in UserAt(b), j \in OtherAt(b) : i < j

\* The protocol reads the run of this body.
Reads(source, b) ==
    IF source = "openai" THEN b.key = "messages" /\ Opened(b)
    ELSE IF source = "claude" THEN b.key = "messages"
    ELSE IF source = "openai-response" THEN b.key = "input"
    ELSE b.key # "contents"

(***************************************************************************)
(* The positions of the turns are finite sets of numbers.                  *)
(***************************************************************************)
LEMMA TurnsAt ==
    ASSUME NEW b \in BodyType
    PROVE  /\ Len(b.items) \in Nat
           /\ DOMAIN b.items = 1 .. Len(b.items)
           /\ b.items \in Seq(ItemType)
           /\ ObjectsAt(b.items) \in SUBSET (1 .. Len(b.items))
           /\ UserAt(b) \in SUBSET (1 .. Len(b.items))
           /\ OtherAt(b) \in SUBSET (1 .. Len(b.items))
           /\ RunAt(b) \in SUBSET Int /\ IsFiniteSet(RunAt(b))
<1>1. b.items \in Seq(ItemType)
  BY DEF BodyType
<1>2. Len(b.items) \in Nat /\ DOMAIN b.items = 1 .. Len(b.items)
  BY <1>1
<1>3. ObjectsAt(b.items) \in SUBSET (1 .. Len(b.items))
  BY <1>2 DEF ObjectsAt
<1>4. /\ UserAt(b) \in SUBSET (1 .. Len(b.items))
      /\ OtherAt(b) \in SUBSET (1 .. Len(b.items))
      /\ RunAt(b) \in SUBSET (1 .. Len(b.items))
  BY <1>3 DEF UserAt, OtherAt, RunAt
<1>5. IsFiniteSet(1 .. Len(b.items)) /\ 1 .. Len(b.items) \in SUBSET Int
  BY <1>2, FS_Interval
<1>6. RunAt(b) \in SUBSET Int /\ IsFiniteSet(RunAt(b))
  BY <1>4, <1>5, FS_Subset
<1>. QED
  BY <1>1, <1>2, <1>3, <1>4, <1>6

(***************************************************************************)
(* firstUserContent is the text of the run, for the bodies that the        *)
(* protocol reads, and empty for the others.                               *)
(***************************************************************************)
LEMMA IdentityByRun ==
    ASSUME NEW b \in BodyType, NEW source
    PROVE  FirstUserContent(source, b) =
                TextOfRun(IF Reads(source, b) THEN Select(b.items, RunAt(b)) ELSE <<>>)
<1>. DEFINE run == Select(b.items, RunAt(b))
<1>1. b.key \in {"messages", "input", "contents"}
  BY DEF BodyType
<1>2. Run(b.items, {}, {}) = <<>>
  BY SelectNone DEF Run
<1>3. CASE b.key = "messages"
  <2>1. {k \in ObjectsAt(b.items) : b.items[k].role = "user"} = UserAt(b)
    BY <1>3 DEF UserAt
  <2>2. Run(b.items, ObjectsAt(b.items), UserAt(b)) = run
    BY DEF Run, RunAt, OtherAt
  <2>3. /\ CollectMessageTurns(b, TRUE) = run
        /\ CollectMessageTurns(b, FALSE) = IF Opened(b) THEN run ELSE <<>>
    BY <1>3, <2>1, <2>2 DEF CollectMessageTurns, Opened, OtherAt
  <2>4. CollectResponsesTurns(b) = <<>>
    BY <1>2, <1>3 DEF CollectResponsesTurns
  <2>. QED
    BY <1>3, <2>3, <2>4 DEF FirstUserContent, TextOfRun, Reads
<1>4. CASE b.key = "input"
  <2>1. {k \in ObjectsAt(b.items) : /\ b.items[k].role = "user"
                                    /\ b.items[k].type \in {"message", None}} = UserAt(b)
    BY <1>4 DEF UserAt
  <2>2. Run(b.items, ObjectsAt(b.items), UserAt(b)) = run
    BY DEF Run, RunAt, OtherAt
  <2>3. CollectResponsesTurns(b) = run
    BY <1>4, <2>1, <2>2 DEF CollectResponsesTurns
  <2>4. CollectMessageTurns(b, TRUE) = <<>> /\ CollectMessageTurns(b, FALSE) = <<>>
    BY <1>2, <1>4 DEF CollectMessageTurns
  <2>. QED
    BY <1>4, <2>3, <2>4 DEF FirstUserContent, TextOfRun, Reads
<1>5. CASE b.key = "contents"
  <2>1. /\ CollectResponsesTurns(b) = <<>>
        /\ CollectMessageTurns(b, TRUE) = <<>> /\ CollectMessageTurns(b, FALSE) = <<>>
    BY <1>2, <1>5 DEF CollectMessageTurns, CollectResponsesTurns
  <2>. QED
    BY <1>5, <2>1 DEF FirstUserContent, TextOfRun, Reads
<1>. QED
  BY <1>1, <1>3, <1>4, <1>5

(***************************************************************************)
(* An identity that is not empty comes from a user turn.                   *)
(***************************************************************************)
LEMMA IdentityNeedsUser ==
    ASSUME NEW b \in BodyType, NEW source, FirstUserContent(source, b) # <<>>
    PROVE  Reads(source, b) /\ UserAt(b) # {}
<1>1. TextOfRun(<<>>) = <<>>
  BY DEF TextOfRun, FlattenSeq
<1>2. RunAt(b) # {} => UserAt(b) # {}
  BY DEF RunAt
<1>3. RunAt(b) = {} => Select(b.items, RunAt(b)) = <<>>
  BY SelectNone
<1>. QED
  BY <1>1, <1>2, <1>3, IdentityByRun

(***************************************************************************)
(* Turns that join behind a closed run, or close it themselves, leave it.  *)
(***************************************************************************)
LEMMA RunStays ==
    ASSUME NEW b \in BodyType, NEW more \in Seq(ItemType), NEW b2 \in BodyType,
           b2.key = b.key, b2.items = b.items \o more,
           UserAt(b) # {},
           \/ Closed(b)
           \/ more # <<>> /\ more[1] # Junk /\ more[1].role # "user"
    PROVE  /\ Select(b2.items, RunAt(b2)) = Select(b.items, RunAt(b))
           /\ Opened(b2) <=> Opened(b)
           /\ Closed(b2)
<1>. DEFINE n == Len(b.items)
<1>1. /\ n \in Nat /\ DOMAIN b.items = 1 .. n /\ b.items \in Seq(ItemType)
      /\ UserAt(b) \in SUBSET (1 .. n) /\ OtherAt(b) \in SUBSET (1 .. n)
      /\ RunAt(b) \in SUBSET Int /\ IsFiniteSet(RunAt(b))
  BY TurnsAt
<1>2. /\ DOMAIN b2.items = 1 .. n + Len(more) /\ Len(more) \in Nat
      /\ \A k \in 1 .. n : b2.items[k] = b.items[k]
      /\ more # <<>> => Len(more) > 0 /\ b2.items[n + 1] = more[1]
  BY <1>1
<1>3. /\ \A k \in 1 .. n : k \in UserAt(b2) <=> k \in UserAt(b)
      /\ \A k \in 1 .. n : k \in OtherAt(b2) <=> k \in OtherAt(b)
      /\ UserAt(b2) \in SUBSET (1 .. n + Len(more))
      /\ OtherAt(b2) \in SUBSET (1 .. n + Len(more))
      /\ \A k \in OtherAt(b2) : k \notin UserAt(b2)
  BY <1>1, <1>2 DEF UserAt, OtherAt, ObjectsAt
<1>4. PICK i \in UserAt(b2), j \in OtherAt(b2) :
            i < j /\ \A k \in UserAt(b2) : k <= n \/ j < k
  <2>1. CASE Closed(b)
    BY <1>1, <1>3, <2>1 DEF Closed
  <2>2. CASE more # <<>> /\ more[1] # Junk /\ more[1].role # "user"
    <3>1. n + 1 \in OtherAt(b2) /\ n + 1 \notin UserAt(b2)
      BY <1>1, <1>2, <2>2 DEF OtherAt, UserAt, ObjectsAt
    <3>2. \A k \in UserAt(b2) : k <= n \/ n + 1 < k
      BY <1>1, <1>2, <1>3, <3>1
    <3>3. PICK u \in UserAt(b) : u \in 1 .. n
      BY <1>1
    <3>4. u \in UserAt(b2) /\ u < n + 1
      BY <1>1, <1>3, <3>3
    <3>. QED
      BY <3>1, <3>2, <3>4
  <2>. QED
    BY <2>1, <2>2
<1>5. Closed(b2)
  BY <1>4 DEF Closed
<1>6. ASSUME NEW k \in RunAt(b2)
      PROVE  k \in RunAt(b)
  <2>1. k \in UserAt(b2) /\ (j < i \/ k < j)
    BY <1>4, <1>6 DEF RunAt
  <2>2. i \in Int /\ j \in Int /\ k \in Int
    BY <1>1, <1>2, <1>3, <2>1
  <2>3. k \in 1 .. n
    BY <1>1, <1>2, <1>3, <1>4, <2>1, <2>2
  <2>. QED
    BY <1>1, <1>3, <1>6, <2>3 DEF RunAt
<1>7. ASSUME NEW k \in RunAt(b)
      PROVE  k \in RunAt(b2)
  <2>1. k \in UserAt(b) /\ k \in 1 .. n
    BY <1>1, <1>7 DEF RunAt
  <2>2. ASSUME NEW u \in UserAt(b2), NEW v \in OtherAt(b2)
        PROVE  v < u \/ k < v
    <3>1. u \in 1 .. n + Len(more) /\ v \in 1 .. n + Len(more)
      BY <1>3
    <3>2. CASE u \in 1 .. n /\ v \in 1 .. n
      BY <1>3, <1>7, <3>2 DEF RunAt
    <3>3. CASE v > n
      BY <1>1, <1>2, <2>1, <3>1, <3>3
    <3>4. CASE v <= n /\ u > n
      BY <1>1, <1>2, <3>1, <3>4
    <3>. QED
      BY <1>1, <1>2, <3>1, <3>2, <3>3, <3>4
  <2>. QED
    BY <1>3, <2>1, <2>2 DEF RunAt
<1>8. RunAt(b2) = RunAt(b)
  BY <1>6, <1>7
<1>9. \A k \in RunAt(b) : b2.items[k] = b.items[k]
  BY <1>1, <1>2 DEF RunAt
<1>10. Opened(b2) <=> Opened(b)
  <2>1. PICK u \in UserAt(b) : u \in 1 .. n
    BY <1>1
  <2>2. ASSUME Opened(b), NEW v \in OtherAt(b2)
        PROVE  IsSystem(b2.items[v]) \/ \E w \in UserAt(b2) : w < v
    <3>1. CASE v \in 1 .. n
      BY <1>1, <1>2, <1>3, <2>2, <3>1 DEF Opened
    <3>2. CASE v \notin 1 .. n
      BY <1>1, <1>2, <1>3, <2>1, <3>2
    <3>. QED
      BY <3>1, <3>2
  <2>3. ASSUME Opened(b2), NEW v \in OtherAt(b)
        PROVE  IsSystem(b.items[v]) \/ \E w \in UserAt(b) : w < v
    <3>1. v \in 1 .. n /\ v \in OtherAt(b2) /\ b2.items[v] = b.items[v]
      BY <1>1, <1>2, <1>3
    <3>2. \A w \in UserAt(b2) : w < v => w \in UserAt(b)
      BY <1>1, <1>2, <1>3, <3>1
    <3>. QED
      BY <2>3, <3>1, <3>2 DEF Opened
  <2>. QED
    BY <2>2, <2>3 DEF Opened
<1>. QED
  BY <1>1, <1>5, <1>8, <1>9, <1>10, SelectSame

(***************************************************************************)
(* What a system turn says is no part of the run.                          *)
(***************************************************************************)
LEMMA RunIgnoresSystem ==
    ASSUME NEW b \in BodyType, NEW b2 \in BodyType, b2.key = b.key,
           NEW p \in DOMAIN b.items, IsSystem(b.items[p]), NEW content,
           [b.items[p] EXCEPT !.content = content] \in TurnType,
           b2.items = [b.items EXCEPT ![p] = [@ EXCEPT !.content = content]]
    PROVE  /\ Select(b2.items, RunAt(b2)) = Select(b.items, RunAt(b))
           /\ Opened(b2) <=> Opened(b)
           /\ Closed(b2) <=> Closed(b)
           /\ UserAt(b2) = UserAt(b)
<1>1. /\ b.items \in Seq(ItemType) /\ DOMAIN b2.items = DOMAIN b.items
      /\ \A k \in DOMAIN b.items : k # p => b2.items[k] = b.items[k]
      /\ b2.items[p] = [b.items[p] EXCEPT !.content = content]
  BY TurnsAt
<1>2. b.items[p] # Junk /\ b.items[p] \in TurnType
  BY <1>1 DEF IsSystem, ItemType
<1>3. /\ b2.items[p] # Junk /\ b2.items[p].role = b.items[p].role
      /\ b2.items[p].type = b.items[p].type /\ b2.items[p].role # "user"
      /\ b.items[p].role # "user"
  BY <1>1, <1>2, BodyAssumption DEF TurnType, IsSystem
<1>4. ObjectsAt(b2.items) = ObjectsAt(b.items)
  BY <1>1, <1>2, <1>3 DEF ObjectsAt
<1>5. UserAt(b2) = UserAt(b) /\ p \notin UserAt(b)
  BY <1>1, <1>2, <1>3, <1>4 DEF UserAt, ObjectsAt
<1>6. OtherAt(b2) = OtherAt(b)
  BY <1>4, <1>5 DEF OtherAt
<1>7. \A k \in DOMAIN b.items : IsSystem(b2.items[k]) <=> IsSystem(b.items[k])
  BY <1>1, <1>2, <1>3 DEF IsSystem
<1>8. RunAt(b2) = RunAt(b)
  BY <1>5, <1>6 DEF RunAt
<1>9. \A k \in RunAt(b) : b2.items[k] = b.items[k]
  BY <1>1, <1>5 DEF RunAt, UserAt, ObjectsAt
<1>10. OtherAt(b) \in SUBSET (DOMAIN b.items)
  BY DEF OtherAt, ObjectsAt
<1>11. Opened(b2) <=> Opened(b)
  BY <1>5, <1>6, <1>7, <1>10 DEF Opened
<1>12. Closed(b2) <=> Closed(b)
  BY <1>5, <1>6 DEF Closed
<1>13. RunAt(b) \in SUBSET Int /\ IsFiniteSet(RunAt(b))
  BY TurnsAt
<1>14. Select(b2.items, RunAt(b)) = Select(b.items, RunAt(b))
  BY <1>9, <1>13, SelectSame
<1>. QED
  BY <1>5, <1>8, <1>11, <1>12, <1>14

(***************************************************************************)
(* A system turn in front of the others moves the run, and leaves it.      *)
(***************************************************************************)
LEMMA RunMoves ==
    ASSUME NEW b \in BodyType, NEW b2 \in BodyType, b2.key = b.key,
           NEW t \in TurnType, IsSystem(t), b2.items = <<t>> \o b.items
    PROVE  /\ Select(b2.items, RunAt(b2)) = Select(b.items, RunAt(b))
           /\ Opened(b2) <=> Opened(b)
<1>. DEFINE n == Len(b.items)
<1>1. /\ n \in Nat /\ DOMAIN b.items = 1 .. n /\ b.items \in Seq(ItemType)
      /\ UserAt(b) \in SUBSET (1 .. n) /\ OtherAt(b) \in SUBSET (1 .. n)
      /\ RunAt(b) \in SUBSET Int /\ IsFiniteSet(RunAt(b))
  BY TurnsAt
<1>2. /\ DOMAIN b2.items = 1 .. n + 1
      /\ b2.items[1] = t
      /\ \A k \in 1 .. n : b2.items[k + 1] = b.items[k]
      /\ \A k \in 1 .. n + 1 : k = 1 \/ k - 1 \in 1 .. n
  <2>1. <<t>> \in Seq(ItemType) /\ Len(<<t>>) = 1 /\ <<t>>[1] = t
    BY DEF ItemType
  <2>. QED
    BY <1>1, <2>1
<1>3. t # Junk /\ t.role # "user"
  BY DEF IsSystem
<1>4. \A k \in 1 .. n : /\ k + 1 \in UserAt(b2) <=> k \in UserAt(b)
                        /\ k + 1 \in OtherAt(b2) <=> k \in OtherAt(b)
  BY <1>1, <1>2 DEF UserAt, OtherAt, ObjectsAt
<1>5. 1 \in OtherAt(b2) /\ 1 \notin UserAt(b2)
  BY <1>1, <1>2, <1>3 DEF UserAt, OtherAt, ObjectsAt
<1>6. UserAt(b2) \in SUBSET (1 .. n + 1) /\ OtherAt(b2) \in SUBSET (1 .. n + 1)
  BY <1>2 DEF UserAt, OtherAt, ObjectsAt
<1>7. /\ \A k \in UserAt(b2) : k \in 2 .. n + 1 /\ k - 1 \in UserAt(b)
      /\ \A k \in OtherAt(b2) : k = 1 \/ (k \in 2 .. n + 1 /\ k - 1 \in OtherAt(b))
  <2>1. \A k \in 2 .. n + 1 : k - 1 \in 1 .. n /\ k - 1 + 1 = k
    BY <1>1
  <2>2. \A k \in 1 .. n + 1 : k = 1 \/ k \in 2 .. n + 1
    BY <1>1
  <2>. QED
    BY <1>4, <1>5, <1>6, <2>1, <2>2
<1>8. ASSUME NEW k \in RunAt(b)
      PROVE  k + 1 \in RunAt(b2)
  <2>1. k \in 1 .. n /\ k + 1 \in UserAt(b2)
    BY <1>1, <1>4, <1>8 DEF RunAt
  <2>2. ASSUME NEW u \in UserAt(b2), NEW v \in OtherAt(b2)
        PROVE  v < u \/ k + 1 < v
    <3>1. CASE v = 1
      BY <1>7, <3>1
    <3>2. CASE v \in 2 .. n + 1 /\ v - 1 \in OtherAt(b)
      <4>1. v - 1 < u - 1 \/ k < v - 1
        BY <1>7, <1>8, <3>2 DEF RunAt
      <4>. QED
        BY <1>1, <1>7, <2>1, <3>2, <4>1
    <3>. QED
      BY <1>7, <3>1, <3>2
  <2>. QED
    BY <2>1, <2>2 DEF RunAt
<1>9. ASSUME NEW k \in RunAt(b2)
      PROVE  k - 1 \in RunAt(b) /\ k = k - 1 + 1
  <2>1. k \in 2 .. n + 1 /\ k - 1 \in UserAt(b)
    BY <1>7, <1>9 DEF RunAt
  <2>2. ASSUME NEW u \in UserAt(b), NEW v \in OtherAt(b)
        PROVE  v < u \/ k - 1 < v
    <3>1. u \in 1 .. n /\ v \in 1 .. n
      BY <1>1
    <3>2. u + 1 \in UserAt(b2) /\ v + 1 \in OtherAt(b2)
      BY <1>4, <3>1
    <3>3. v + 1 < u + 1 \/ k < v + 1
      BY <1>9, <3>2 DEF RunAt
    <3>. QED
      BY <1>1, <2>1, <3>1, <3>3
  <2>. QED
    BY <1>1, <2>1, <2>2 DEF RunAt
<1>10. RunAt(b2) \in SUBSET Int
  BY <1>1, <1>6 DEF RunAt
<1>11. Select(b2.items, RunAt(b2)) = Select(b.items, RunAt(b))
  <2>1. \A k \in RunAt(b) : b2.items[k + 1] = b.items[k]
    BY <1>1, <1>2 DEF RunAt
  <2>. QED
    BY <1>1, <1>8, <1>9, <1>10, <2>1, SelectShifted
<1>12. Opened(b2) <=> Opened(b)
  <2>1. ASSUME Opened(b), NEW v \in OtherAt(b2)
        PROVE  IsSystem(b2.items[v]) \/ \E w \in UserAt(b2) : w < v
    <3>1. CASE v = 1
      BY <1>2, <3>1
    <3>2. CASE v \in 2 .. n + 1 /\ v - 1 \in OtherAt(b)
      <4>1. IsSystem(b.items[v - 1]) \/ \E w \in UserAt(b) : w < v - 1
        BY <2>1, <3>2 DEF Opened
      <4>2. v - 1 \in 1 .. n /\ b2.items[v] = b.items[v - 1]
        <5>1. v - 1 \in 1 .. n /\ v - 1 + 1 = v
          BY <1>1, <3>2
        <5>. QED
          BY <1>2, <5>1
      <4>3. \A w \in UserAt(b) : w < v - 1 => w + 1 \in UserAt(b2) /\ w + 1 < v
        BY <1>1, <1>4, <3>2
      <4>. QED
        BY <4>1, <4>2, <4>3
    <3>. QED
      BY <1>7, <3>1, <3>2
  <2>2. ASSUME Opened(b2), NEW v \in OtherAt(b)
        PROVE  IsSystem(b.items[v]) \/ \E w \in UserAt(b) : w < v
    <3>1. v \in 1 .. n /\ v + 1 \in OtherAt(b2) /\ b2.items[v + 1] = b.items[v]
      BY <1>1, <1>2, <1>4
    <3>2. IsSystem(b.items[v]) \/ \E w \in UserAt(b2) : w < v + 1
      BY <2>2, <3>1 DEF Opened
    <3>3. \A w \in UserAt(b2) : w < v + 1 => w - 1 \in UserAt(b) /\ w - 1 < v
      BY <1>1, <1>7, <3>1
    <3>. QED
      BY <3>2, <3>3
  <2>. QED
    BY <2>1, <2>2 DEF Opened
<1>. QED
  BY <1>11, <1>12

-----------------------------------------------------------------------------
(* The environment                                                         *)

(***************************************************************************)
(* A body stays one when a member changes.                                 *)
(***************************************************************************)
LEMMA BodyMembers ==
    ASSUME NEW b \in BodyType
    PROVE  /\ \A content \in ContentType : [b EXCEPT !.system = content] \in BodyType
           /\ \A items \in Seq(ItemType) : [b EXCEPT !.items = items] \in BodyType
           /\ [b EXCEPT !.stream = TRUE] \in BodyType
           /\ \A tools \in Seq(ToolType) :
                b.key # "contents" => [b EXCEPT !.tools = tools] \in BodyType
           /\ \A groups \in Seq(Seq(ToolType) \cup {Odd}) :
                b.key = "contents" => [b EXCEPT !.tools = groups] \in BodyType
BY DEF BodyType

(***************************************************************************)
(* The first turn of the system, when there is one.                        *)
(***************************************************************************)
LEMMA FirstSystem ==
    ASSUME NEW items \in Seq(ItemType)
    PROVE  LET k == SelectInSeq(items, IsSystem)
           IN  /\ k = 0 => \A i \in DOMAIN items : ~ IsSystem(items[i])
               /\ k # 0 => k \in DOMAIN items /\ IsSystem(items[k])
               /\ \A i \in DOMAIN items : IsSystem(items[i]) => k <= i
<1>. DEFINE I == {i \in 1 .. Len(items) : IsSystem(items[i])}
<1>1. SelectInSeq(items, IsSystem) = IF I # {} THEN Min(I) ELSE 0
  BY DEF SelectInSeq
<1>2. I \in SUBSET Nat /\ DOMAIN items = 1 .. Len(items)
  OBVIOUS
<1>3. I # {} => Min(I) \in I /\ \A i \in I : Min(I) <= i
  <2>. HIDE DEF I
  <2>. QED
    BY <1>2, LeastNumber DEF Min
<1>. HIDE DEF I
<1>4. 0 \notin I /\ \A i \in DOMAIN items : i \in I <=> IsSystem(items[i])
  BY <1>2 DEF I
<1>5. \A i \in I : i \in DOMAIN items /\ IsSystem(items[i])
  BY <1>2 DEF I
<1>. QED
  BY <1>1, <1>3, <1>4, <1>5

(***************************************************************************)
(* The environment is where the protocol wants it, or its place is taken.  *)
(***************************************************************************)
Placed(b, source) ==
    IF b.key = "input" \/ source \in {"claude", "gemini"}
    THEN \/ b.system = Odd \/ HasEnvironment(b.system)
         \/ b.key = "input" /\ MessagesHaveEnvironment(b.items)
    ELSE \/ MessagesHaveEnvironment(b.items)
         \/ LET k == SelectInSeq(b.items, IsSystem)
            IN  k # 0 /\ b.items[k].content = Odd

(***************************************************************************)
(* ensureEnvironment leaves such a body as it is.                          *)
(***************************************************************************)
LEMMA PlacedStays ==
    ASSUME NEW b, NEW source, Placed(b, source)
    PROVE  EnsureEnvironment(b, source) = b
BY DEF Placed, EnsureEnvironment, AddToSystem, AddToMessages

WithEnvironment(t) == [t EXCEPT !.content = Append(@, EnvPart)]

\* Of the turns, only the preamble has changed.
Preambled(items, new) ==
    \/ new = items
    \/ /\ EnvironmentTurn \in TurnType /\ IsSystem(EnvironmentTurn)
       /\ new = <<EnvironmentTurn>> \o items
    \/ \E k \in DOMAIN items :
            /\ IsSystem(items[k]) /\ WithEnvironment(items[k]) \in TurnType
            /\ new = [items EXCEPT ![k] = WithEnvironment(items[k])]

(***************************************************************************)
(* ensureEnvironment changes the turns or the system prompt only, and      *)
(* makes every body such a one.                                            *)
(***************************************************************************)
LEMMA EnvironmentPlaced ==
    ASSUME NEW b \in BodyType, NEW source
    PROVE  LET p == EnsureEnvironment(b, source)
           IN  /\ p \in BodyType
               /\ p.key = b.key /\ p.tools = b.tools /\ p.caps = b.caps
               /\ p.stream = b.stream /\ p.store = b.store
               /\ Placed(p, source)
               /\ b.key = "input" \/ source \in {"claude", "gemini"} => p.items = b.items
               /\ Preambled(b.items, p.items)
<1>. DEFINE p == EnsureEnvironment(b, source)
<1>1. EnvPart \in PartType /\ EnvironmentTurn \in TurnType
  BY BodyAssumption DEF EnvPart, PartType, EnvironmentTurn, Turn, TurnType, ContentType
<1>11. IsSystem(EnvironmentTurn) /\ HasEnvironment(EnvironmentTurn.content)
  <2>1. EnvironmentTurn # Junk
    BY <1>1, BodyAssumption
  <2>2. <<EnvPart>> \in Seq(PartType) /\ <<EnvPart>>[1] = EnvPart /\ 1 \in DOMAIN <<EnvPart>>
    BY <1>1
  <2>3. <<EnvPart>> # Odd
    BY <2>2, BodyAssumption
  <2>. QED
    BY <2>1, <2>2, <2>3 DEF IsSystem, HasEnvironment, Range, EnvironmentTurn, Turn
<1>2. ASSUME NEW content \in ContentType, content # Odd
      PROVE  /\ Append(content, EnvPart) \in ContentType
             /\ HasEnvironment(Append(content, EnvPart))
  <2>1. content \in Seq(PartType)
    BY <1>2 DEF ContentType
  <2>2. /\ Append(content, EnvPart) \in Seq(PartType)
        /\ Len(content) + 1 \in DOMAIN Append(content, EnvPart)
        /\ Append(content, EnvPart)[Len(content) + 1] = EnvPart
    BY <1>1, <2>1
  <2>. QED
    BY <2>2, BodyAssumption DEF ContentType, HasEnvironment, Range
<1>3. CASE b.key = "input" \/ source \in {"claude", "gemini"}
  <2>1. p = AddToSystem(b)
    BY <1>3 DEF EnsureEnvironment
  <2>2. CASE \/ b.system = Odd \/ HasEnvironment(b.system)
             \/ b.key = "input" /\ MessagesHaveEnvironment(b.items)
    BY <1>3, <2>1, <2>2 DEF AddToSystem, Placed, Preambled
  <2>3. CASE ~ (\/ b.system = Odd \/ HasEnvironment(b.system)
                \/ b.key = "input" /\ MessagesHaveEnvironment(b.items))
    <3>1. p = [b EXCEPT !.system = Append(@, EnvPart)]
      BY <2>1, <2>3 DEF AddToSystem
    <3>2. b.system \in ContentType /\ b.system # Odd
      BY <2>3 DEF BodyType
    <3>3. p \in BodyType
      BY <1>2, <3>1, <3>2, BodyMembers
    <3>4. /\ p.key = b.key /\ p.tools = b.tools /\ p.caps = b.caps
          /\ p.stream = b.stream /\ p.store = b.store /\ p.items = b.items
          /\ p.system = Append(b.system, EnvPart)
      BY <3>1 DEF BodyType
    <3>. QED
      BY <1>2, <1>3, <3>2, <3>3, <3>4 DEF Placed, Preambled
  <2>. QED
    BY <2>2, <2>3
<1>4. CASE ~ (b.key = "input" \/ source \in {"claude", "gemini"})
  <2>. DEFINE k == SelectInSeq(b.items, IsSystem)
  <2>1. p = AddToMessages(b)
    BY <1>4 DEF EnsureEnvironment
  <2>2. b.items \in Seq(ItemType)
    BY DEF BodyType
  <2>3. k # 0 => k \in DOMAIN b.items /\ IsSystem(b.items[k])
    BY <2>2, FirstSystem
  <2>4. CASE \/ MessagesHaveEnvironment(b.items)
             \/ k # 0 /\ b.items[k].content = Odd
    BY <1>4, <2>1, <2>4 DEF AddToMessages, Placed, Preambled
  <2>5. CASE ~ MessagesHaveEnvironment(b.items) /\ k = 0
    <3>1. p = [b EXCEPT !.items = <<EnvironmentTurn>> \o @]
      BY <2>1, <2>5 DEF AddToMessages
    <3>2. /\ <<EnvironmentTurn>> \o b.items \in Seq(ItemType)
          /\ 1 \in DOMAIN (<<EnvironmentTurn>> \o b.items)
          /\ (<<EnvironmentTurn>> \o b.items)[1] = EnvironmentTurn
      <4>1. <<EnvironmentTurn>> \in Seq(ItemType)
        BY <1>1 DEF ItemType
      <4>. QED
        BY <2>2, <4>1
    <3>4. p \in BodyType
      BY <3>1, <3>2, BodyMembers
    <3>5. /\ p.key = b.key /\ p.tools = b.tools /\ p.caps = b.caps
          /\ p.stream = b.stream /\ p.store = b.store
          /\ p.items = <<EnvironmentTurn>> \o b.items
      BY <3>1 DEF BodyType
    <3>6. MessagesHaveEnvironment(p.items)
      BY <1>11, <3>2, <3>5 DEF MessagesHaveEnvironment
    <3>. QED
      BY <1>1, <1>11, <1>4, <3>4, <3>5, <3>6 DEF Placed, Preambled
  <2>6. CASE ~ MessagesHaveEnvironment(b.items) /\ k # 0 /\ b.items[k].content # Odd
    <3>. DEFINE t == b.items[k]
                u == WithEnvironment(t)
    <3>1. p = [b EXCEPT !.items[k].content = Append(@, EnvPart)]
      BY <2>1, <2>6 DEF AddToMessages
    <3>. HIDE DEF k
    <3>2. k \in DOMAIN b.items /\ t \in TurnType /\ IsSystem(t)
      BY <2>2, <2>3, <2>6 DEF ItemType, IsSystem
    <3>3. t.content \in ContentType /\ t.content # Odd
      BY <2>6, <3>2 DEF TurnType
    <3>4. u \in TurnType /\ u.content = Append(t.content, EnvPart) /\ u.role = t.role
      BY <1>2, <3>2, <3>3 DEF TurnType, WithEnvironment
    <3>5. IsSystem(u) /\ HasEnvironment(u.content)
      BY <1>2, <3>2, <3>3, <3>4, BodyAssumption DEF IsSystem
    <3>6. p = [b EXCEPT !.items = [b.items EXCEPT ![k] = u]]
      BY <3>1, <3>2 DEF BodyType, WithEnvironment
    <3>61. Preambled(b.items, [b.items EXCEPT ![k] = u])
      BY <3>2, <3>4 DEF Preambled
    <3>. HIDE DEF u
    <3>7. [b.items EXCEPT ![k] = u] \in Seq(ItemType)
      BY <2>2, <3>2, <3>4 DEF ItemType
    <3>8. p \in BodyType
      BY <3>6, <3>7, BodyMembers
    <3>9. /\ p.key = b.key /\ p.tools = b.tools /\ p.caps = b.caps
          /\ p.stream = b.stream /\ p.store = b.store
          /\ p.items = [b.items EXCEPT ![k] = u]
      BY <3>6 DEF BodyType
    <3>10. k \in DOMAIN p.items /\ p.items[k] = u
      BY <2>2, <3>2, <3>9
    <3>11. MessagesHaveEnvironment(p.items)
      BY <3>5, <3>10 DEF MessagesHaveEnvironment
    <3>. QED
      BY <1>4, <3>61, <3>8, <3>9, <3>11 DEF Placed
  <2>. QED
    BY <2>4, <2>5, <2>6
<1>. QED
  BY <1>3, <1>4

(***************************************************************************)
(* It leaves the run of user turns.                                        *)
(***************************************************************************)
LEMMA PreambleKeepsRun ==
    ASSUME NEW b \in BodyType, NEW b2 \in BodyType, b2.key = b.key,
           Preambled(b.items, b2.items)
    PROVE  /\ Select(b2.items, RunAt(b2)) = Select(b.items, RunAt(b))
           /\ Opened(b2) <=> Opened(b)
<1>1. CASE b2.items = b.items
  <2>1. ObjectsAt(b2.items) = ObjectsAt(b.items) /\ UserAt(b2) = UserAt(b)
    BY <1>1 DEF UserAt, ObjectsAt
  <2>2. OtherAt(b2) = OtherAt(b)
    BY <2>1 DEF OtherAt
  <2>. QED
    BY <1>1, <2>1, <2>2 DEF RunAt, Opened
<1>2. CASE /\ EnvironmentTurn \in TurnType /\ IsSystem(EnvironmentTurn)
           /\ b2.items = <<EnvironmentTurn>> \o b.items
  BY <1>2, RunMoves
<1>3. ASSUME NEW k \in DOMAIN b.items, IsSystem(b.items[k]),
             WithEnvironment(b.items[k]) \in TurnType,
             b2.items = [b.items EXCEPT ![k] = WithEnvironment(b.items[k])]
      PROVE  /\ Select(b2.items, RunAt(b2)) = Select(b.items, RunAt(b))
             /\ Opened(b2) <=> Opened(b)
  <2>. DEFINE content == Append(b.items[k].content, EnvPart)
  <2>1. WithEnvironment(b.items[k]) = [b.items[k] EXCEPT !.content = content]
    BY DEF WithEnvironment
  <2>. HIDE DEF content
  <2>2. b2.items = [b.items EXCEPT ![k] = [@ EXCEPT !.content = content]]
    BY <1>3, <2>1
  <2>3. [b.items[k] EXCEPT !.content = content] \in TurnType
    BY <1>3, <2>1
  <2>. QED
    BY <1>3, <2>2, <2>3, RunIgnoresSystem
<1>. QED
  BY <1>1, <1>2, <1>3 DEF Preambled

-----------------------------------------------------------------------------
(* The tools                                                               *)

MissingAt(present, more) ==
    {k \in DOMAIN more :
        /\ more[k].name \notin present
        /\ \A j \in DOMAIN more : more[j].name = more[k].name => k <= j}

(***************************************************************************)
(* What is missing are declarations of the list, at finitely many places.  *)
(***************************************************************************)
LEMMA MissingType ==
    ASSUME NEW more \in Seq(ToolType), NEW present
    PROVE  /\ MissingAt(present, more) \in SUBSET Int
           /\ IsFiniteSet(MissingAt(present, more))
           /\ Missing(present, more) = Select(more, MissingAt(present, more))
           /\ Missing(present, more) \in Seq(ToolType)
<1>. DEFINE P == MissingAt(present, more)
<1>1. /\ DOMAIN more = 1 .. Len(more) /\ Len(more) \in Nat
      /\ P \in SUBSET (1 .. Len(more)) /\ \A k \in P : more[k] \in ToolType
  BY DEF MissingAt
<1>2. Missing(present, more) = Select(more, P)
  BY DEF Missing, MissingAt
<1>. HIDE DEF P
<1>3. P \in SUBSET Int /\ IsFiniteSet(P)
  BY <1>1, PositionsFinite
<1>4. Select(more, P) \in Seq(ToolType)
  BY <1>1, <1>3, SelectType
<1>. QED
  BY <1>2, <1>3, <1>4 DEF P

(***************************************************************************)
(* Every name of the list is then present or among the missing.            *)
(***************************************************************************)
LEMMA MissingCovers ==
    ASSUME NEW more \in Seq(ToolType), NEW present, NEW k \in DOMAIN more,
           more[k].name \notin present
    PROVE  more[k].name \in Names(Missing(present, more))
<1>. DEFINE P == MissingAt(present, more)
            T == {j \in DOMAIN more : more[j].name = more[k].name}
<1>1. T \in SUBSET Nat /\ k \in T
  OBVIOUS
<1>2. PICK i \in T : \A j \in T : i <= j
  BY <1>1, LeastNumber
<1>3. i \in P
  BY <1>2 DEF MissingAt
<1>. HIDE DEF P
<1>4. /\ P \in SUBSET Int /\ IsFiniteSet(P)
      /\ Missing(present, more) = Select(more, P)
  BY MissingType DEF P
<1>5. Rank(P, i) \in 1 .. Cardinality(P) /\ Select(more, P)[Rank(P, i)] = more[i]
  BY <1>3, <1>4, RankOrder, SelectElements
<1>6. DOMAIN Select(more, P) = 1 .. Cardinality(P)
  BY DEF Select
<1>7. more[i] \in Range(Missing(present, more))
  BY <1>4, <1>5, <1>6 DEF Range
<1>. QED
  BY <1>2, <1>7 DEF Names

(***************************************************************************)
(* Nothing is missing when every name is present.                          *)
(***************************************************************************)
LEMMA MissingNone ==
    ASSUME NEW more \in Seq(ToolType), NEW present,
           \A k \in DOMAIN more : more[k].name \in present
    PROVE  Missing(present, more) = <<>>
<1>1. MissingAt(present, more) = {}
  BY DEF MissingAt
<1>. QED
  BY <1>1, MissingType, SelectNone

(***************************************************************************)
(* The names of joined declarations.                                       *)
(***************************************************************************)
LEMMA JoinedNames ==
    ASSUME NEW tools \in Seq(ToolType), NEW more \in Seq(ToolType)
    PROVE  /\ tools \o more \in Seq(ToolType)
           /\ \A name : name \in Names(tools) \/ name \in Names(more)
                            => name \in Names(tools \o more)
<1>1. /\ tools \o more \in Seq(ToolType)
      /\ DOMAIN tools = 1 .. Len(tools) /\ Len(tools) \in Nat
      /\ DOMAIN more = 1 .. Len(more) /\ Len(more) \in Nat
      /\ DOMAIN (tools \o more) = 1 .. Len(tools) + Len(more)
      /\ \A k \in DOMAIN tools : (tools \o more)[k] = tools[k]
      /\ \A k \in DOMAIN more : (tools \o more)[Len(tools) + k] = more[k]
  OBVIOUS
<1>2. \A t \in Range(tools) : t \in Range(tools \o more)
  BY <1>1 DEF Range
<1>3. \A t \in Range(more) : t \in Range(tools \o more)
  <2>1. \A k \in DOMAIN more : Len(tools) + k \in DOMAIN (tools \o more)
    BY <1>1
  <2>. QED
    BY <1>1, <2>1 DEF Range
<1>. QED
  BY <1>1, <1>2, <1>3 DEF Names

(***************************************************************************)
(* Appending what is missing a second time appends nothing.                *)
(***************************************************************************)
LEMMA AppendMissingTwice ==
    ASSUME NEW tools \in Seq(ToolType), NEW more \in Seq(ToolType)
    PROVE  /\ AppendMissing(tools, more) \in Seq(ToolType)
           /\ AppendMissing(AppendMissing(tools, more), more) = AppendMissing(tools, more)
           /\ AppendMissing(tools, <<>>) = tools
<1>. DEFINE new == Missing(Names(tools), more)
            all == AppendMissing(tools, more)
<1>1. new \in Seq(ToolType) /\ all = tools \o new
  BY MissingType DEF AppendMissing
<1>. HIDE DEF new, all
<1>2. all \in Seq(ToolType)
  BY <1>1, JoinedNames
<1>3. \A k \in DOMAIN more : more[k].name \in Names(all)
  <2>. TAKE k \in DOMAIN more
  <2>1. more[k].name \in Names(tools) \/ more[k].name \in Names(new)
    BY MissingCovers DEF new
  <2>. QED
    BY <1>1, <2>1, JoinedNames
<1>4. Missing(Names(all), more) = <<>>
  BY <1>3, MissingNone
<1>5. all \o <<>> = all /\ tools \o <<>> = tools
  BY <1>2, ConcatEmptySeq
<1>6. Missing(Names(tools), <<>>) = <<>>
  <2>1. <<>> \in Seq(ToolType) /\ DOMAIN <<>> = {}
    OBVIOUS
  <2>. QED
    BY <2>1, MissingNone
<1>. QED
  BY <1>2, <1>4, <1>5, <1>6 DEF AppendMissing, all

(***************************************************************************)
(* The tools of a configuration are declarations.                          *)
(***************************************************************************)
LEMMA FingerprintToolsType ==
    ASSUME NEW c \in ConfigType
    PROVE  FingerprintTools(c) \in Seq(ToolType)
<1>. DEFINE P == {k \in DOMAIN c.tools : c.tools[k] # NoName}
            names == Select(c.tools, P)
            list == IF names = <<>> THEN DefaultTools ELSE names
<1>1. c.tools \in Seq(ToolNames \cup {NoName})
  BY DEF ConfigType
<1>2. P \in SUBSET (1 .. Len(c.tools)) /\ Len(c.tools) \in Nat
  BY <1>1
<1>3. P \in SUBSET Int /\ IsFiniteSet(P)
  <2>. HIDE DEF P
  <2>. QED
    BY <1>2, PositionsFinite
<1>4. \A k \in P : c.tools[k] \in ToolNames
  BY <1>1
<1>5. FingerprintTools(c) = [k \in DOMAIN list |-> [name |-> list[k], kind |-> "plugin"]]
  BY DEF FingerprintTools, Keep
<1>6. names \in Seq(ToolNames)
  <2>. HIDE DEF P
  <2>. QED
    BY <1>3, <1>4, SelectType
<1>7. list \in Seq(ToolNames)
  BY <1>6, BodyAssumption
<1>. HIDE DEF list
<1>8. /\ DOMAIN list = 1 .. Len(list) /\ Len(list) \in Nat
      /\ \A k \in DOMAIN list : [name |-> list[k], kind |-> "plugin"] \in ToolType
  BY <1>7 DEF ToolType
<1>. QED
  BY <1>5, <1>8

-----------------------------------------------------------------------------
(* The client's declarations and the plugin's                              *)

\* A declaration of the plugin is the only one of its name.
Alone(tools) ==
    \A i, j \in DOMAIN tools :
        tools[i].kind = "plugin" /\ tools[i].name = tools[j].name => i = j

OwnAt(tools) == {k \in DOMAIN tools : tools[k].kind # "plugin"}

\* The client's declarations.
Own(tools) == Select(tools, OwnAt(tools))

(***************************************************************************)
(* The missing declarations are declarations of the list with names that   *)
(* are not present, each name once.                                        *)
(***************************************************************************)
LEMMA MissingNew ==
    ASSUME NEW more \in Seq(ToolType), NEW present
    PROVE  LET m == Missing(present, more)
           IN  /\ m \in Seq(ToolType)
               /\ \A i \in DOMAIN m : m[i].name \notin present
               /\ \A i \in DOMAIN m : \E k \in DOMAIN more : m[i] = more[k]
               /\ \A i, j \in DOMAIN m : m[i].name = m[j].name => i = j
<1>. DEFINE P == MissingAt(present, more)
            m == Missing(present, more)
<1>1. /\ P \in SUBSET Int /\ IsFiniteSet(P) /\ m = Select(more, P) /\ m \in Seq(ToolType)
  BY MissingType
<1>2. /\ \A p \in P : p \in DOMAIN more /\ more[p].name \notin present
      /\ \A p, q \in P : more[p].name = more[q].name => p <= q
  BY DEF MissingAt
<1>. HIDE DEF P, m
<1>3. DOMAIN m = 1 .. Cardinality(P) /\ Cardinality(P) \in Nat
  BY <1>1, NthRank DEF Select
<1>4. \A i \in DOMAIN m : Nth(P, i) \in P /\ m[i] = more[Nth(P, i)] /\ Rank(P, Nth(P, i)) = i
  BY <1>1, <1>3, NthRank, SelectElements
<1>5. ASSUME NEW i \in DOMAIN m, NEW j \in DOMAIN m, m[i].name = m[j].name
      PROVE  i = j
  <2>1. Nth(P, i) <= Nth(P, j) /\ Nth(P, j) <= Nth(P, i) /\ Nth(P, i) \in Int /\ Nth(P, j) \in Int
    BY <1>1, <1>2, <1>4, <1>5
  <2>2. Nth(P, i) = Nth(P, j)
    BY <2>1
  <2>. QED
    BY <1>4, <2>2
<1>. QED
  BY <1>1, <1>2, <1>4, <1>5 DEF m

(***************************************************************************)
(* The names of a joined list are those of its parts.                      *)
(***************************************************************************)
LEMMA NamesOfJoined ==
    ASSUME NEW tools \in Seq(ToolType), NEW more \in Seq(ToolType), NEW name
    PROVE  name \in Names(tools \o more) <=> name \in Names(tools) \/ name \in Names(more)
<1>1. \A e : e \in Range(tools \o more) <=> e \in Range(tools) \/ e \in Range(more)
  BY JoinedRange
<1>. QED
  BY <1>1 DEF Names

(***************************************************************************)
(* The client's declarations of a joined list are those of its parts.      *)
(***************************************************************************)
LEMMA OwnJoined ==
    ASSUME NEW tools \in Seq(ToolType), NEW more \in Seq(ToolType)
    PROVE  Own(tools \o more) = Own(tools) \o Own(more)
<1>. DEFINE both == tools \o more
<1>1. /\ both \in Seq(ToolType) /\ Len(both) = Len(tools) + Len(more)
      /\ \A k \in DOMAIN tools : k \in DOMAIN both /\ both[k] = tools[k]
      /\ \A k \in DOMAIN more : Len(tools) + k \in DOMAIN both /\ both[Len(tools) + k] = more[k]
  OBVIOUS
<1>. HIDE DEF both
<1>2. Joins(both, OwnAt(both), tools, OwnAt(tools), more, OwnAt(more))
  BY <1>1 DEF Joins, OwnAt
<1>3. Select(both, OwnAt(both)) = Select(tools, OwnAt(tools)) \o Select(more, OwnAt(more))
  BY <1>1, <1>2, SelectJoined
<1>. QED
  BY <1>3 DEF Own, both

(***************************************************************************)
(* A list without declarations of the plugin is the client's, and one with *)
(* no others holds none of the client's.                                   *)
(***************************************************************************)
LEMMA OwnOnly ==
    ASSUME NEW tools \in Seq(ToolType)
    PROVE  /\ (\A k \in DOMAIN tools : tools[k].kind # "plugin") => Own(tools) = tools
           /\ (\A k \in DOMAIN tools : tools[k].kind = "plugin") => Own(tools) = <<>>
<1>1. ASSUME \A k \in DOMAIN tools : tools[k].kind # "plugin"
      PROVE  Own(tools) = tools
  <2>1. OwnAt(tools) = DOMAIN tools
    BY <1>1 DEF OwnAt
  <2>. QED
    BY <2>1, SelectAll DEF Own
<1>2. ASSUME \A k \in DOMAIN tools : tools[k].kind = "plugin"
      PROVE  Own(tools) = <<>>
  <2>1. OwnAt(tools) = {}
    BY <1>2 DEF OwnAt
  <2>. QED
    BY <2>1, SelectNone DEF Own
<1>. QED
  BY <1>1, <1>2

(***************************************************************************)
(* Appending what is missing keeps the plugin's declarations alone, and    *)
(* declares every name of the list.                                        *)
(***************************************************************************)
LEMMA AppendMissingAlone ==
    ASSUME NEW tools \in Seq(ToolType), NEW more \in Seq(ToolType), Alone(tools)
    PROVE  /\ AppendMissing(tools, more) \in Seq(ToolType)
           /\ Alone(AppendMissing(tools, more))
           /\ \A k \in DOMAIN more : more[k].name \in Names(AppendMissing(tools, more))
           /\ Own(AppendMissing(tools, more)) = Own(tools) \o Own(Missing(Names(tools), more))
<1>. DEFINE m == Missing(Names(tools), more)
            all == AppendMissing(tools, more)
<1>1. all = tools \o m
  BY DEF AppendMissing
<1>2. /\ m \in Seq(ToolType)
      /\ \A i \in DOMAIN m : m[i].name \notin Names(tools)
      /\ \A i, j \in DOMAIN m : m[i].name = m[j].name => i = j
  BY MissingNew
<1>3. \A k \in DOMAIN more : more[k].name \in Names(tools) \/ more[k].name \in Names(m)
  BY MissingCovers
<1>. HIDE DEF m, all
<1>4. /\ all \in Seq(ToolType) /\ DOMAIN all = 1 .. Len(tools) + Len(m)
      /\ Len(tools) \in Nat /\ Len(m) \in Nat
      /\ DOMAIN tools = 1 .. Len(tools) /\ DOMAIN m = 1 .. Len(m)
      /\ \A k \in DOMAIN tools : all[k] = tools[k]
      /\ \A k \in DOMAIN m : all[Len(tools) + k] = m[k]
  BY <1>1, <1>2
<1>5. \A k \in DOMAIN tools : tools[k].name \in Names(tools)
  BY DEF Names, Range
<1>6. \A k \in DOMAIN all : k \in DOMAIN tools \/ \E i \in DOMAIN m : k = Len(tools) + i
  <2>. TAKE k \in DOMAIN all
  <2>1. k > Len(tools) => k - Len(tools) \in 1 .. Len(m) /\ k = Len(tools) + (k - Len(tools))
    BY <1>4
  <2>. QED
    BY <1>4, <2>1
<1>7. Alone(all)
  <2>. SUFFICES ASSUME NEW i \in DOMAIN all, NEW j \in DOMAIN all,
                       all[i].kind = "plugin", all[i].name = all[j].name
                PROVE  i = j
    BY DEF Alone
  <2>1. CASE i \in DOMAIN tools /\ j \in DOMAIN tools
    BY <1>4, <2>1 DEF Alone
  <2>2. ASSUME NEW p \in DOMAIN m, i = Len(tools) + p, j \in DOMAIN tools
        PROVE  FALSE
    BY <1>2, <1>4, <1>5, <2>2
  <2>3. ASSUME NEW p \in DOMAIN m, j = Len(tools) + p, i \in DOMAIN tools
        PROVE  FALSE
    BY <1>2, <1>4, <1>5, <2>3
  <2>4. ASSUME NEW p \in DOMAIN m, NEW q \in DOMAIN m, i = Len(tools) + p, j = Len(tools) + q
        PROVE  i = j
    BY <1>2, <1>4, <2>4
  <2>. QED
    BY <1>6, <2>1, <2>2, <2>3, <2>4
<1>8. \A k \in DOMAIN more : more[k].name \in Names(all)
  BY <1>1, <1>2, <1>3, NamesOfJoined
<1>9. Own(all) = Own(tools) \o Own(m)
  BY <1>1, <1>2, OwnJoined
<1>. QED
  BY <1>4, <1>7, <1>8, <1>9 DEF all, m

(***************************************************************************)
(* The tools of a configuration are the plugin's.                          *)
(***************************************************************************)
LEMMA FingerprintToolsPlugin ==
    ASSUME NEW c \in ConfigType
    PROVE  \A k \in DOMAIN FingerprintTools(c) : FingerprintTools(c)[k].kind = "plugin"
<1>. DEFINE names == Keep(c.tools, LAMBDA n : n # NoName)
            list == IF names = <<>> THEN DefaultTools ELSE names
<1>1. FingerprintTools(c) = [k \in DOMAIN list |-> [name |-> list[k], kind |-> "plugin"]]
  BY DEF FingerprintTools
<1>. HIDE DEF list
<1>. QED
  BY <1>1

(***************************************************************************)
(* ensureTools: the client's declarations are those there were, the        *)
(* required ones are declared, and the plugin's are alone.                 *)
(***************************************************************************)
LEMMA ToolsEnsured ==
    ASSUME NEW tools \in Seq(ToolType), NEW c \in ConfigType, Alone(tools)
    PROVE  LET all == AppendMissing(tools, FingerprintTools(c))
           IN  /\ all \in Seq(ToolType) /\ Alone(all)
               /\ Names(FingerprintTools(c)) \subseteq Names(all)
               /\ Own(all) = Own(tools)
<1>. DEFINE more == FingerprintTools(c)
            m == Missing(Names(tools), more)
            all == AppendMissing(tools, more)
<1>1. more \in Seq(ToolType) /\ \A k \in DOMAIN more : more[k].kind = "plugin"
  BY FingerprintToolsType, FingerprintToolsPlugin
<1>. HIDE DEF more
<1>2. /\ all \in Seq(ToolType) /\ Alone(all)
      /\ \A k \in DOMAIN more : more[k].name \in Names(all)
      /\ Own(all) = Own(tools) \o Own(m)
  BY <1>1, AppendMissingAlone
<1>3. m \in Seq(ToolType) /\ \A i \in DOMAIN m : \E k \in DOMAIN more : m[i] = more[k]
  BY <1>1, MissingNew
<1>. HIDE DEF m, all
<1>4. Own(m) = <<>>
  <2>1. \A i \in DOMAIN m : m[i].kind = "plugin"
    BY <1>1, <1>3
  <2>. QED
    BY <1>3, <2>1, OwnOnly
<1>5. Own(tools) \in Seq(ToolType)
  <2>1. OwnAt(tools) \in SUBSET (DOMAIN tools)
    BY DEF OwnAt
  <2>. QED
    BY <2>1, SelectHas DEF Own
<1>6. Own(all) = Own(tools)
  BY <1>2, <1>4, <1>5, ConcatEmptySeq
<1>7. Names(more) \subseteq Names(all)
  BY <1>2 DEF Names, Range
<1>. QED
  BY <1>2, <1>6, <1>7 DEF all, more

-----------------------------------------------------------------------------
(* Responses bodies                                                        *)

\* Nothing is sealed and nothing is reasoning.
Readable(items) ==
    \A k \in DOMAIN items :
        items[k] # Junk => items[k].type # "reasoning" /\ ~ items[k].sealed

\* No turn carries tools beside the others.
Lifted(items) ==
    \A k \in DOMAIN items : items[k] # Junk => items[k].type # "additional_tools"

\* No turn that carries reasoning or tools holds the environment.
EnvironmentApart(items) ==
    \A k \in DOMAIN items :
        IsSystem(items[k]) /\ items[k].type \in {"reasoning", "additional_tools"}
            => ~ HasEnvironment(items[k].content)

(***************************************************************************)
(* stripReasoningItems leaves readable turns, no new ones, and the         *)
(* environment; a second pass leaves everything.                           *)
(***************************************************************************)
LEMMA ReasoningStripped ==
    ASSUME NEW items \in Seq(ItemType)
    PROVE  LET new == StripReasoningItems(items)
           IN  /\ new \in Seq(ItemType)
               /\ Readable(new)
               /\ EnvironmentApart(items) => EnvironmentApart(new)
               /\ EnvironmentApart(items) /\ MessagesHaveEnvironment(items)
                    => MessagesHaveEnvironment(new)
<1>. DEFINE P == {k \in DOMAIN items : items[k] = Junk \/ items[k].type # "reasoning"}
            keep == Select(items, P)
            Opens(t) == IF t = Junk THEN Junk ELSE [t EXCEPT !.sealed = FALSE]
            new == StripReasoningItems(items)
<1>1. new = [k \in DOMAIN keep |-> Opens(keep[k])]
  BY DEF StripReasoningItems, Keep
<1>2. /\ keep \in Seq(ItemType)
      /\ \A k \in DOMAIN keep : \E p \in P : keep[k] = items[p]
      /\ \A p \in P : \E k \in DOMAIN keep : keep[k] = items[p]
  <2>1. P \in SUBSET (DOMAIN items)
    OBVIOUS
  <2>. HIDE DEF P
  <2>. QED
    BY <2>1, SelectHas
<1>3. ASSUME NEW t \in ItemType
      PROVE  /\ Opens(t) \in ItemType
             /\ t # Junk => /\ Opens(t) # Junk /\ ~ Opens(t).sealed
                            /\ Opens(t).role = t.role /\ Opens(t).type = t.type
                            /\ Opens(t).content = t.content
             /\ t = Junk => Opens(t) = Junk
  <2>1. CASE t = Junk
    BY <2>1 DEF ItemType
  <2>2. CASE t # Junk
    <3>1. t \in TurnType
      BY <2>2 DEF ItemType
    <3>2. /\ [t EXCEPT !.sealed = FALSE] \in TurnType
          /\ LET u == [t EXCEPT !.sealed = FALSE]
             IN  ~ u.sealed /\ u.role = t.role /\ u.type = t.type /\ u.content = t.content
      BY <3>1 DEF TurnType
    <3>3. [t EXCEPT !.sealed = FALSE] # Junk
      BY <3>2, BodyAssumption
    <3>. QED
      BY <2>2, <3>2, <3>3 DEF ItemType
  <2>. QED
    BY <2>1, <2>2
<1>. HIDE DEF Opens, keep
<1>4. \A k \in DOMAIN keep : keep[k] \in ItemType /\ Opens(keep[k]) \in ItemType
  BY <1>2, <1>3
<1>5. new \in Seq(ItemType) /\ DOMAIN new = DOMAIN keep
      /\ \A k \in DOMAIN new : new[k] = Opens(keep[k])
  <2>1. DOMAIN keep = 1 .. Len(keep) /\ Len(keep) \in Nat
    BY <1>2
  <2>. QED
    BY <1>1, <1>4, <2>1
<1>6. \A k \in DOMAIN keep : keep[k] = Junk \/ keep[k].type # "reasoning"
  BY <1>2
<1>7. Readable(new)
  BY <1>3, <1>4, <1>5, <1>6 DEF Readable
<1>8. EnvironmentApart(items) => EnvironmentApart(new)
  <2>. SUFFICES ASSUME EnvironmentApart(items), NEW k \in DOMAIN new, IsSystem(new[k]),
                       new[k].type \in {"reasoning", "additional_tools"}
                PROVE  ~ HasEnvironment(new[k].content)
    BY DEF EnvironmentApart
  <2>1. PICK p \in P : keep[k] = items[p]
    BY <1>2, <1>5
  <2>2. /\ IsSystem(keep[k]) /\ new[k].type = keep[k].type
        /\ new[k].content = keep[k].content
    BY <1>3, <1>4, <1>5 DEF IsSystem
  <2>. QED
    BY <2>1, <2>2 DEF EnvironmentApart
<1>9. EnvironmentApart(items) /\ MessagesHaveEnvironment(items) => MessagesHaveEnvironment(new)
  <2>. SUFFICES ASSUME EnvironmentApart(items), NEW p \in DOMAIN items,
                       IsSystem(items[p]), HasEnvironment(items[p].content)
                PROVE  MessagesHaveEnvironment(new)
    BY DEF MessagesHaveEnvironment
  <2>1. items[p] # Junk
    BY DEF IsSystem
  <2>2. p \in P
    BY <2>1 DEF EnvironmentApart
  <2>3. PICK k \in DOMAIN keep : keep[k] = items[p]
    BY <1>2, <2>2
  <2>4. /\ k \in DOMAIN new /\ new[k] # Junk
        /\ new[k].role = items[p].role /\ new[k].content = items[p].content
    BY <1>3, <1>4, <1>5, <2>1, <2>3
  <2>. QED
    BY <2>4 DEF MessagesHaveEnvironment, IsSystem
<1>. QED
  BY <1>5, <1>7, <1>8, <1>9

(***************************************************************************)
(* Readable turns are left by it.                                          *)
(***************************************************************************)
LEMMA ReadableStays ==
    ASSUME NEW items \in Seq(ItemType), Readable(items)
    PROVE  StripReasoningItems(items) = items
<1>1. {k \in DOMAIN items : items[k] = Junk \/ items[k].type # "reasoning"} = DOMAIN items
  BY DEF Readable
<1>2. Select(items, DOMAIN items) = items
  BY SelectAll
<1>3. StripReasoningItems(items) =
        [k \in DOMAIN items |-> IF items[k] = Junk THEN Junk
                                ELSE [items[k] EXCEPT !.sealed = FALSE]]
  BY <1>1, <1>2 DEF StripReasoningItems, Keep
<1>4. \A k \in DOMAIN items :
        (IF items[k] = Junk THEN Junk ELSE [items[k] EXCEPT !.sealed = FALSE]) = items[k]
  <2>. TAKE k \in DOMAIN items
  <2>1. items[k] # Junk => items[k] \in TurnType /\ ~ items[k].sealed
    BY DEF ItemType, Readable
  <2>2. items[k] # Junk => [items[k] EXCEPT !.sealed = FALSE] = items[k]
    BY <2>1 DEF TurnType
  <2>. QED
    BY <2>2
<1>. QED
  BY <1>3, <1>4

(***************************************************************************)
(* stripAdditionalTools changes turns and tools only; it leaves no turn    *)
(* that carries tools, and of the others what the shaping relies on.       *)
(***************************************************************************)
LEMMA AdditionalStripped ==
    ASSUME NEW b \in BodyType, b.key = "input"
    PROVE  LET new == StripAdditionalTools(b)
           IN  /\ new \in BodyType /\ new.tools \in Seq(ToolType)
               /\ new = [b EXCEPT !.items = new.items, !.tools = new.tools]
               /\ Lifted(new.items)
               /\ Readable(b.items) => Readable(new.items)
               /\ EnvironmentApart(b.items) /\ MessagesHaveEnvironment(b.items)
                    => MessagesHaveEnvironment(new.items)
<1>. DEFINE P == {k \in DOMAIN b.items :
                    ~ (b.items[k] # Junk /\ b.items[k].type = "additional_tools")}
            Q == {k \in DOMAIN b.items :
                    b.items[k] # Junk /\ b.items[k].type = "additional_tools"}
            keep == Select(b.items, P)
            dropped == Select(b.items, Q)
            carried == [k \in DOMAIN dropped |-> dropped[k].tools]
            nested == FlattenSeq(carried)
            R == {k \in DOMAIN nested : nested[k].kind = "function" /\ nested[k].name # NoName}
            promoted == Select(nested, R)
            tools == AppendMissing(b.tools, promoted)
            new == StripAdditionalTools(b)
<1>1. new = [b EXCEPT !.items = keep, !.tools = tools]
  BY DEF StripAdditionalTools, Keep
<1>2. b.items \in Seq(ItemType) /\ b.tools \in Seq(ToolType)
  BY DEF BodyType
<1>3. /\ keep \in Seq(ItemType)
      /\ \A k \in DOMAIN keep : \E p \in P : keep[k] = b.items[p]
      /\ \A p \in P : \E k \in DOMAIN keep : keep[k] = b.items[p]
  <2>1. P \in SUBSET (DOMAIN b.items)
    OBVIOUS
  <2>. HIDE DEF P
  <2>. QED
    BY <1>2, <2>1, SelectHas
<1>4. dropped \in Seq(ItemType) /\ \A k \in DOMAIN dropped : \E p \in Q : dropped[k] = b.items[p]
  <2>1. Q \in SUBSET (DOMAIN b.items)
    OBVIOUS
  <2>. HIDE DEF Q
  <2>. QED
    BY <1>2, <2>1, SelectHas
<1>5. carried \in Seq(Seq(ToolType))
  <2>1. \A k \in DOMAIN dropped : dropped[k] \in TurnType
    BY <1>4 DEF ItemType
  <2>. HIDE DEF dropped
  <2>2. /\ DOMAIN dropped = 1 .. Len(dropped) /\ Len(dropped) \in Nat
        /\ \A k \in DOMAIN dropped : dropped[k].tools \in Seq(ToolType)
    BY <1>4, <2>1 DEF TurnType
  <2>. QED
    BY <2>2
<1>6. nested \in Seq(ToolType)
  <2>. HIDE DEF carried
  <2>. QED
    BY <1>5, FlattenType
<1>7. promoted \in Seq(ToolType)
  <2>. HIDE DEF nested
  <2>1. R \in SUBSET (DOMAIN nested)
    OBVIOUS
  <2>. HIDE DEF R
  <2>. QED
    BY <1>6, <2>1, SelectHas
<1>. HIDE DEF keep, promoted, new
<1>8. tools \in Seq(ToolType)
  BY <1>2, <1>7, AppendMissingTwice
<1>. HIDE DEF tools
<1>9. new.items = keep /\ new.tools = tools /\ new \in BodyType
  BY <1>1, <1>3, <1>8 DEF BodyType
<1>10. Lifted(keep)
  BY <1>3 DEF Lifted
<1>11. Readable(b.items) => Readable(keep)
  BY <1>3 DEF Readable
<1>12. EnvironmentApart(b.items) /\ MessagesHaveEnvironment(b.items) => MessagesHaveEnvironment(keep)
  <2>. SUFFICES ASSUME EnvironmentApart(b.items), NEW p \in DOMAIN b.items,
                       IsSystem(b.items[p]), HasEnvironment(b.items[p].content)
                PROVE  MessagesHaveEnvironment(keep)
    BY DEF MessagesHaveEnvironment
  <2>2. p \in P
    BY DEF EnvironmentApart
  <2>3. PICK k \in DOMAIN keep : keep[k] = b.items[p]
    BY <1>3, <2>2
  <2>. QED
    BY <2>3 DEF MessagesHaveEnvironment
<1>. QED
  BY <1>1, <1>8, <1>9, <1>10, <1>11, <1>12 DEF new

(***************************************************************************)
(* A body without such turns is left by it.                                *)
(***************************************************************************)
LEMMA LiftedStays ==
    ASSUME NEW b \in BodyType, b.key = "input", Lifted(b.items)
    PROVE  StripAdditionalTools(b) = b
<1>. DEFINE P == {k \in DOMAIN b.items :
                    ~ (b.items[k] # Junk /\ b.items[k].type = "additional_tools")}
            Q == {k \in DOMAIN b.items :
                    b.items[k] # Junk /\ b.items[k].type = "additional_tools"}
            carried == [k \in DOMAIN Select(b.items, Q) |-> Select(b.items, Q)[k].tools]
            nested == FlattenSeq(carried)
            R == {k \in DOMAIN nested : nested[k].kind = "function" /\ nested[k].name # NoName}
<1>1. StripAdditionalTools(b) =
        [b EXCEPT !.items = Select(b.items, P),
                  !.tools = AppendMissing(b.tools, Select(nested, R))]
  BY DEF StripAdditionalTools, Keep
<1>2. b.items \in Seq(ItemType) /\ b.tools \in Seq(ToolType)
  BY DEF BodyType
<1>3. P = DOMAIN b.items /\ Q = {}
  BY DEF Lifted
<1>4. Select(b.items, P) = b.items
  BY <1>2, <1>3, SelectAll
<1>5. carried = <<>>
  <2>. DEFINE dropped == Select(b.items, Q)
  <2>1. dropped = <<>>
    BY <1>3, SelectNone
  <2>2. carried = [k \in DOMAIN dropped |-> dropped[k].tools]
    OBVIOUS
  <2>. HIDE DEF dropped, carried
  <2>. QED
    BY <2>1, <2>2
<1>6. nested = <<>>
  BY <1>5 DEF FlattenSeq
<1>7. R = {}
  <2>. HIDE DEF nested
  <2>1. DOMAIN nested = {}
    BY <1>6
  <2>. QED
    BY <2>1
<1>8. Select(nested, R) = <<>>
  BY <1>7, SelectNone
<1>9. AppendMissing(b.tools, <<>>) = b.tools
  <2>1. <<>> \in Seq(ToolType)
    OBVIOUS
  <2>. QED
    BY <1>2, <2>1, AppendMissingTwice
<1>10. StripAdditionalTools(b) = [b EXCEPT !.items = b.items, !.tools = b.tools]
  BY <1>1, <1>4, <1>8, <1>9
<1>. QED
  BY <1>10 DEF BodyType

(***************************************************************************)
(* A turn that carries tools is not dropped by stripReasoningItems.        *)
(***************************************************************************)
LEMMA CarriersStay ==
    ASSUME NEW items \in Seq(ItemType), NEW p \in DOMAIN items, items[p] # Junk,
           items[p].type = "additional_tools"
    PROVE  LET new == StripReasoningItems(items)
           IN  \E k \in DOMAIN new : /\ new[k] # Junk /\ new[k].type = "additional_tools"
                                     /\ new[k].tools = items[p].tools
<1>. DEFINE P == {k \in DOMAIN items : items[k] = Junk \/ items[k].type # "reasoning"}
            keep == Select(items, P)
            t == items[p]
            u == [t EXCEPT !.sealed = FALSE]
<1>1. StripReasoningItems(items) =
        [k \in DOMAIN keep |-> IF keep[k] = Junk THEN Junk ELSE [keep[k] EXCEPT !.sealed = FALSE]]
  BY DEF StripReasoningItems, Keep
<1>2. p \in P
  OBVIOUS
<1>3. PICK k \in DOMAIN keep : keep[k] = t
  <2>1. P \in SUBSET (DOMAIN items)
    OBVIOUS
  <2>. HIDE DEF P
  <2>. QED
    BY <1>2, <2>1, SelectHas
<1>4. t \in TurnType
  BY DEF ItemType
<1>5. u \in TurnType /\ u.type = t.type /\ u.tools = t.tools
  BY <1>4 DEF TurnType
<1>6. u # Junk
  BY <1>5, BodyAssumption
<1>. HIDE DEF keep
<1>7. k \in DOMAIN StripReasoningItems(items) /\ StripReasoningItems(items)[k] = u
  BY <1>1, <1>3
<1>. QED
  BY <1>5, <1>6, <1>7

(***************************************************************************)
(* stripAdditionalTools appends what is missing of the functions with a    *)
(* name that the dropped turns carry.                                      *)
(***************************************************************************)
LEMMA AdditionalPromoted ==
    ASSUME NEW b \in BodyType, b.key = "input"
    PROVE  \E promoted \in Seq(ToolType) :
            /\ StripAdditionalTools(b).tools = AppendMissing(b.tools, promoted)
            /\ \A k \in DOMAIN promoted : promoted[k].kind = "function"
            /\ \A p \in DOMAIN b.items :
                b.items[p] # Junk /\ b.items[p].type = "additional_tools" =>
                    \A t \in Range(b.items[p].tools) :
                        t.kind = "function" /\ t.name # NoName => t \in Range(promoted)
<1>. DEFINE Q == {k \in DOMAIN b.items :
                    b.items[k] # Junk /\ b.items[k].type = "additional_tools"}
            dropped == Select(b.items, Q)
            carried == [k \in DOMAIN dropped |-> dropped[k].tools]
            nested == FlattenSeq(carried)
            R == {k \in DOMAIN nested : nested[k].kind = "function" /\ nested[k].name # NoName}
            promoted == Select(nested, R)
<1>1. StripAdditionalTools(b).tools = AppendMissing(b.tools, promoted)
  BY DEF StripAdditionalTools, Keep, BodyType
<1>2. /\ dropped \in Seq(ItemType)
      /\ \A k \in DOMAIN dropped : \E p \in Q : dropped[k] = b.items[p]
      /\ \A p \in Q : \E k \in DOMAIN dropped : dropped[k] = b.items[p]
  <2>1. Q \in SUBSET (DOMAIN b.items) /\ b.items \in Seq(ItemType)
    BY DEF BodyType
  <2>. HIDE DEF Q
  <2>. QED
    BY <2>1, SelectHas
<1>3. carried \in Seq(Seq(ToolType))
  <2>1. \A k \in DOMAIN dropped : dropped[k] \in TurnType
    BY <1>2 DEF ItemType
  <2>. HIDE DEF dropped
  <2>2. /\ DOMAIN dropped = 1 .. Len(dropped) /\ Len(dropped) \in Nat
        /\ \A k \in DOMAIN dropped : dropped[k].tools \in Seq(ToolType)
    BY <1>2, <2>1 DEF TurnType
  <2>. QED
    BY <2>2
<1>4. \A p \in Q : \E k \in DOMAIN carried : carried[k] = b.items[p].tools
  <2>. HIDE DEF dropped, Q
  <2>. QED
    BY <1>2
<1>. HIDE DEF carried
<1>5. /\ nested \in Seq(ToolType)
      /\ \A e : e \in Range(nested) <=> \E k \in DOMAIN carried : e \in Range(carried[k])
  BY <1>3, FlattenType, FlattenRange
<1>. HIDE DEF nested
<1>6. /\ promoted \in Seq(ToolType)
      /\ \A k \in DOMAIN promoted : \E p \in R : promoted[k] = nested[p]
      /\ \A p \in R : \E k \in DOMAIN promoted : promoted[k] = nested[p]
  <2>1. R \in SUBSET (DOMAIN nested)
    OBVIOUS
  <2>. HIDE DEF R
  <2>. QED
    BY <1>5, <2>1, SelectHas
<1>. HIDE DEF promoted
<1>7. \A k \in DOMAIN promoted : promoted[k].kind = "function"
  BY <1>6
<1>8. ASSUME NEW p \in Q, NEW t \in Range(b.items[p].tools), t.kind = "function", t.name # NoName
      PROVE  t \in Range(promoted)
  <2>1. t \in Range(nested)
    BY <1>4, <1>5
  <2>2. PICK r \in DOMAIN nested : nested[r] = t
    BY <2>1 DEF Range
  <2>3. r \in R
    BY <1>8, <2>2
  <2>. QED
    BY <1>6, <2>2, <2>3 DEF Range
<1>9. \A p \in DOMAIN b.items :
        b.items[p] # Junk /\ b.items[p].type = "additional_tools" => p \in Q
  OBVIOUS
<1>. HIDE DEF Q
<1>. QED
  BY <1>1, <1>6, <1>7, <1>8, <1>9

(***************************************************************************)
(* A sequence is a prefix of what continues it.                            *)
(***************************************************************************)
LEMMA PrefixContinued ==
    ASSUME NEW S, NEW s \in Seq(S), NEW t \in Seq(S)
    PROVE  IsPrefix(s, s \o t) /\ IsPrefix(s, s)
<1>. DEFINE u == s \o t
<1>1. /\ Len(s) \in Nat /\ Len(t) \in Nat /\ Len(u) = Len(s) + Len(t) /\ u \in Seq(S)
      /\ \A k \in 1 .. Len(s) : u[k] = s[k]
  OBVIOUS
<1>. HIDE DEF u
<1>2. SubSeq(s, 1, Len(s)) = SubSeq(u, 1, Len(s))
  BY <1>1
<1>. QED
  BY <1>1, <1>2 DEF IsPrefix, u

-----------------------------------------------------------------------------
(* Gemini's groups                                                         *)

(***************************************************************************)
(* A second pass of ensureGeminiTools finds nothing missing.               *)
(***************************************************************************)
LEMMA GeminiToolsTwice ==
    ASSUME NEW groups \in Seq(Seq(ToolType) \cup {Odd}), NEW required \in Seq(ToolType)
    PROVE  LET new == EnsureGeminiTools(groups, required)
           IN  /\ new \in Seq(Seq(ToolType) \cup {Odd})
               /\ EnsureGeminiTools(new, required) = new
<1>. DEFINE Present(gs) == UNION {Names(g) : g \in {h \in Range(gs) : h # Odd}}
            I == {i \in 1 .. Len(groups) : groups[i] # Odd}
            first == IF I # {} THEN Min(I) ELSE 0
            missing == Missing(Present(groups), required)
            new == EnsureGeminiTools(groups, required)
<1>1. new = IF missing = <<>> THEN groups
            ELSE IF first = 0 THEN Append(groups, missing)
            ELSE [groups EXCEPT ![first] = @ \o missing]
  BY DEF EnsureGeminiTools, SelectInSeq
<1>2. /\ DOMAIN groups = 1 .. Len(groups) /\ Len(groups) \in Nat
      /\ \A i \in DOMAIN groups : groups[i] # Odd => groups[i] \in Seq(ToolType)
  OBVIOUS
<1>3. first # 0 => first \in DOMAIN groups /\ groups[first] # Odd
  <2>1. I \in SUBSET Nat /\ \A i \in I : i \in DOMAIN groups /\ groups[i] # Odd
    BY <1>2
  <2>. HIDE DEF I
  <2>2. I # {} => Min(I) \in I
    BY <2>1, LeastNumber DEF Min
  <2>. QED
    BY <2>1, <2>2
<1>4. missing \in Seq(ToolType) /\ missing # Odd
  BY MissingType, BodyAssumption
<1>5. ASSUME NEW gs \in Seq(Seq(ToolType) \cup {Odd}),
             \A k \in DOMAIN required : required[k].name \in Present(gs)
      PROVE  EnsureGeminiTools(gs, required) = gs
  <2>1. Missing(Present(gs), required) = <<>>
    <3>. HIDE DEF Present
    <3>. QED
      BY <1>5, MissingNone
  <2>. QED
    BY <2>1 DEF EnsureGeminiTools
<1>6. \A gs, name : name \in Present(gs)
            <=> \E i \in DOMAIN gs : gs[i] # Odd /\ name \in Names(gs[i])
  BY DEF Range
<1>7. \A k \in DOMAIN required :
        \/ required[k].name \in Present(groups)
        \/ required[k].name \in Names(missing)
  <2>. HIDE DEF Present
  <2>. QED
    BY MissingCovers
<1>. HIDE DEF Present, missing, first, new
<1>8. CASE missing = <<>>
  <2>1. Names(missing) = {}
    BY <1>8 DEF Names, Range
  <2>. QED
    BY <1>1, <1>5, <1>7, <1>8, <2>1 DEF new
<1>9. CASE missing # <<>> /\ first = 0
  <2>1. new = Append(groups, missing)
    BY <1>1, <1>9
  <2>2. /\ new \in Seq(Seq(ToolType) \cup {Odd})
        /\ DOMAIN new = 1 .. Len(groups) + 1
        /\ \A i \in DOMAIN groups : i \in DOMAIN new /\ new[i] = groups[i]
        /\ new[Len(groups) + 1] = missing
        /\ Len(groups) + 1 \in DOMAIN new
    BY <1>2, <1>4, <2>1
  <2>3. \A k \in DOMAIN required : required[k].name \in Present(new)
    BY <1>4, <1>6, <1>7, <2>2
  <2>. QED
    BY <1>5, <2>2, <2>3 DEF new
<1>10. CASE missing # <<>> /\ first # 0
  <2>1. new = [groups EXCEPT ![first] = groups[first] \o missing]
    BY <1>1, <1>10
  <2>2. first \in DOMAIN groups /\ groups[first] \in Seq(ToolType)
    BY <1>2, <1>3, <1>10
  <2>3. /\ groups[first] \o missing \in Seq(ToolType)
        /\ \A name : name \in Names(groups[first]) \/ name \in Names(missing)
                        => name \in Names(groups[first] \o missing)
    BY <1>4, <2>2, JoinedNames
  <2>. DEFINE joined == groups[first] \o missing
  <2>4. joined # Odd
    BY <2>3, BodyAssumption
  <2>. HIDE DEF joined
  <2>5. /\ new \in Seq(Seq(ToolType) \cup {Odd})
        /\ DOMAIN new = DOMAIN groups /\ new[first] = joined
        /\ \A i \in DOMAIN groups : i # first => new[i] = groups[i]
    <3>1. joined \in Seq(ToolType) \cup {Odd}
      BY <2>3 DEF joined
    <3>. QED
      BY <1>2, <2>1, <2>2, <3>1 DEF joined
  <2>6. \A k \in DOMAIN required : required[k].name \in Present(new)
    <3>. TAKE k \in DOMAIN required
    <3>1. CASE required[k].name \in Names(missing)
      BY <1>6, <2>2, <2>3, <2>4, <2>5, <3>1 DEF joined
    <3>2. CASE required[k].name \in Present(groups)
      <4>1. PICK i \in DOMAIN groups : groups[i] # Odd /\ required[k].name \in Names(groups[i])
        BY <1>6, <3>2
      <4>. QED
        BY <1>6, <2>2, <2>3, <2>4, <2>5, <4>1 DEF joined
    <3>. QED
      BY <1>7, <3>1, <3>2
  <2>. QED
    BY <1>5, <2>5, <2>6 DEF new
<1>. QED
  BY <1>8, <1>9, <1>10

DeclaringAt(groups) == {k \in DOMAIN groups : groups[k] # Odd}

\* The declarations of all groups.
Joined(groups) == FlattenSeq(Select(groups, DeclaringAt(groups)))

(***************************************************************************)
(* The groups that declare something, and the names they declare.          *)
(***************************************************************************)
LEMMA JoinedGroups ==
    ASSUME NEW groups \in Seq(Seq(ToolType) \cup {Odd})
    PROVE  /\ Select(groups, DeclaringAt(groups)) \in Seq(Seq(ToolType))
           /\ Joined(groups) \in Seq(ToolType)
           /\ \A e : e \in Range(Joined(groups))
                <=> \E i \in DOMAIN groups : groups[i] # Odd /\ e \in Range(groups[i])
<1>. DEFINE P == DeclaringAt(groups)
            ss == Select(groups, P)
<1>1. P \in SUBSET (DOMAIN groups) /\ \A p \in P : groups[p] \in Seq(ToolType)
  BY DEF DeclaringAt
<1>. HIDE DEF P
<1>2. /\ P \in SUBSET Int /\ IsFiniteSet(P)
      /\ \A k \in DOMAIN ss : \E p \in P : ss[k] = groups[p]
      /\ \A p \in P : \E k \in DOMAIN ss : ss[k] = groups[p]
  BY <1>1, SelectHas
<1>3. ss \in Seq(Seq(ToolType))
  BY <1>1, <1>2, SelectType
<1>. HIDE DEF ss
<1>4. /\ FlattenSeq(ss) \in Seq(ToolType)
      /\ \A e : e \in Range(FlattenSeq(ss)) <=> \E i \in DOMAIN ss : e \in Range(ss[i])
  BY <1>3, FlattenType, FlattenRange
<1>5. Joined(groups) = FlattenSeq(ss)
  BY DEF Joined, ss, P
<1>6. \A i : i \in P <=> i \in DOMAIN groups /\ groups[i] # Odd
  BY DEF P, DeclaringAt
<1>7. \A e : (\E i \in DOMAIN ss : e \in Range(ss[i])) <=> \E p \in P : e \in Range(groups[p])
  BY <1>2, Zenon
<1>8. \A e : e \in Range(Joined(groups))
                <=> \E i \in DOMAIN groups : groups[i] # Odd /\ e \in Range(groups[i])
  BY <1>4, <1>5, <1>6, <1>7
<1>. QED
  BY <1>3, <1>4, <1>5, <1>8 DEF ss, P

(***************************************************************************)
(* ensureGeminiTools puts what is missing somewhere between the            *)
(* declarations there are.                                                 *)
(***************************************************************************)
LEMMA GeminiToolsBetween ==
    ASSUME NEW groups \in Seq(Seq(ToolType) \cup {Odd}), NEW required \in Seq(ToolType)
    PROVE  \E x, y \in Seq(ToolType) :
                /\ Joined(groups) = x \o y
                /\ Joined(EnsureGeminiTools(groups, required))
                        = (x \o Missing(Names(Joined(groups)), required)) \o y
<1>. DEFINE present == UNION {Names(g) : g \in {h \in Range(groups) : h # Odd}}
            I == {i \in 1 .. Len(groups) : groups[i] # Odd}
            P == DeclaringAt(groups)
            first == IF I # {} THEN Min(I) ELSE 0
            missing == Missing(present, required)
            before == Joined(groups)
            new == EnsureGeminiTools(groups, required)
            T == Seq(ToolType) \cup {Odd}
<1>1. new = IF missing = <<>> THEN groups
            ELSE IF first = 0 THEN Append(groups, missing)
            ELSE [groups EXCEPT ![first] = @ \o missing]
  BY DEF EnsureGeminiTools, SelectInSeq
<1>2. /\ before \in Seq(ToolType)
      /\ \A e : e \in Range(before)
            <=> \E i \in DOMAIN groups : groups[i] # Odd /\ e \in Range(groups[i])
      /\ Select(groups, P) \in Seq(Seq(ToolType))
      /\ before = FlattenSeq(Select(groups, P))
  BY JoinedGroups DEF Joined
<1>3. present = Names(before)
  <2>1. \A name : name \in present
            <=> \E i \in DOMAIN groups : groups[i] # Odd /\ name \in Names(groups[i])
    BY DEF Range
  <2>2. \A name : name \in Names(before)
            <=> \E i \in DOMAIN groups : groups[i] # Odd /\ name \in Names(groups[i])
    <3>. HIDE DEF before
    <3>. QED
      BY <1>2 DEF Names
  <2>. HIDE DEF present, before
  <2>3. \A name : name \in present <=> name \in Names(before)
    BY <2>1, <2>2, Zenon
  <2>. QED
    BY <2>3
<1>4. missing \in Seq(ToolType) /\ missing # Odd
  BY MissingType, BodyAssumption
<1>5. /\ DOMAIN groups = 1 .. Len(groups) /\ Len(groups) \in Nat
      /\ I = P /\ P \in SUBSET (DOMAIN groups) /\ P \in SUBSET Nat
      /\ \A p \in P : groups[p] \in Seq(ToolType)
  BY DEF DeclaringAt
<1>6. (first = 0 => P = {}) /\ (first # 0 => first \in P /\ \A p \in P : first <= p)
  <2>1. first = IF P # {} THEN Min(P) ELSE 0
    BY <1>5
  <2>2. P # {} => Min(P) \in P /\ \A p \in P : Min(P) <= p
    <3>. HIDE DEF P
    <3>. QED
      BY <1>5, LeastNumber DEF Min
  <2>3. \A p \in P : p # 0
    BY <1>5
  <2>. HIDE DEF P, first
  <2>. QED
    BY <2>1, <2>2, <2>3
<1>7. <<>> \in Seq(ToolType) /\ \A s \in Seq(ToolType) : s \o <<>> = s /\ <<>> \o s = s
  BY ConcatEmptySeq
<1>8. T = Seq(ToolType) \cup {Odd}
  OBVIOUS
<1>. HIDE DEF present, I, first, missing, before, new, T
<1>9. CASE missing = <<>>
  <2>1. Joined(new) = before /\ before = before \o <<>> /\ (before \o <<>>) \o <<>> = before
    BY <1>1, <1>2, <1>7, <1>9 DEF before
  <2>2. Missing(Names(Joined(groups)), required) = <<>>
    BY <1>3, <1>9 DEF missing, before
  <2>. QED
    BY <1>2, <1>7, <2>1, <2>2 DEF before, new
<1>10. CASE missing # <<>> /\ first = 0
  <2>. DEFINE n == Len(groups) + 1
              R == DeclaringAt(new)
  <2>1. new = Append(groups, missing)
    BY <1>1, <1>10
  <2>2. new \in Seq(T) /\ DOMAIN new = 1 .. n /\ n \in DOMAIN new /\ new[n] = missing
        /\ \A i \in DOMAIN groups : new[i] = groups[i]
    BY <1>4, <1>5, <1>8, <2>1
  <2>3. \A k \in DOMAIN groups : groups[k] = Odd
    BY <1>6, <1>10 DEF DeclaringAt
  <2>4. \A k \in DOMAIN new : k \in DOMAIN groups \/ k = n
    BY <1>5, <2>2
  <2>5. R = {n}
    BY <1>4, <2>2, <2>3, <2>4 DEF DeclaringAt
  <2>. HIDE DEF n, R
  <2>6. Select(new, R) = <<missing>> \o <<>>
    <3>1. /\ R \in SUBSET (DOMAIN new) /\ n \in R /\ \A p \in R : n <= p
          /\ R \ {n} = {}
      BY <1>5, <2>2, <2>5 DEF n
    <3>2. Select(new, R) = <<new[n]>> \o Select(new, R \ {n})
      BY <2>2, <3>1, SelectFirst
    <3>. QED
      BY <2>2, <3>1, <3>2, SelectNone
  <2>7. FlattenSeq(<<missing>> \o <<>>) = missing \o FlattenSeq(<<>>)
    <3>. DEFINE ss == <<>>
    <3>1. ss \in Seq(Seq(ToolType))
      OBVIOUS
    <3>. HIDE DEF ss
    <3>2. FlattenSeq(<<missing>> \o ss) = missing \o FlattenSeq(ss)
      BY <1>4, <3>1, FlattenFirst
    <3>. QED
      BY <3>2 DEF ss
  <2>8. FlattenSeq(<<>>) = <<>>
    BY DEF FlattenSeq
  <2>9. Joined(new) = missing
    BY <1>4, <1>7, <2>6, <2>7, <2>8 DEF Joined, R
  <2>10. before = <<>>
    BY <1>2, <1>6, <1>10, <2>8, SelectNone
  <2>11. missing = Missing(Names(Joined(groups)), required)
    BY <1>3 DEF missing, before
  <2>12. before = <<>> \o <<>> /\ Joined(new) = (<<>> \o missing) \o <<>>
    BY <1>4, <1>7, <2>9, <2>10
  <2>. QED
    BY <1>7, <2>11, <2>12 DEF before, new
<1>11. CASE missing # <<>> /\ first # 0
  <2>. DEFINE g == groups[first]
              joined == g \o missing
              rest == Select(groups, P \ {first})
  <2>1. first \in P /\ (\A p \in P : first <= p) /\ g \in Seq(ToolType)
    BY <1>5, <1>6, <1>11
  <2>2. new = [groups EXCEPT ![first] = joined]
    BY <1>1, <1>11
  <2>3. joined \in Seq(ToolType)
    BY <1>4, <2>1
  <2>4. joined # Odd
    BY <2>3, BodyAssumption
  <2>. HIDE DEF joined, g
  <2>5. /\ new \in Seq(T) /\ DOMAIN new = DOMAIN groups /\ new[first] = joined
        /\ \A i \in DOMAIN groups : i # first => new[i] = groups[i]
    BY <1>5, <1>8, <2>1, <2>2, <2>3
  <2>6. DeclaringAt(new) = P
    BY <1>5, <2>1, <2>4, <2>5 DEF DeclaringAt
  <2>. HIDE DEF P
  <2>7. Select(groups, P) = <<g>> \o rest
    <3>1. groups \in Seq(T)
      BY <1>8
    <3>. QED
      BY <1>5, <2>1, <3>1, SelectFirst DEF g
  <2>8. Select(new, P) = <<joined>> \o Select(new, P \ {first})
    <3>1. P \in SUBSET (DOMAIN new)
      BY <1>5, <2>5
    <3>2. Select(new, P) = <<new[first]>> \o Select(new, P \ {first})
      BY <2>1, <2>5, <3>1, SelectFirst
    <3>. QED
      BY <2>5, <3>2
  <2>9. Select(new, P \ {first}) = rest /\ rest \in Seq(Seq(ToolType))
    <3>. DEFINE Q == P \ {first}
    <3>1. /\ Q \in SUBSET (1 .. Len(groups))
          /\ \A q \in Q : groups[q] = new[q] /\ groups[q] \in Seq(ToolType)
      BY <1>5, <2>5
    <3>2. rest = Select(groups, Q)
      OBVIOUS
    <3>. HIDE DEF Q
    <3>3. Q \in SUBSET Int /\ IsFiniteSet(Q)
      BY <1>5, <3>1, PositionsFinite
    <3>4. Select(groups, Q) = Select(new, Q)
      BY <3>1, <3>3, SelectSame
    <3>5. Select(groups, Q) \in Seq(Seq(ToolType))
      BY <3>1, <3>3, SelectType
    <3>. QED
      BY <3>2, <3>4, <3>5 DEF Q
  <2>. HIDE DEF rest
  <2>10. /\ FlattenSeq(<<g>> \o rest) = g \o FlattenSeq(rest)
         /\ FlattenSeq(<<joined>> \o rest) = joined \o FlattenSeq(rest)
    BY <2>1, <2>3, <2>9, FlattenFirst
  <2>11. before = g \o FlattenSeq(rest)
    BY <1>2, <2>7, <2>10
  <2>12. Joined(new) = (g \o missing) \o FlattenSeq(rest)
    BY <2>6, <2>8, <2>9, <2>10 DEF Joined, joined
  <2>13. FlattenSeq(rest) \in Seq(ToolType)
    BY <2>9, FlattenType
  <2>14. missing = Missing(Names(Joined(groups)), required)
    BY <1>3 DEF missing, before
  <2>. QED
    BY <2>1, <2>11, <2>12, <2>13, <2>14 DEF before, new
<1>. QED
  BY <1>9, <1>10, <1>11

(***************************************************************************)
(* The same of Gemini's groups as of a list: the client's declarations are *)
(* those there were, the required ones are declared, the plugin's alone.   *)
(***************************************************************************)
LEMMA GeminiToolsEnsured ==
    ASSUME NEW groups \in Seq(Seq(ToolType) \cup {Odd}), NEW c \in ConfigType,
           \A k \in DOMAIN Joined(groups) : Joined(groups)[k].kind # "plugin"
    PROVE  LET all == Joined(EnsureGeminiTools(groups, FingerprintTools(c)))
           IN  /\ all \in Seq(ToolType) /\ Alone(all)
               /\ Names(FingerprintTools(c)) \subseteq Names(all)
               /\ Own(all) = Joined(groups)
<1>. DEFINE more == FingerprintTools(c)
            before == Joined(groups)
            m == Missing(Names(before), more)
            all == Joined(EnsureGeminiTools(groups, more))
<1>1. more \in Seq(ToolType) /\ \A k \in DOMAIN more : more[k].kind = "plugin"
  BY FingerprintToolsType, FingerprintToolsPlugin
<1>. HIDE DEF more
<1>2. PICK x \in Seq(ToolType), y \in Seq(ToolType) : before = x \o y /\ all = (x \o m) \o y
  BY <1>1, GeminiToolsBetween
<1>3. /\ m \in Seq(ToolType)
      /\ \A i \in DOMAIN m : m[i].name \notin Names(before)
      /\ \A i \in DOMAIN m : \E k \in DOMAIN more : m[i] = more[k]
      /\ \A i, j \in DOMAIN m : m[i].name = m[j].name => i = j
  BY <1>1, MissingNew
<1>4. \A k \in DOMAIN more : more[k].name \in Names(before) \/ more[k].name \in Names(m)
  BY <1>1, MissingCovers
<1>5. \A k \in DOMAIN before : before[k].kind # "plugin"
  OBVIOUS
<1>. HIDE DEF before, m, all
<1>6. /\ \A k \in DOMAIN x : x[k].kind # "plugin" /\ x[k].name \in Names(before)
      /\ \A k \in DOMAIN y : y[k].kind # "plugin" /\ y[k].name \in Names(before)
  <2>1. /\ DOMAIN x = 1 .. Len(x) /\ \A k \in DOMAIN x : k \in DOMAIN before /\ before[k] = x[k]
        /\ \A k \in DOMAIN y : Len(x) + k \in DOMAIN before /\ before[Len(x) + k] = y[k]
    BY <1>2
  <2>2. \A k \in DOMAIN before : before[k].name \in Names(before)
    BY DEF Names, Range
  <2>. QED
    BY <1>5, <2>1, <2>2
<1>. DEFINE xm == x \o m
<1>7. /\ xm \in Seq(ToolType) /\ Len(xm) = Len(x) + Len(m)
      /\ DOMAIN x = 1 .. Len(x) /\ DOMAIN m = 1 .. Len(m)
      /\ Len(x) \in Nat /\ Len(m) \in Nat
      /\ \A k \in DOMAIN x : xm[k] = x[k]
      /\ \A k \in DOMAIN m : xm[Len(x) + k] = m[k]
  BY <1>3
<1>8. all = xm \o y
  BY <1>2
<1>9. Own(all) = before
  <2>1. Own(x) = x /\ Own(y) = y
    BY <1>6, OwnOnly
  <2>2. Own(m) = <<>>
    <3>1. \A i \in DOMAIN m : m[i].kind = "plugin"
      BY <1>1, <1>3
    <3>. QED
      BY <1>3, <3>1, OwnOnly
  <2>3. Own(xm) = x \o <<>>
    BY <1>3, <2>1, <2>2, OwnJoined
  <2>4. Own(xm) = x
    BY <2>3, ConcatEmptySeq
  <2>. HIDE DEF xm
  <2>5. Own(all) = Own(xm) \o Own(y)
    BY <1>7, <1>8, OwnJoined
  <2>. QED
    BY <1>2, <2>1, <2>4, <2>5
<1>. HIDE DEF xm
<1>10. /\ all \in Seq(ToolType) /\ DOMAIN all = 1 .. Len(xm) + Len(y)
       /\ DOMAIN y = 1 .. Len(y) /\ Len(y) \in Nat
       /\ DOMAIN xm = 1 .. Len(xm)
       /\ \A k \in DOMAIN xm : all[k] = xm[k]
       /\ \A k \in DOMAIN y : all[Len(xm) + k] = y[k]
  <2>1. xm \in Seq(ToolType)
    BY <1>7
  <2>. QED
    BY <1>8, <2>1
<1>. DEFINE a == Len(x)
<1>11. ASSUME NEW i \in DOMAIN all
       PROVE  \/ \E k \in DOMAIN m : i = a + k /\ all[i] = m[k]
              \/ all[i].kind # "plugin" /\ all[i].name \in Names(before)
  <2>1. CASE i \in 1 .. a
    BY <1>6, <1>7, <1>10, <2>1
  <2>2. CASE i > a /\ i <= Len(xm)
    <3>1. i - a \in DOMAIN m /\ a + (i - a) = i /\ i \in DOMAIN xm
      BY <1>7, <1>10, <2>2
    <3>2. xm[a + (i - a)] = m[i - a]
      BY <1>7, <3>1
    <3>. QED
      BY <1>10, <3>1, <3>2
  <2>3. CASE i > Len(xm)
    <3>1. i - Len(xm) \in DOMAIN y /\ Len(xm) + (i - Len(xm)) = i
      BY <1>7, <1>10, <2>3
    <3>2. all[Len(xm) + (i - Len(xm))] = y[i - Len(xm)]
      BY <1>10, <3>1
    <3>. QED
      BY <1>6, <3>1, <3>2
  <2>. QED
    BY <1>7, <1>10, <2>1, <2>2, <2>3
<1>. HIDE DEF a
<1>12. Alone(all)
  <2>. SUFFICES ASSUME NEW i \in DOMAIN all, NEW j \in DOMAIN all,
                       all[i].kind = "plugin", all[i].name = all[j].name
                PROVE  i = j
    BY DEF Alone
  <2>1. PICK p \in DOMAIN m : i = a + p /\ all[i] = m[p]
    BY <1>11
  <2>2. all[j].name \notin Names(before)
    BY <1>3, <2>1
  <2>3. PICK q \in DOMAIN m : j = a + q /\ all[j] = m[q]
    BY <1>11, <2>2
  <2>4. p = q
    BY <1>3, <2>1, <2>3
  <2>. QED
    BY <2>1, <2>3, <2>4
<1>13. \A name : name \in Names(before) \/ name \in Names(m) => name \in Names(all)
  <2>. TAKE name
  <2>1. name \in Names(before) <=> name \in Names(x) \/ name \in Names(y)
    BY <1>2, NamesOfJoined
  <2>2. name \in Names(xm) <=> name \in Names(x) \/ name \in Names(m)
    BY <1>3, NamesOfJoined DEF xm
  <2>3. name \in Names(all) <=> name \in Names(xm) \/ name \in Names(y)
    BY <1>7, <1>8, NamesOfJoined
  <2>. QED
    BY <2>1, <2>2, <2>3
<1>14. Names(more) \subseteq Names(all)
  <2>1. \A t \in Range(more) : t.name \in Names(all)
    BY <1>4, <1>13 DEF Range
  <2>. QED
    BY <2>1 DEF Names
<1>. QED
  BY <1>9, <1>10, <1>12, <1>14 DEF all, more, before

-----------------------------------------------------------------------------
(* The whole shaping                                                       *)

(***************************************************************************)
(* The common part of applyFingerprintBody: the environment, then stream.  *)
(***************************************************************************)
Streamed(b, c, source) ==
    LET placed == EnsureEnvironment(b, source)
    IN  IF c.forceStream /\ source # "gemini"
        THEN [placed EXCEPT !.stream = TRUE] ELSE placed

(***************************************************************************)
(* It gives a body with the environment in place, and leaves the tools.    *)
(***************************************************************************)
LEMMA StreamedType ==
    ASSUME NEW b \in BodyType, NEW c \in ConfigType, NEW source
    PROVE  LET st == Streamed(b, c, source)
               placed == EnsureEnvironment(b, source)
           IN  /\ st \in BodyType
               /\ st.key = b.key /\ st.tools = b.tools
               /\ st.items = placed.items /\ st.system = placed.system
               /\ Placed(st, source)
               /\ c.forceStream /\ source # "gemini" => st.stream = TRUE
<1>. DEFINE placed == EnsureEnvironment(b, source)
            st == Streamed(b, c, source)
<1>1. /\ placed \in BodyType /\ placed.key = b.key /\ placed.tools = b.tools
      /\ Placed(placed, source)
  BY EnvironmentPlaced
<1>2. st = IF c.forceStream /\ source # "gemini"
           THEN [placed EXCEPT !.stream = TRUE] ELSE placed
  BY DEF Streamed
<1>. HIDE DEF placed, st
<1>3. /\ st \in BodyType
      /\ st.key = placed.key /\ st.tools = placed.tools
      /\ st.items = placed.items /\ st.system = placed.system
      /\ c.forceStream /\ source # "gemini" => st.stream = TRUE
  BY <1>1, <1>2 DEF BodyType
<1>4. Placed(st, source)
  BY <1>1, <1>3 DEF Placed
<1>. QED
  BY <1>1, <1>3, <1>4 DEF placed, st

(***************************************************************************)
(* A body that has everything already is left by the common part.          *)
(***************************************************************************)
LEMMA StreamedStays ==
    ASSUME NEW b \in BodyType, NEW c \in ConfigType, NEW source,
           Placed(b, source), c.forceStream /\ source # "gemini" => b.stream = TRUE
    PROVE  Streamed(b, c, source) = b
<1>1. EnsureEnvironment(b, source) = b
  BY PlacedStays
<1>2. b.stream = TRUE => [b EXCEPT !.stream = TRUE] = b
  BY DEF BodyType
<1>. QED
  BY <1>1, <1>2 DEF Streamed

(***************************************************************************)
(* Bodies of Chat Completions and Claude: the second pass changes nothing. *)
(***************************************************************************)
LEMMA MessagesShapedTwice ==
    ASSUME NEW b \in BodyType, NEW c \in ConfigType, NEW source, NEW wire, NEW other,
           b.key = "messages", source # "gemini"
    PROVE  LET s == ApplyFingerprintBody(b, c, source, wire)
           IN  /\ s \in BodyType /\ s.key = b.key
               /\ s.items = EnsureEnvironment(b, source).items
               /\ s.system = EnsureEnvironment(b, source).system
               /\ s.tools = AppendMissing(b.tools, FingerprintTools(c))
               /\ ApplyFingerprintBody(s, c, source, other) = s
<1>. DEFINE st == Streamed(b, c, source)
            required == FingerprintTools(c)
            s == ApplyFingerprintBody(b, c, source, wire)
<1>1. required \in Seq(ToolType)
  BY FingerprintToolsType
<1>2. /\ st \in BodyType /\ st.key = b.key /\ st.tools = b.tools
      /\ st.items = EnsureEnvironment(b, source).items
      /\ st.system = EnsureEnvironment(b, source).system
      /\ Placed(st, source)
      /\ c.forceStream => st.stream = TRUE
  BY StreamedType
<1>3. s = [st EXCEPT !.tools = AppendMissing(@, required)]
  BY DEF ApplyFingerprintBody, Streamed
<1>4. st.tools \in Seq(ToolType)
  BY <1>2 DEF BodyType
<1>5. /\ AppendMissing(st.tools, required) \in Seq(ToolType)
      /\ AppendMissing(AppendMissing(st.tools, required), required)
            = AppendMissing(st.tools, required)
  BY <1>1, <1>4, AppendMissingTwice
<1>. HIDE DEF st, s, required
<1>6. /\ s \in BodyType /\ s.key = st.key /\ s.items = st.items /\ s.system = st.system
      /\ s.stream = st.stream /\ s.tools = AppendMissing(st.tools, required)
  BY <1>2, <1>3, <1>5 DEF BodyType
<1>7. Placed(s, source)
  BY <1>2, <1>6 DEF Placed
<1>8. Streamed(s, c, source) = s
  BY <1>2, <1>6, <1>7, StreamedStays
<1>9. ApplyFingerprintBody(s, c, source, other)
        = [Streamed(s, c, source) EXCEPT !.tools = AppendMissing(@, required)]
  BY <1>2, <1>6 DEF ApplyFingerprintBody, Streamed, required
<1>10. [s EXCEPT !.tools = AppendMissing(@, required)] = s
  BY <1>5, <1>6 DEF BodyType
<1>. QED
  BY <1>2, <1>6, <1>8, <1>9, <1>10 DEF s, required

(***************************************************************************)
(* Gemini's bodies.                                                        *)
(***************************************************************************)
LEMMA ContentsShapedTwice ==
    ASSUME NEW b \in BodyType, NEW c \in ConfigType, NEW wire, NEW other,
           b.key = "contents"
    PROVE  LET s == ApplyFingerprintBody(b, c, "gemini", wire)
           IN  /\ s.key = "contents"
               /\ s.items = EnsureEnvironment(b, "gemini").items
               /\ s.system = EnsureEnvironment(b, "gemini").system
               /\ s.tools = EnsureGeminiTools(b.tools, FingerprintTools(c))
               /\ ApplyFingerprintBody(s, c, "gemini", other) = s
<1>. DEFINE st == Streamed(b, c, "gemini")
            required == FingerprintTools(c)
            groups == EnsureGeminiTools(st.tools, required)
            s == ApplyFingerprintBody(b, c, "gemini", wire)
<1>1. required \in Seq(ToolType)
  BY FingerprintToolsType
<1>2. /\ st \in BodyType /\ st.key = b.key /\ st.tools = b.tools /\ Placed(st, "gemini")
      /\ st.items = EnsureEnvironment(b, "gemini").items
      /\ st.system = EnsureEnvironment(b, "gemini").system
  BY StreamedType
<1>3. s = [st EXCEPT !.tools = EnsureGeminiTools(@, required)]
  BY DEF ApplyFingerprintBody, Streamed
<1>4. st.tools \in Seq(Seq(ToolType) \cup {Odd})
  BY <1>2 DEF BodyType
<1>5. groups \in Seq(Seq(ToolType) \cup {Odd}) /\ EnsureGeminiTools(groups, required) = groups
  BY <1>1, <1>4, GeminiToolsTwice
<1>6. s = [st EXCEPT !.tools = groups]
  BY <1>3
<1>. HIDE DEF st, s, required, groups
<1>7. /\ s \in BodyType /\ s.key = st.key /\ s.items = st.items /\ s.system = st.system
      /\ s.tools = groups
  BY <1>2, <1>5, <1>6 DEF BodyType
<1>8. Placed(s, "gemini")
  BY <1>2, <1>7 DEF Placed
<1>9. Streamed(s, c, "gemini") = s
  BY <1>7, <1>8, StreamedStays
<1>10. ApplyFingerprintBody(s, c, "gemini", other)
        = [Streamed(s, c, "gemini") EXCEPT !.tools = EnsureGeminiTools(@, required)]
  BY <1>2, <1>7 DEF ApplyFingerprintBody, Streamed, required
<1>11. [s EXCEPT !.tools = EnsureGeminiTools(@, required)] = s
  BY <1>5, <1>7 DEF BodyType
<1>12. /\ s.key = "contents" /\ s.tools = EnsureGeminiTools(b.tools, required)
       /\ s.items = EnsureEnvironment(b, "gemini").items
       /\ s.system = EnsureEnvironment(b, "gemini").system
  BY <1>2, <1>7 DEF groups
<1>. QED
  BY <1>9, <1>10, <1>11, <1>12 DEF s, required

(***************************************************************************)
(* Responses bodies, whose environment is not in a turn that is dropped.    *)
(***************************************************************************)
LEMMA InputShapedTwice ==
    ASSUME NEW b \in BodyType, NEW c \in ConfigType, NEW source, NEW wire,
           b.key = "input", source # "gemini", EnvironmentApart(b.items)
    PROVE  LET s == ApplyFingerprintBody(b, c, source, wire)
           IN  ApplyFingerprintBody(s, c, source, wire) = s
<1>. DEFINE st == Streamed(b, c, source)
            required == FingerprintTools(c)
            plain == [st EXCEPT !.store = FALSE, !.caps = NormalizeMaxOutputTokens(@)]
            readable == IF c.stripReasoning
                        THEN [plain EXCEPT !.items = StripReasoningItems(@)] ELSE plain
            lifted == IF wire /\ c.stripAdditional
                      THEN StripAdditionalTools(readable) ELSE readable
            s == [lifted EXCEPT !.tools = AppendMissing(@, required)]
<1>1. ApplyFingerprintBody(b, c, source, wire) = s
  BY DEF ApplyFingerprintBody, Streamed, ShapeResponses
<1>2. required \in Seq(ToolType)
  BY FingerprintToolsType
<1>3. /\ st \in BodyType /\ st.key = "input" /\ st.items = b.items
      /\ Placed(st, source)
      /\ c.forceStream => st.stream = TRUE
  <2>1. EnsureEnvironment(b, source).items = b.items
    BY EnvironmentPlaced
  <2>. QED
    BY <2>1, StreamedType
<1>. HIDE DEF st
<1>4. /\ NormalizeMaxOutputTokens(st.caps)
            \in [output : CapType, completion : CapType, chat : CapType]
      /\ NormalizeMaxOutputTokens(NormalizeMaxOutputTokens(st.caps))
            = NormalizeMaxOutputTokens(st.caps)
  <2>1. st.caps \in [output : CapType, completion : CapType, chat : CapType]
    BY <1>3 DEF BodyType
  <2>. QED
    BY <2>1 DEF NormalizeMaxOutputTokens, CapType
<1>5. /\ plain \in BodyType /\ plain.key = "input" /\ plain.items = b.items
      /\ plain.system = st.system /\ plain.stream = st.stream
      /\ plain.store = FALSE /\ plain.caps = NormalizeMaxOutputTokens(st.caps)
  BY <1>3, <1>4 DEF BodyType
<1>. HIDE DEF plain
<1>6. /\ readable \in BodyType /\ readable.key = "input"
      /\ readable.system = st.system /\ readable.stream = st.stream
      /\ readable.store = FALSE /\ readable.caps = NormalizeMaxOutputTokens(st.caps)
      /\ EnvironmentApart(readable.items)
      /\ MessagesHaveEnvironment(b.items) => MessagesHaveEnvironment(readable.items)
      /\ c.stripReasoning => Readable(readable.items)
  <2>1. CASE c.stripReasoning
    <3>. DEFINE items == StripReasoningItems(b.items)
    <3>1. b.items \in Seq(ItemType)
      BY DEF BodyType
    <3>2. /\ items \in Seq(ItemType) /\ Readable(items) /\ EnvironmentApart(items)
          /\ MessagesHaveEnvironment(b.items) => MessagesHaveEnvironment(items)
      BY <3>1, ReasoningStripped
    <3>3. readable = [plain EXCEPT !.items = items]
      BY <1>5, <2>1
    <3>. HIDE DEF items, readable
    <3>4. /\ readable \in BodyType /\ readable.key = "input"
          /\ readable.system = st.system /\ readable.stream = st.stream
          /\ readable.store = FALSE /\ readable.caps = NormalizeMaxOutputTokens(st.caps)
          /\ readable.items = items
      BY <1>5, <3>2, <3>3 DEF BodyType
    <3>. QED
      BY <3>2, <3>4
  <2>2. CASE ~ c.stripReasoning
    BY <1>5, <2>2
  <2>. QED
    BY <2>1, <2>2
<1>. HIDE DEF readable
<1>7. /\ lifted \in BodyType /\ lifted.key = "input" /\ lifted.tools \in Seq(ToolType)
      /\ lifted.system = st.system /\ lifted.stream = st.stream
      /\ lifted.store = FALSE /\ lifted.caps = NormalizeMaxOutputTokens(st.caps)
      /\ MessagesHaveEnvironment(b.items) => MessagesHaveEnvironment(lifted.items)
      /\ c.stripReasoning => Readable(lifted.items)
      /\ wire /\ c.stripAdditional => Lifted(lifted.items)
  <2>1. CASE wire /\ c.stripAdditional
    <3>. DEFINE new == StripAdditionalTools(readable)
    <3>1. /\ new \in BodyType /\ new.tools \in Seq(ToolType)
          /\ new = [readable EXCEPT !.items = new.items, !.tools = new.tools]
          /\ Lifted(new.items)
          /\ Readable(readable.items) => Readable(new.items)
          /\ MessagesHaveEnvironment(readable.items) => MessagesHaveEnvironment(new.items)
      BY <1>6, AdditionalStripped
    <3>2. lifted = new
      BY <2>1
    <3>. HIDE DEF new, lifted
    <3>3. /\ new.key = readable.key /\ new.system = readable.system
          /\ new.stream = readable.stream /\ new.store = readable.store
          /\ new.caps = readable.caps
      <4>. DEFINE items == new.items
                  tools == new.tools
      <4>1. new = [readable EXCEPT !.items = items, !.tools = tools]
        BY <3>1
      <4>. HIDE DEF items, tools
      <4>. QED
        BY <1>6, <4>1 DEF BodyType
    <3>. QED
      BY <1>6, <3>1, <3>2, <3>3
  <2>2. CASE ~ (wire /\ c.stripAdditional)
    <3>1. lifted = readable
      BY <2>2
    <3>2. readable.tools \in Seq(ToolType)
      BY <1>6 DEF BodyType
    <3>. QED
      BY <1>6, <2>2, <3>1, <3>2
  <2>. QED
    BY <2>1, <2>2
<1>. HIDE DEF lifted
<1>8. /\ AppendMissing(lifted.tools, required) \in Seq(ToolType)
      /\ AppendMissing(AppendMissing(lifted.tools, required), required)
            = AppendMissing(lifted.tools, required)
  BY <1>2, <1>7, AppendMissingTwice
<1>. HIDE DEF required
<1>9. /\ s \in BodyType /\ s.key = "input" /\ s.items = lifted.items
      /\ s.system = st.system /\ s.stream = st.stream
      /\ s.store = FALSE /\ s.caps = NormalizeMaxOutputTokens(st.caps)
      /\ s.tools = AppendMissing(lifted.tools, required)
  BY <1>7, <1>8 DEF BodyType
<1>. HIDE DEF s
<1>10. Placed(s, source)
  BY <1>3, <1>7, <1>9 DEF Placed
<1>11. Streamed(s, c, source) = s
  BY <1>3, <1>9, <1>10, StreamedStays
<1>12. [s EXCEPT !.store = FALSE, !.caps = NormalizeMaxOutputTokens(@)] = s
  BY <1>4, <1>9 DEF BodyType
<1>13. c.stripReasoning => [s EXCEPT !.items = StripReasoningItems(@)] = s
  <2>1. c.stripReasoning => StripReasoningItems(s.items) = s.items
    <3>1. s.items \in Seq(ItemType)
      BY <1>9 DEF BodyType
    <3>. QED
      BY <1>7, <1>9, <3>1, ReadableStays
  <2>. QED
    BY <1>9, <2>1 DEF BodyType
<1>14. wire /\ c.stripAdditional => StripAdditionalTools(s) = s
  BY <1>7, <1>9, LiftedStays
<1>15. [s EXCEPT !.tools = AppendMissing(@, required)] = s
  BY <1>8, <1>9 DEF BodyType
<1>16. ApplyFingerprintBody(s, c, source, wire) = ShapeResponses(Streamed(s, c, source), c, wire)
  BY <1>9 DEF ApplyFingerprintBody, Streamed
<1>17. ShapeResponses(s, c, wire) = s
  BY <1>12, <1>13, <1>14, <1>15 DEF ShapeResponses, required
<1>. QED
  BY <1>1, <1>11, <1>16, <1>17

(***************************************************************************)
(* What ToolsComplete asks of the declarations tools of a request, made    *)
(* from the client's.                                                      *)
(***************************************************************************)
Complete(client, c, tools) ==
    /\ Names(FingerprintTools(c)) \subseteq Names(tools)
    /\ Alone(tools)
    /\ IsPrefix(client, Own(tools))

(***************************************************************************)
(* Responses bodies: the client's declarations come first, then those      *)
(* lifted from its turns, then the plugin's.                               *)
(***************************************************************************)
LEMMA InputTools ==
    ASSUME NEW b \in BodyType, NEW c \in ConfigType, NEW source, NEW wire,
           b.key = "input", source # "gemini",
           \A k \in DOMAIN b.tools : b.tools[k].kind # "plugin"
    PROVE  LET s == ApplyFingerprintBody(b, c, source, wire)
           IN  /\ s.key = "input"
               /\ Complete(b.tools, c, s.tools)
               /\ wire /\ c.stripAdditional =>
                    \A p \in DOMAIN b.items :
                        b.items[p] # Junk /\ b.items[p].type = "additional_tools" =>
                            \A t \in Range(b.items[p].tools) :
                                t.kind = "function" /\ t.name # NoName
                                    => t.name \in Names(Own(s.tools))
<1>. DEFINE st == Streamed(b, c, source)
            required == FingerprintTools(c)
            plain == [st EXCEPT !.store = FALSE, !.caps = NormalizeMaxOutputTokens(@)]
            readable == IF c.stripReasoning
                        THEN [plain EXCEPT !.items = StripReasoningItems(@)] ELSE plain
            lifted == IF wire /\ c.stripAdditional
                      THEN StripAdditionalTools(readable) ELSE readable
            s == [lifted EXCEPT !.tools = AppendMissing(@, required)]
            tools == lifted.tools
<1>1. ApplyFingerprintBody(b, c, source, wire) = s
  BY DEF ApplyFingerprintBody, Streamed, ShapeResponses
<1>2. st \in BodyType /\ st.key = "input" /\ st.items = b.items /\ st.tools = b.tools
  <2>1. EnsureEnvironment(b, source).items = b.items
    BY EnvironmentPlaced
  <2>. QED
    BY <2>1, StreamedType
<1>. HIDE DEF st
<1>3. NormalizeMaxOutputTokens(st.caps) \in [output : CapType, completion : CapType, chat : CapType]
  <2>1. st.caps \in [output : CapType, completion : CapType, chat : CapType]
    BY <1>2 DEF BodyType
  <2>. QED
    BY <2>1 DEF NormalizeMaxOutputTokens, CapType
<1>4. plain \in BodyType /\ plain.key = "input" /\ plain.items = b.items /\ plain.tools = b.tools
  <2>1. plain = [st EXCEPT !.store = FALSE, !.caps = NormalizeMaxOutputTokens(st.caps)]
    BY <1>2 DEF BodyType
  <2>. QED
    BY <1>2, <1>3, <2>1 DEF BodyType
<1>. HIDE DEF plain
<1>5. b.items \in Seq(ItemType) /\ b.tools \in Seq(ToolType)
  BY DEF BodyType
<1>6. /\ readable \in BodyType /\ readable.key = "input" /\ readable.tools = b.tools
      /\ readable.items = IF c.stripReasoning THEN StripReasoningItems(b.items) ELSE b.items
  <2>1. StripReasoningItems(b.items) \in Seq(ItemType)
    BY <1>5, ReasoningStripped
  <2>. QED
    BY <1>4, <2>1 DEF BodyType
<1>. HIDE DEF readable
<1>7. ASSUME NEW p \in DOMAIN b.items, b.items[p] # Junk, b.items[p].type = "additional_tools"
      PROVE  \E k \in DOMAIN readable.items :
                /\ readable.items[k] # Junk /\ readable.items[k].type = "additional_tools"
                /\ readable.items[k].tools = b.items[p].tools
  <2>1. CASE c.stripReasoning
    BY <1>5, <1>6, <1>7, <2>1, CarriersStay
  <2>2. CASE ~ c.stripReasoning
    BY <1>6, <1>7, <2>2
  <2>. QED
    BY <2>1, <2>2
<1>8. /\ lifted \in BodyType /\ lifted.key = "input"
      /\ tools \in Seq(ToolType)
      /\ \A k \in DOMAIN tools : tools[k].kind # "plugin"
      /\ IsPrefix(b.tools, tools)
      /\ wire /\ c.stripAdditional =>
            \A p \in DOMAIN b.items :
                b.items[p] # Junk /\ b.items[p].type = "additional_tools" =>
                    \A t \in Range(b.items[p].tools) :
                        t.kind = "function" /\ t.name # NoName => t.name \in Names(tools)
  <2>1. CASE ~ (wire /\ c.stripAdditional)
    <3>1. lifted = readable /\ tools = b.tools
      BY <1>6, <2>1
    <3>. QED
      BY <1>5, <1>6, <2>1, <3>1, PrefixContinued
  <2>2. CASE wire /\ c.stripAdditional
    <3>1. lifted = StripAdditionalTools(readable)
      BY <2>2
    <3>. HIDE DEF lifted
    <3>2. lifted \in BodyType /\ lifted.key = "input"
      <4>1. LET new == StripAdditionalTools(readable)
            IN  new \in BodyType /\ new = [readable EXCEPT !.items = new.items, !.tools = new.tools]
        BY <1>6, AdditionalStripped
      <4>. QED
        BY <1>6, <3>1, <4>1 DEF BodyType
    <3>3. PICK promoted \in Seq(ToolType) :
            /\ tools = AppendMissing(b.tools, promoted)
            /\ \A k \in DOMAIN promoted : promoted[k].kind = "function"
            /\ \A p \in DOMAIN readable.items :
                readable.items[p] # Junk /\ readable.items[p].type = "additional_tools" =>
                    \A t \in Range(readable.items[p].tools) :
                        t.kind = "function" /\ t.name # NoName => t \in Range(promoted)
      BY <1>6, <3>1, AdditionalPromoted
    <3>. DEFINE m == Missing(Names(b.tools), promoted)
    <3>4. tools = b.tools \o m
      BY <3>3 DEF AppendMissing
    <3>5. m \in Seq(ToolType) /\ \A i \in DOMAIN m : \E k \in DOMAIN promoted : m[i] = promoted[k]
      BY MissingNew
    <3>6. Alone(b.tools)
      BY DEF Alone
    <3>7. tools \in Seq(ToolType) /\ \A k \in DOMAIN promoted : promoted[k].name \in Names(tools)
      BY <1>5, <3>3, <3>6, AppendMissingAlone
    <3>. HIDE DEF m, tools
    <3>8. \A k \in DOMAIN tools : tools[k].kind # "plugin"
      <4>1. \A i \in DOMAIN m : m[i].kind # "plugin"
        BY <3>3, <3>5
      <4>2. \A e : e \in Range(tools) <=> e \in Range(b.tools) \/ e \in Range(m)
        BY <1>5, <3>4, <3>5, JoinedRange
      <4>3. \A e \in Range(tools) : e.kind # "plugin"
        BY <4>1, <4>2 DEF Range
      <4>. QED
        BY <4>3 DEF Range
    <3>9. IsPrefix(b.tools, tools)
      BY <1>5, <3>4, <3>5, PrefixContinued
    <3>10. ASSUME NEW p \in DOMAIN b.items, b.items[p] # Junk,
                  b.items[p].type = "additional_tools",
                  NEW t \in Range(b.items[p].tools), t.kind = "function", t.name # NoName
           PROVE  t.name \in Names(tools)
      <4>1. t \in Range(promoted)
        BY <1>7, <3>3, <3>10
      <4>. QED
        BY <3>7, <4>1 DEF Range
    <3>. QED
      BY <3>2, <3>7, <3>8, <3>9, <3>10 DEF tools
  <2>. QED
    BY <2>1, <2>2
<1>9. Alone(tools)
  BY <1>8 DEF Alone
<1>10. Own(tools) = tools
  BY <1>8, OwnOnly
<1>11. LET all == AppendMissing(tools, required)
       IN  /\ all \in Seq(ToolType) /\ Alone(all)
           /\ Names(required) \subseteq Names(all)
           /\ Own(all) = tools
  BY <1>8, <1>9, <1>10, ToolsEnsured
<1>12. s.key = "input" /\ s.tools = AppendMissing(tools, required)
  <2>. HIDE DEF lifted
  <2>. QED
    BY <1>8 DEF BodyType
<1>. HIDE DEF s, tools, required
<1>13. Complete(b.tools, c, s.tools)
  BY <1>8, <1>11, <1>12 DEF Complete, required
<1>14. Own(s.tools) = tools
  BY <1>11, <1>12
<1>. QED
  BY <1>1, <1>8, <1>12, <1>13, <1>14 DEF tools

-----------------------------------------------------------------------------
(* The identity                                                            *)

(***************************************************************************)
(* Bodies with the same run, opened alike, have the same identity.         *)
(***************************************************************************)
LEMMA SameIdentity ==
    ASSUME NEW b \in BodyType, NEW b2 \in BodyType, NEW source, b2.key = b.key,
           Select(b2.items, RunAt(b2)) = Select(b.items, RunAt(b)),
           Opened(b2) <=> Opened(b)
    PROVE  /\ Reads(source, b2) <=> Reads(source, b)
           /\ FirstUserContent(source, b2) = FirstUserContent(source, b)
<1>1. Reads(source, b2) <=> Reads(source, b)
  BY DEF Reads
<1>. QED
  BY <1>1, IdentityByRun

(***************************************************************************)
(* What is written of a content are texts.                                 *)
(***************************************************************************)
LEMMA WrittenType ==
    ASSUME NEW content \in ContentType
    PROVE  Written(content) \in Seq(Texts)
<1>1. CASE content = Odd
  BY <1>1 DEF Written
<1>2. CASE content # Odd
  <2>. DEFINE P == {k \in DOMAIN content : content[k].kind \in {"text", "imageURL", "source"}}
              parts == Select(content, P)
  <2>1. Written(content) = [k \in DOMAIN parts |-> parts[k].of]
    BY <1>2 DEF Written, Keep
  <2>2. content \in Seq(PartType) /\ P \in SUBSET (DOMAIN content)
    BY <1>2 DEF ContentType
  <2>. HIDE DEF P
  <2>3. parts \in Seq(PartType)
    BY <2>2, SelectHas
  <2>. HIDE DEF parts
  <2>4. /\ DOMAIN parts = 1 .. Len(parts) /\ Len(parts) \in Nat
        /\ \A k \in DOMAIN parts : parts[k].of \in Texts
    <3>1. \A part \in PartType : part.of \in Texts
      BY DEF PartType
    <3>. QED
      BY <2>3, <3>1
  <2>. QED
    BY <2>1, <2>4
<1>. QED
  BY <1>1, <1>2

(***************************************************************************)
(* An identity is a sequence of texts.                                     *)
(***************************************************************************)
LEMMA IdentityType ==
    ASSUME NEW b \in BodyType, NEW source
    PROVE  FirstUserContent(source, b) \in Seq(Texts)
<1>. DEFINE run == Select(b.items, RunAt(b))
            texts == [k \in DOMAIN run |-> Written(run[k].content)]
<1>1. /\ b.items \in Seq(ItemType) /\ RunAt(b) \in SUBSET (DOMAIN b.items)
      /\ \A p \in RunAt(b) : b.items[p] \in TurnType
  <2>1. b.items \in Seq(ItemType)
    BY DEF BodyType
  <2>2. \A p \in RunAt(b) : p \in DOMAIN b.items /\ b.items[p] # Junk
    BY DEF RunAt, UserAt, ObjectsAt
  <2>. QED
    BY <2>1, <2>2 DEF ItemType
<1>2. run \in Seq(ItemType) /\ \A k \in DOMAIN run : \E p \in RunAt(b) : run[k] = b.items[p]
  BY <1>1, SelectHas
<1>. HIDE DEF run
<1>3. \A k \in DOMAIN run : Written(run[k].content) \in Seq(Texts)
  <2>1. \A k \in DOMAIN run : run[k].content \in ContentType
    BY <1>1, <1>2 DEF TurnType
  <2>. QED
    BY <2>1, WrittenType
<1>4. texts \in Seq(Seq(Texts))
  <2>1. DOMAIN run = 1 .. Len(run) /\ Len(run) \in Nat
    BY <1>2
  <2>. QED
    BY <1>3, <2>1
<1>5. TextOfRun(run) \in Seq(Texts)
  <2>1. TextOfRun(run) = FlattenSeq(texts)
    BY DEF TextOfRun
  <2>. HIDE DEF texts
  <2>. QED
    BY <1>4, <2>1, FlattenType
<1>6. TextOfRun(<<>>) \in Seq(Texts)
  BY DEF TextOfRun, FlattenSeq
<1>. QED
  BY <1>5, <1>6, IdentityByRun DEF run

=============================================================================

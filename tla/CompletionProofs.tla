-------------------------- MODULE CompletionProofs --------------------------
(***************************************************************************)
(* Theorems about the assembly of a completion: merging one piece after    *)
(* the other gives what the whole stream says by position.                 *)
(***************************************************************************)
EXTENDS Completion, SelectionProofs

-----------------------------------------------------------------------------
(* One more value                                                          *)

\* more is values, which has N of them, with v behind.
Grows(values, N, v, more) ==
    /\ N \in Nat
    /\ DOMAIN values = 1 .. N /\ DOMAIN more = 1 .. N + 1
    /\ more = [n \in 1 .. N + 1 |-> more[n]]
    /\ \A n \in 1 .. N : more[n] = values[n]
    /\ more[N + 1] = v

(***************************************************************************)
(* A number that no other exceeds is the greatest.                         *)
(***************************************************************************)
LEMMA MaxIs ==
    ASSUME NEW P \in SUBSET Int, NEW n \in P, \A p \in P : p <= n
    PROVE  Max(P) = n
<1>1. \E x \in P : \A y \in P : x >= y
  OBVIOUS
<1>2. Max(P) \in P /\ \A y \in P : Max(P) >= y
  BY <1>1 DEF Max
<1>3. Max(P) \in Int /\ n \in Int /\ Max(P) >= n /\ Max(P) <= n
  BY <1>2
<1>. QED
  BY <1>3

(***************************************************************************)
(* Some positions have a greatest.                                         *)
(***************************************************************************)
LEMMA MaxIn ==
    ASSUME NEW N \in Nat, NEW P \in SUBSET (1 .. N), P # {}
    PROVE  Max(P) \in P /\ \A p \in P : p <= Max(P)
<1>. DEFINE T == {m \in Nat : \E p \in P : m = N - p}
<1>1. T \in SUBSET Nat /\ T # {}
  <2>1. PICK p \in P : TRUE
    OBVIOUS
  <2>2. N - p \in Nat
    BY <2>1
  <2>. QED
    BY <2>2
<1>2. PICK m \in T : \A i \in T : m <= i
  BY <1>1, LeastNumber
<1>3. PICK n \in P : m = N - n
  OBVIOUS
<1>4. ASSUME NEW p \in P PROVE p <= n
  <2>1. N - p \in T /\ p \in Int /\ n \in Int
    OBVIOUS
  <2>2. m <= N - p
    BY <1>2, <2>1
  <2>. QED
    BY <1>3, <2>1, <2>2
<1>5. P \in SUBSET Int
  OBVIOUS
<1>6. Max(P) = n
  BY <1>4, <1>5, MaxIs
<1>. QED
  BY <1>4, <1>6

(***************************************************************************)
(* The last value that counts, with one more.                              *)
(***************************************************************************)
LEMMA LastGrows ==
    ASSUME NEW values, NEW N, NEW v, NEW more, Grows(values, N, v, more),
           NEW ignored, NEW first
    PROVE  LastOf(more, ignored, first) = IF v \in ignored THEN LastOf(values, ignored, first) ELSE v
<1>. DEFINE P == {n \in DOMAIN values : values[n] \notin ignored}
            Q == {n \in DOMAIN more : more[n] \notin ignored}
<1>1. /\ N \in Nat /\ DOMAIN values = 1 .. N /\ DOMAIN more = 1 .. N + 1
      /\ \A n \in 1 .. N : more[n] = values[n]
      /\ more[N + 1] = v
  BY DEF Grows
<1>2. \A n : n \in 1 .. N + 1 <=> n \in 1 .. N \/ n = N + 1
  BY <1>1
<1>3. LastOf(more, ignored, first) = IF Q = {} THEN first ELSE more[Max(Q)]
  BY DEF LastOf
<1>4. LastOf(values, ignored, first) = IF P = {} THEN first ELSE values[Max(P)]
  BY DEF LastOf
<1>5. CASE v \in ignored
  <2>1. \A n : n \in Q <=> n \in P
    BY <1>1, <1>2, <1>5
  <2>2. Q = P
    BY <2>1
  <2>3. CASE P # {}
    <3>1. P \in SUBSET (1 .. N)
      BY <1>1
    <3>. HIDE DEF P, Q
    <3>2. Max(P) \in P
      BY <1>1, <2>3, <3>1, MaxIn
    <3>. QED
      BY <1>1, <1>3, <1>4, <1>5, <2>2, <2>3, <3>1, <3>2
  <2>4. CASE P = {}
    BY <1>3, <1>4, <1>5, <2>2, <2>4
  <2>. QED
    BY <2>3, <2>4
<1>6. CASE v \notin ignored
  <2>1. N + 1 \in Q /\ Q \in SUBSET Int /\ \A p \in Q : p <= N + 1
    BY <1>1, <1>6
  <2>. HIDE DEF Q
  <2>2. Max(Q) = N + 1
    <3>1. PICK n \in Q : n = N + 1
      BY <2>1
    <3>. QED
      BY <2>1, <3>1, MaxIs
  <2>. QED
    BY <1>1, <1>3, <1>6, <2>1, <2>2
<1>. QED
  BY <1>5, <1>6

(***************************************************************************)
(* Nothing joined to nothing is nothing.                                   *)
(***************************************************************************)
LEMMA FlattenEmpty ==
    ASSUME NEW S, NEW N \in Nat, NEW ss, DOMAIN ss = 1 .. N, ss = [n \in 1 .. N |-> <<>>]
    PROVE  FlattenSeq(ss) = <<>>
<1>1. ss \in Seq(Seq(S)) /\ Len(ss) = N
  OBVIOUS
<1>2. CASE N = 0
  <2>1. ss = <<>>
    BY <1>1, <1>2, EmptySeq
  <2>. QED
    BY <2>1 DEF FlattenSeq
<1>3. CASE N # 0
  <2>1. <<>> \o <<>> = <<>>
    OBVIOUS
  <2>2. \A i \in 1 .. N : ss[i] = <<>> /\ (i # 1 => i - 1 \in 1 .. N)
    OBVIOUS
  <2>3. Concatenates(ss, ss, N)
    BY <2>1, <2>2 DEF Concatenates
  <2>4. ss # <<>> /\ N \in 1 .. N
    BY <1>1, <1>3
  <2>5. FlattenSeq(ss) = ss[N]
    BY <1>1, <2>3, <2>4, FlattenIs
  <2>. QED
    BY <2>2, <2>4, <2>5
<1>. QED
  BY <1>2, <1>3

(***************************************************************************)
(* What is joined grows by the last.                                       *)
(***************************************************************************)
LEMMA FlattenGrows ==
    ASSUME NEW S, NEW ss, NEW N, NEW s, NEW more,
           ss \in Seq(Seq(S)), s \in Seq(S), Grows(ss, N, s, more)
    PROVE  /\ more = Append(ss, s)
           /\ FlattenSeq(ss) \in Seq(S)
           /\ FlattenSeq(more) = FlattenSeq(ss) \o s
<1>1. /\ N \in Nat /\ DOMAIN ss = 1 .. N /\ DOMAIN more = 1 .. N + 1
      /\ more = [n \in 1 .. N + 1 |-> more[n]]
      /\ \A n \in 1 .. N : more[n] = ss[n]
      /\ more[N + 1] = s
  BY DEF Grows
<1>2. Len(ss) = N
  BY <1>1
<1>3. more = Append(ss, s)
  <2>. DEFINE tt == Append(ss, s)
  <2>1. /\ tt \in Seq(Seq(S)) /\ Len(tt) = N + 1 /\ tt[N + 1] = s
        /\ \A i \in 1 .. N : tt[i] = ss[i]
    BY <1>1, <1>2, AppendProperties
  <2>. HIDE DEF tt
  <2>2. tt = [n \in 1 .. N + 1 |-> tt[n]]
    BY <2>1
  <2>3. \A n \in 1 .. N + 1 : n \in 1 .. N \/ n = N + 1
    BY <1>1
  <2>4. \A n \in 1 .. N + 1 : tt[n] = more[n]
    BY <1>1, <2>1, <2>3
  <2>5. tt = more
    BY <1>1, <2>2, <2>4
  <2>. QED
    BY <2>5 DEF tt
<1>. QED
  BY <1>2, <1>3, FlattenAppend, FlattenType

(***************************************************************************)
(* A text, with one more value.                                            *)
(***************************************************************************)
LEMMA TextGrows ==
    ASSUME NEW values, NEW N, NEW v, NEW more, NEW first, Grows(values, N, v, more),
           v \in TextType, \A n \in 1 .. N : values[n] \in TextType, first \in {<<>>, None}
    PROVE  /\ TextOf(more, first) = MergeText(TextOf(values, first), v)
           /\ TextOf(values, first) \in TextType
<1>. DEFINE at == {n \in DOMAIN values : values[n] \notin {None, Null}}
            tail == {n \in at : \A m \in at : values[m] = Other => m < n}
            parts == [n \in DOMAIN values |-> IF n \in tail THEN values[n] ELSE <<>>]
            at2 == {n \in DOMAIN more : more[n] \notin {None, Null}}
            tail2 == {n \in at2 : \A m \in at2 : more[m] = Other => m < n}
            parts2 == [n \in DOMAIN more |-> IF n \in tail2 THEN more[n] ELSE <<>>]
<1>1. /\ N \in Nat /\ DOMAIN values = 1 .. N /\ DOMAIN more = 1 .. N + 1
      /\ \A n \in 1 .. N : more[n] = values[n]
      /\ more[N + 1] = v
  BY DEF Grows
<1>2. \A n : n \in 1 .. N + 1 <=> n \in 1 .. N \/ n = N + 1
  BY <1>1
<1>3. TextOf(values, first) = IF at = {} THEN first ELSE IF tail = {} THEN Other ELSE FlattenSeq(parts)
  BY DEF TextOf
<1>4. TextOf(more, first) = IF at2 = {} THEN first ELSE IF tail2 = {} THEN Other ELSE FlattenSeq(parts2)
  BY DEF TextOf
<1>5. /\ None # Null /\ None # Other /\ Null # Other
      /\ \A mark \in {None, Null, Other} : mark \notin Seq(Pieces)
  BY CompletionAssumption
<1>6. \A n \in tail : values[n] \in Seq(Pieces) /\ n \in 1 .. N
  BY <1>1 DEF TextType
<1>7. /\ parts = [n \in 1 .. N |-> parts[n]]
      /\ \A n \in 1 .. N : parts[n] \in Seq(Pieces)
      /\ \A n \in 1 .. N : n \in tail => parts[n] = values[n]
      /\ \A n \in 1 .. N : n \notin tail => parts[n] = <<>>
  BY <1>1, <1>6
<1>8. parts \in Seq(Seq(Pieces)) /\ FlattenSeq(parts) \in Seq(Pieces)
  <2>. HIDE DEF parts
  <2>1. parts \in Seq(Seq(Pieces))
    BY <1>1, <1>7
  <2>. QED
    BY <2>1, FlattenType
<1>9. TextOf(values, first) \in TextType
  BY <1>3, <1>8 DEF TextType
<1>10. CASE v \in {None, Null}
  <2>1. \A n : n \in at2 <=> n \in at
    BY <1>1, <1>2, <1>10
  <2>2. at2 = at
    BY <2>1
  <2>3. \A n : n \in tail2 <=> n \in tail
    BY <1>1, <2>1
  <2>4. tail2 = tail /\ N + 1 \notin tail2
    BY <1>1, <1>10, <2>3
  <2>5. FlattenSeq(parts2) = FlattenSeq(parts)
    <3>1. parts2 = [n \in 1 .. N + 1 |-> parts2[n]] /\ parts2[N + 1] = <<>>
      BY <1>1, <2>4
    <3>2. \A n \in 1 .. N : parts2[n] = parts[n]
      BY <1>1, <1>2, <2>3
    <3>. DEFINE new == <<>>
    <3>3. Grows(parts, N, new, parts2)
      BY <1>1, <3>1, <3>2 DEF Grows
    <3>5. new \in Seq(Pieces)
      OBVIOUS
    <3>. HIDE DEF new, parts, parts2
    <3>4. FlattenSeq(parts2) = FlattenSeq(parts) \o new
      BY <1>8, <3>3, <3>5, FlattenGrows
    <3>. QED
      BY <1>8, <3>4 DEF new
  <2>6. MergeText(TextOf(values, first), v) = TextOf(values, first)
    BY <1>10 DEF MergeText
  <2>. HIDE DEF at, at2, tail, tail2, parts, parts2
  <2>. QED
    BY <1>3, <1>4, <1>9, <2>2, <2>4, <2>5, <2>6
<1>11. CASE v = Other
  <2>1. N + 1 \in at2
    BY <1>1, <1>5, <1>11
  <2>2. tail2 = {}
    <3>. SUFFICES ASSUME NEW n \in tail2 PROVE FALSE
      OBVIOUS
    <3>1. n \in 1 .. N + 1 /\ N + 1 < n
      BY <1>1, <1>11, <2>1
    <3>. QED
      BY <1>1, <3>1
  <2>3. MergeText(TextOf(values, first), v) = Other
    BY <1>5, <1>11 DEF MergeText
  <2>. HIDE DEF at, at2, tail, tail2, parts, parts2
  <2>4. TextOf(more, first) = Other
    BY <1>4, <2>1, <2>2
  <2>. QED
    BY <1>9, <2>3, <2>4
<1>12. CASE v \notin {None, Null, Other}
  <2>1. v \in Seq(Pieces)
    BY <1>12 DEF TextType
  <2>2. \A n : n \in at2 <=> n \in at \/ n = N + 1
    BY <1>1, <1>2, <1>12
  <2>3. N + 1 \in tail2
    <3>1. \A m \in at2 : more[m] = Other => m \in 1 .. N
      BY <1>1, <1>2, <1>12
    <3>2. \A m \in 1 .. N : m < N + 1
      BY <1>1
    <3>. QED
      BY <2>2, <3>1, <3>2
  <2>4. \A n \in 1 .. N : n \in tail2 <=> n \in tail
    <3>. SUFFICES ASSUME NEW n \in 1 .. N PROVE n \in tail2 <=> n \in tail
      OBVIOUS
    <3>1. n \in at2 <=> n \in at
      BY <1>1, <2>2
    <3>2. (\A m \in at2 : more[m] = Other => m < n) <=> (\A m \in at : values[m] = Other => m < n)
      BY <1>1, <1>12, <2>2
    <3>. QED
      BY <3>1, <3>2
  <2>5. FlattenSeq(parts2) = FlattenSeq(parts) \o v
    <3>1. parts2 = [n \in 1 .. N + 1 |-> parts2[n]] /\ parts2[N + 1] = v
      BY <1>1, <2>3
    <3>2. \A n \in 1 .. N : parts2[n] = parts[n]
      BY <1>1, <1>2, <2>4
    <3>3. Grows(parts, N, v, parts2)
      BY <1>1, <3>1, <3>2 DEF Grows
    <3>. HIDE DEF parts, parts2
    <3>4. parts \in Seq(Seq(Pieces))
      BY <1>8
    <3>5. Grows(parts, N, v, parts2)
      BY <3>3
    <3>6. v \in Seq(Pieces)
      BY <2>1
    <3>. HIDE DEF at, at2, tail, tail2
    <3>. QED
      BY <3>4, <3>5, <3>6, FlattenGrows
  <2>6. tail = {} => FlattenSeq(parts) = <<>>
    <3>. SUFFICES ASSUME tail = {} PROVE FlattenSeq(parts) = <<>>
      OBVIOUS
    <3>1. DOMAIN parts = 1 .. N /\ parts = [n \in 1 .. N |-> <<>>]
      BY <1>1
    <3>. HIDE DEF parts, tail
    <3>. QED
      BY <1>1, <3>1, FlattenEmpty
  <2>7. AsText(TextOf(values, first)) = FlattenSeq(parts)
    <3>1. at = {} => tail = {}
      OBVIOUS
    <3>. HIDE DEF at, tail, parts
    <3>2. CASE tail = {}
      <4>1. TextOf(values, first) \in {<<>>, None, Other}
        BY <1>3, <3>2
      <4>2. AsText(TextOf(values, first)) = <<>>
        BY <4>1 DEF AsText
      <4>. QED
        BY <2>6, <3>2, <4>2
    <3>3. CASE tail # {}
      <4>1. TextOf(values, first) = FlattenSeq(parts)
        BY <1>3, <3>1, <3>3
      <4>. QED
        BY <1>5, <1>8, <4>1 DEF AsText
    <3>. QED
      BY <3>2, <3>3
  <2>8. MergeText(TextOf(values, first), v) = AsText(TextOf(values, first)) \o v
    BY <1>12 DEF MergeText
  <2>9. at2 # {} /\ tail2 # {}
    BY <2>2, <2>3
  <2>. HIDE DEF at, at2, tail, tail2, parts, parts2
  <2>10. TextOf(more, first) = FlattenSeq(parts2)
    BY <1>4, <2>9
  <2>. QED
    BY <1>9, <2>5, <2>7, <2>8, <2>10
<1>. QED
  BY <1>10, <1>11, <1>12

(***************************************************************************)
(* Arguments, with one more value.                                         *)
(***************************************************************************)
LEMMA ArgumentsGrow ==
    ASSUME NEW texts, NEW N, NEW v, NEW more, Grows(texts, N, v, more),
           v \in TextType, \A n \in 1 .. N : texts[n] \in TextType
    PROVE  /\ ArgumentsOf(texts) \in Seq(Pieces) \cup {None}
           /\ ArgumentsOf(more) = IF v = None THEN ArgumentsOf(texts)
                                  ELSE AsText(ArgumentsOf(texts)) \o AsText(v)
<1>. DEFINE parts == [n \in DOMAIN texts |-> AsText(texts[n])]
            parts2 == [n \in DOMAIN more |-> AsText(more[n])]
            new == AsText(v)
            none == \A n \in DOMAIN texts : texts[n] = None
<1>1. /\ N \in Nat /\ DOMAIN texts = 1 .. N /\ DOMAIN more = 1 .. N + 1
      /\ \A n \in 1 .. N : more[n] = texts[n]
      /\ more[N + 1] = v
  BY DEF Grows
<1>2. \A n : n \in 1 .. N + 1 <=> n \in 1 .. N \/ n = N + 1
  BY <1>1
<1>3. \A mark \in {None, Null, Other} : mark \notin Seq(Pieces)
  BY CompletionAssumption
<1>4. /\ \A text \in TextType : AsText(text) \in Seq(Pieces)
      /\ \A text \in Seq(Pieces) : AsText(text) = text
      /\ AsText(None) = <<>>
  BY <1>3 DEF AsText, TextType
<1>5. new \in Seq(Pieces) /\ \A n \in 1 .. N : parts[n] \in Seq(Pieces)
  BY <1>1, <1>4
<1>6. parts = [n \in 1 .. N |-> parts[n]] /\ parts2 = [n \in 1 .. N + 1 |-> parts2[n]]
  BY <1>1
<1>7. Grows(parts, N, new, parts2)
  BY <1>1, <1>2 DEF Grows
<1>8. none => parts = [n \in 1 .. N |-> <<>>] /\ DOMAIN parts = 1 .. N
  BY <1>1, <1>4
<1>. HIDE DEF parts, parts2, new
<1>9. parts \in Seq(Seq(Pieces))
  BY <1>1, <1>5, <1>6
<1>10. FlattenSeq(parts) \in Seq(Pieces) /\ FlattenSeq(parts2) = FlattenSeq(parts) \o new
  BY <1>5, <1>7, <1>9, FlattenGrows
<1>11. none => FlattenSeq(parts) = <<>>
  BY <1>1, <1>8, FlattenEmpty
<1>12. ArgumentsOf(texts) = IF none THEN None ELSE FlattenSeq(parts)
  BY DEF ArgumentsOf, parts
<1>13. ArgumentsOf(more) = IF none /\ v = None THEN None ELSE FlattenSeq(parts2)
  <2>1. (\A n \in DOMAIN more : more[n] = None) <=> none /\ v = None
    BY <1>1, <1>2
  <2>. HIDE DEF none
  <2>. QED
    BY <2>1 DEF ArgumentsOf, parts2
<1>14. AsText(ArgumentsOf(texts)) = FlattenSeq(parts)
  <2>. HIDE DEF none
  <2>. QED
    BY <1>4, <1>10, <1>11, <1>12
<1>. HIDE DEF none
<1>15. v = None => FlattenSeq(parts2) = FlattenSeq(parts)
  BY <1>4, <1>10 DEF new
<1>16. ArgumentsOf(texts) \in Seq(Pieces) \cup {None}
  BY <1>10, <1>12
<1>17. v = None => ArgumentsOf(more) = ArgumentsOf(texts)
  BY <1>12, <1>13, <1>15
<1>18. v # None => ArgumentsOf(more) = AsText(ArgumentsOf(texts)) \o AsText(v)
  BY <1>10, <1>13, <1>14 DEF new
<1>. QED
  BY <1>16, <1>17, <1>18

\* A function as far as it is told, whether it was begun or not.
FunctionSoFar(values) ==
    [ name      |-> LastOf([n \in DOMAIN values |->
                                IF values[n] \in {None, Null, Other} THEN None ELSE values[n].name],
                           {None}, None),
      arguments |-> ArgumentsOf([n \in DOMAIN values |->
                                IF values[n] \in {None, Null, Other} THEN None ELSE values[n].arguments]) ]

(***************************************************************************)
(* A function, with one more value.                                        *)
(***************************************************************************)
LEMMA FunctionGrows ==
    ASSUME NEW values, NEW N, NEW v, NEW more, Grows(values, N, v, more),
           v \in FunctionType, \A n \in 1 .. N : values[n] \in FunctionType
    PROVE  FunctionOf(more) = IF v = None THEN FunctionOf(values)
                              ELSE MergeFunction(FunctionOf(values), v)
<1>. DEFINE Marks == {None, Null, Other}
            names == [n \in DOMAIN values |-> IF values[n] \in Marks THEN None ELSE values[n].name]
            names2 == [n \in DOMAIN more |-> IF more[n] \in Marks THEN None ELSE more[n].name]
            texts == [n \in DOMAIN values |-> IF values[n] \in Marks THEN None ELSE values[n].arguments]
            texts2 == [n \in DOMAIN more |-> IF more[n] \in Marks THEN None ELSE more[n].arguments]
            name == IF v \in Marks THEN None ELSE v.name
            text == IF v \in Marks THEN None ELSE v.arguments
            none == \A n \in DOMAIN values : values[n] = None
            dst == FunctionSoFar(values)
            new == FunctionSoFar(more)
<1>1. /\ N \in Nat /\ DOMAIN values = 1 .. N /\ DOMAIN more = 1 .. N + 1
      /\ \A n \in 1 .. N : more[n] = values[n]
      /\ more[N + 1] = v
  BY DEF Grows
<1>2. \A n : n \in 1 .. N + 1 <=> n \in 1 .. N \/ n = N + 1
  BY <1>1
<1>3. \A w \in FunctionType : w \notin Marks => w.name \in Plain /\ w.arguments \in TextType
  BY DEF FunctionType, FunctionObject
<1>4. None \in TextType /\ None \in Plain
  BY CompletionAssumption DEF TextType
<1>5. text \in TextType /\ \A n \in 1 .. N : texts[n] \in TextType
  BY <1>1, <1>3, <1>4
<1>6. Grows(names, N, name, names2) /\ Grows(texts, N, text, texts2)
  BY <1>1, <1>2 DEF Grows
<1>7. dst = [name |-> LastOf(names, {None}, None), arguments |-> ArgumentsOf(texts)]
      /\ new = [name |-> LastOf(names2, {None}, None), arguments |-> ArgumentsOf(texts2)]
  BY DEF FunctionSoFar
<1>8. none => LastOf(names, {None}, None) = None /\ ArgumentsOf(texts) = None
  <2>. SUFFICES ASSUME none PROVE LastOf(names, {None}, None) = None /\ ArgumentsOf(texts) = None
    OBVIOUS
  <2>1. \A n \in DOMAIN names : names[n] = None
    OBVIOUS
  <2>2. \A n \in DOMAIN texts : texts[n] = None
    OBVIOUS
  <2>. HIDE DEF names, texts
  <2>3. LastOf(names, {None}, None) = None
    BY <2>1 DEF LastOf
  <2>4. ArgumentsOf(texts) = None
    BY <2>2 DEF ArgumentsOf
  <2>. QED
    BY <2>3, <2>4
<1>9. FunctionOf(values) = IF none THEN None ELSE dst
  BY DEF FunctionOf, FunctionSoFar
<1>10. FunctionOf(more) = IF none /\ v = None THEN None ELSE new
  <2>1. (\A n \in DOMAIN more : more[n] = None) <=> none /\ v = None
    BY <1>1, <1>2
  <2>. HIDE DEF none
  <2>. QED
    BY <2>1 DEF FunctionOf, FunctionSoFar
<1>11. \A n \in 1 .. N : names[n] \in Plain
  BY <1>1, <1>3, <1>4
<1>. HIDE DEF names, names2, texts, texts2, none, dst, new
<1>12. LastOf(names2, {None}, None) = IF name = None THEN LastOf(names, {None}, None) ELSE name
  <2>. DEFINE ignored == {None}
              first == None
  <2>. HIDE DEF ignored, first, name
  <2>1. LastOf(names2, ignored, first) = IF name \in ignored THEN LastOf(names, ignored, first) ELSE name
    BY <1>6, LastGrows
  <2>. QED
    BY <2>1 DEF ignored, first
<1>13. /\ ArgumentsOf(texts) \in Seq(Pieces) \cup {None}
       /\ ArgumentsOf(texts2) = IF text = None THEN ArgumentsOf(texts)
                                ELSE AsText(ArgumentsOf(texts)) \o AsText(text)
  <2>. HIDE DEF text
  <2>. QED
    BY <1>5, <1>6, ArgumentsGrow
<1>14. dst # None
  <2>1. LastOf(names, {None}, None) \in Plain
    <3>. DEFINE at == {n \in DOMAIN names : names[n] \notin {None}}
    <3>1. LastOf(names, {None}, None) = IF at = {} THEN None ELSE names[Max(at)]
      BY DEF LastOf
    <3>2. at \in SUBSET (1 .. N)
      BY <1>6 DEF Grows
    <3>. HIDE DEF at
    <3>3. at # {} => Max(at) \in 1 .. N
      BY <1>1, <3>2, MaxIn
    <3>. QED
      BY <1>4, <1>11, <3>1, <3>3
  <2>2. ArgumentsOf(texts) \in TextType
    BY <1>13 DEF TextType
  <2>3. dst \in FunctionObject
    BY <1>7, <2>1, <2>2 DEF FunctionObject
  <2>. QED
    BY <2>3, CompletionAssumption
<1>15. (IF FunctionOf(values) = None THEN NoFunction ELSE FunctionOf(values)) = dst
  BY <1>7, <1>8, <1>9, <1>14 DEF NoFunction
<1>16. CASE v = None
  <2>1. name = None /\ text = None
    BY <1>16
  <2>2. new = dst
    BY <1>7, <1>12, <1>13, <2>1
  <2>. QED
    BY <1>9, <1>10, <1>16, <2>2
<1>17. CASE v \in {Null, Other}
  <2>1. name = None /\ text = None /\ v # None
    BY <1>17, CompletionAssumption
  <2>2. new = dst
    BY <1>7, <1>12, <1>13, <2>1
  <2>3. MergeFunction(FunctionOf(values), v) = dst
    BY <1>15, <1>17 DEF MergeFunction
  <2>. QED
    BY <1>10, <2>1, <2>2, <2>3
<1>18. CASE v \notin Marks
  <2>1. name = v.name /\ text = v.arguments /\ v # None
    BY <1>18
  <2>2. MergeFunction(FunctionOf(values), v) =
            [ name      |-> MergeLast(dst.name, v.name),
              arguments |-> IF v.arguments = None THEN dst.arguments
                            ELSE AsText(dst.arguments) \o AsText(v.arguments) ]
    BY <1>15, <1>18 DEF MergeFunction
  <2>3. dst.name = LastOf(names, {None}, None) /\ dst.arguments = ArgumentsOf(texts)
    BY <1>7
  <2>4. MergeLast(dst.name, v.name) = LastOf(names2, {None}, None)
    BY <1>12, <2>1, <2>3 DEF MergeLast
  <2>. HIDE DEF name, text
  <2>. QED
    BY <1>7, <1>10, <1>13, <2>1, <2>2, <2>3, <2>4
<1>. QED
  BY <1>16, <1>17, <1>18

-----------------------------------------------------------------------------
(* One more fragment of a tool call                                        *)

(***************************************************************************)
(* A fragment tells of its own call only.                                  *)
(***************************************************************************)
LEMMA ToldGrows ==
    ASSUME NEW parts, NEW N, NEW p, NEW more, Grows(parts, N, p, more), NEW t
    PROVE  \A n : n \in Told(more, t)
                <=> n \in Told(parts, t) \/ (n = N + 1 /\ p # Other /\ p.index = t)
<1>1. /\ N \in Nat /\ DOMAIN parts = 1 .. N /\ DOMAIN more = 1 .. N + 1
      /\ \A n \in 1 .. N : more[n] = parts[n]
      /\ more[N + 1] = p
  BY DEF Grows
<1>2. \A n : n \in 1 .. N + 1 <=> n \in 1 .. N \/ n = N + 1
  BY <1>1
<1>. QED
  BY <1>1, <1>2 DEF Told

(***************************************************************************)
(* What is told of a tool call, with one more fragment.                    *)
(***************************************************************************)
LEMMA ToolGrows ==
    ASSUME NEW parts, NEW N, NEW p, NEW more, Grows(parts, N, p, more), NEW t,
           p \in PartType \cup {Other}, \A n \in 1 .. N : parts[n] \in PartType \cup {Other}
    PROVE  ToolOf(more, t) =
                IF p # Other /\ p.index = t
                THEN [ id       |-> MergeLast(ToolOf(parts, t).id, p.id),
                       function |-> IF p.function = None THEN ToolOf(parts, t).function
                                    ELSE MergeFunction(ToolOf(parts, t).function, p.function) ]
                ELSE ToolOf(parts, t)
<1>. DEFINE own == p # Other /\ p.index = t
            ids == [n \in DOMAIN parts |-> IF n \in Told(parts, t) THEN parts[n].id ELSE None]
            ids2 == [n \in DOMAIN more |-> IF n \in Told(more, t) THEN more[n].id ELSE None]
            id == IF own THEN p.id ELSE None
            calls == [n \in DOMAIN parts |-> IF n \in Told(parts, t) THEN parts[n].function ELSE None]
            calls2 == [n \in DOMAIN more |-> IF n \in Told(more, t) THEN more[n].function ELSE None]
            call == IF own THEN p.function ELSE None
<1>1. /\ N \in Nat /\ DOMAIN parts = 1 .. N /\ DOMAIN more = 1 .. N + 1
      /\ \A n \in 1 .. N : more[n] = parts[n]
      /\ more[N + 1] = p
  BY DEF Grows
<1>2. \A n : n \in 1 .. N + 1 <=> n \in 1 .. N \/ n = N + 1
  BY <1>1
<1>3. /\ \A n \in 1 .. N : n \in Told(more, t) <=> n \in Told(parts, t)
      /\ N + 1 \in Told(more, t) <=> own
  <2>1. N + 1 \notin Told(parts, t) /\ \A n \in 1 .. N : n # N + 1
    BY <1>1 DEF Told
  <2>. QED
    BY <2>1, ToldGrows
<1>4. Grows(ids, N, id, ids2) /\ Grows(calls, N, call, calls2)
  BY <1>1, <1>2, <1>3 DEF Grows
<1>5. None \in FunctionType
  BY DEF FunctionType
<1>6. call \in FunctionType
  BY <1>5 DEF PartType
<1>7. ASSUME NEW n \in 1 .. N PROVE calls[n] \in FunctionType
  <2>1. n \in Told(parts, t) => parts[n] \in PartType
    BY DEF Told
  <2>. QED
    BY <1>1, <1>5, <2>1 DEF PartType
<1>8. /\ ToolOf(parts, t) = [id |-> LastOf(ids, {None}, None), function |-> FunctionOf(calls)]
      /\ ToolOf(more, t) = [id |-> LastOf(ids2, {None}, None), function |-> FunctionOf(calls2)]
  BY DEF ToolOf
<1>. HIDE DEF ids, ids2, calls, calls2
<1>9. LastOf(ids2, {None}, None) = IF id = None THEN LastOf(ids, {None}, None) ELSE id
  <2>. DEFINE ignored == {None}
              first == None
  <2>. HIDE DEF ignored, first, id
  <2>1. LastOf(ids2, ignored, first) = IF id \in ignored THEN LastOf(ids, ignored, first) ELSE id
    BY <1>4, LastGrows
  <2>. QED
    BY <2>1 DEF ignored, first
<1>10. FunctionOf(calls2) = IF call = None THEN FunctionOf(calls)
                            ELSE MergeFunction(FunctionOf(calls), call)
  <2>. HIDE DEF call
  <2>. QED
    BY <1>4, <1>6, <1>7, FunctionGrows
<1>11. CASE own
  BY <1>8, <1>9, <1>10, <1>11 DEF MergeLast
<1>12. CASE ~ own
  BY <1>8, <1>9, <1>10, <1>12
<1>. QED
  BY <1>11, <1>12

(***************************************************************************)
(* Of a call without fragments nothing is told.                            *)
(***************************************************************************)
LEMMA Untold ==
    ASSUME NEW parts, NEW t, Told(parts, t) = {}
    PROVE  ToolOf(parts, t) = NoTool
<1>. DEFINE ids == [n \in DOMAIN parts |-> IF n \in Told(parts, t) THEN parts[n].id ELSE None]
            calls == [n \in DOMAIN parts |-> IF n \in Told(parts, t) THEN parts[n].function ELSE None]
<1>1. ToolOf(parts, t) = [id |-> LastOf(ids, {None}, None), function |-> FunctionOf(calls)]
  BY DEF ToolOf
<1>2. (\A n \in DOMAIN ids : ids[n] = None) /\ (\A n \in DOMAIN calls : calls[n] = None)
  OBVIOUS
<1>. HIDE DEF ids, calls
<1>3. LastOf(ids, {None}, None) = None
  BY <1>2 DEF LastOf
<1>4. FunctionOf(calls) = None
  BY <1>2 DEF FunctionOf
<1>. QED
  BY <1>1, <1>3, <1>4 DEF NoTool

\* The tool calls that the fragments tell of, up to the highest index
\* within the bound.
Calls(tools, L, parts) ==
    /\ L \in Nat /\ L <= MaxToolIndex + 1
    /\ tools = [t \in 1 .. L |-> ToolOf(parts, t - 1)]
    /\ \A t \in 0 .. MaxToolIndex : Told(parts, t) # {} => t < L
    /\ L # 0 => Told(parts, L - 1) # {}

(***************************************************************************)
(* L is their number.                                                      *)
(***************************************************************************)
LEMMA CallsCounted ==
    ASSUME NEW tools, NEW L, NEW parts, Calls(tools, L, parts)
    PROVE  Len(tools) = L /\ DOMAIN tools = 1 .. L
<1>. DEFINE S == {ToolOf(parts, t - 1) : t \in 1 .. L}
<1>1. L \in Nat /\ tools = [t \in 1 .. L |-> ToolOf(parts, t - 1)]
  BY DEF Calls
<1>2. \A t \in 1 .. L : tools[t] \in S
  BY <1>1
<1>3. DOMAIN tools = 1 .. L
  BY <1>1
<1>. HIDE DEF S
<1>4. tools \in Seq(S)
  <2>1. tools = [t \in 1 .. L |-> tools[t]]
    BY <1>1
  <2>. QED
    BY <1>1, <1>2, <2>1
<1>. QED
  BY <1>1, <1>3, <1>4

(***************************************************************************)
(* One part of tool_calls.                                                 *)
(***************************************************************************)
LEMMA CallsGrow ==
    ASSUME NEW parts, NEW N, NEW p, NEW more, Grows(parts, N, p, more),
           p \in PartType \cup {Other}, \A n \in 1 .. N : parts[n] \in PartType \cup {Other},
           NEW tools, NEW L, Calls(tools, L, parts)
    PROVE  \E K : Calls(MergeTool(tools, p), K, more)
<1>1. /\ L \in Nat /\ L <= MaxToolIndex + 1 /\ MaxToolIndex \in Nat
      /\ tools = [t \in 1 .. L |-> ToolOf(parts, t - 1)]
      /\ \A t \in 0 .. MaxToolIndex : Told(parts, t) # {} => t < L
      /\ L # 0 => Told(parts, L - 1) # {}
  BY CompletionAssumption DEF Calls
<1>2. Len(tools) = L /\ DOMAIN tools = 1 .. L
  BY CallsCounted
<1>3. \A t : \A n : n \in Told(more, t)
                <=> n \in Told(parts, t) \/ (n = N + 1 /\ p # Other /\ p.index = t)
  BY ToldGrows
<1>4. CASE p = Other \/ p.index < 0 \/ p.index > MaxToolIndex
  <2>1. MergeTool(tools, p) = tools
    BY <1>4 DEF MergeTool
  <2>2. ASSUME NEW t \in 0 .. MaxToolIndex
        PROVE  Told(more, t) = Told(parts, t) /\ ToolOf(more, t) = ToolOf(parts, t)
    <3>1. ~ (p # Other /\ p.index = t)
      BY <1>1, <1>4 DEF PartType
    <3>2. \A n : n \in Told(more, t) <=> n \in Told(parts, t)
      BY <1>3, <3>1
    <3>3. ToolOf(more, t) = ToolOf(parts, t)
      BY <3>1, ToolGrows
    <3>. QED
      BY <3>2, <3>3
  <2>3. \A t \in 1 .. L : t - 1 \in 0 .. MaxToolIndex
    BY <1>1
  <2>4. tools = [t \in 1 .. L |-> ToolOf(more, t - 1)]
    BY <1>1, <2>2, <2>3
  <2>5. L # 0 => L - 1 \in 0 .. MaxToolIndex
    BY <1>1
  <2>6. Calls(tools, L, more)
    BY <1>1, <2>2, <2>4, <2>5 DEF Calls
  <2>. QED
    BY <2>1, <2>6
<1>5. CASE ~ (p = Other \/ p.index < 0 \/ p.index > MaxToolIndex)
  <2>. DEFINE i == p.index
              K == IF i < L THEN L ELSE i + 1
              grown == [t \in 1 .. K |-> IF t <= L THEN tools[t] ELSE NoTool]
              Merge(tool) == [ id       |-> MergeLast(tool.id, p.id),
                               function |-> IF p.function = None THEN tool.function
                                            ELSE MergeFunction(tool.function, p.function) ]
              new == MergeTool(tools, p)
  <2>1. p # Other /\ i \in 0 .. MaxToolIndex
    BY <1>1, <1>5 DEF PartType
  <2>2. new = [grown EXCEPT ![i + 1] = Merge(grown[i + 1])]
    BY <1>2, <1>5 DEF MergeTool
  <2>3. /\ K \in Nat /\ K <= MaxToolIndex + 1 /\ i + 1 \in 1 .. K /\ L <= K
        /\ \A t \in 1 .. K : t - 1 \in 0 .. MaxToolIndex /\ (t = i + 1 <=> t - 1 = i)
    BY <1>1, <2>1
  <2>4. ASSUME NEW t \in 1 .. K PROVE grown[t] = ToolOf(parts, t - 1)
    <3>1. CASE t <= L
      BY <1>1, <2>3, <3>1
    <3>2. CASE ~ (t <= L)
      <4>1. ~ (t - 1 < L)
        BY <1>1, <2>3, <3>2
      <4>2. Told(parts, t - 1) = {}
        BY <1>1, <2>3, <4>1
      <4>3. ToolOf(parts, t - 1) = NoTool
        BY <4>2, Untold
      <4>. QED
        BY <3>2, <4>3
    <3>. QED
      BY <3>1, <3>2
  <2>5. ASSUME NEW t \in 1 .. K
        PROVE  ToolOf(more, t - 1) = IF t = i + 1 THEN Merge(grown[t]) ELSE grown[t]
    <3>. DEFINE k == t - 1
    <3>1. ToolOf(more, k) = IF p # Other /\ p.index = k THEN Merge(ToolOf(parts, k)) ELSE ToolOf(parts, k)
      <4>. HIDE DEF k
      <4>. QED
        BY ToolGrows
    <3>2. p.index = k <=> t = i + 1
      BY <2>3
    <3>3. grown[t] = ToolOf(parts, k)
      BY <2>4
    <3>. HIDE DEF k, grown, Merge, i
    <3>4. ToolOf(more, k) = IF t = i + 1 THEN Merge(grown[t]) ELSE grown[t]
      BY <2>1, <3>1, <3>2, <3>3
    <3>. QED
      BY <3>4 DEF k
  <2>6. DOMAIN grown = 1 .. K /\ grown = [t \in 1 .. K |-> grown[t]]
    OBVIOUS
  <2>. HIDE DEF grown, Merge, new, K
  <2>7. new = [t \in 1 .. K |-> ToolOf(more, t - 1)]
    <3>1. new = [t \in 1 .. K |-> IF t = i + 1 THEN Merge(grown[t]) ELSE grown[t]]
      BY <2>2, <2>3, <2>6
    <3>. QED
      BY <2>5, <3>1
  <2>8. \A t \in 0 .. MaxToolIndex : Told(more, t) # {} => t < K
    <3>. SUFFICES ASSUME NEW t \in 0 .. MaxToolIndex, Told(more, t) # {} PROVE t < K
      OBVIOUS
    <3>1. CASE t = i
      BY <2>1, <2>3, <3>1
    <3>2. CASE t # i
      <4>1. Told(parts, t) # {}
        BY <1>3, <3>2
      <4>2. t < L
        BY <1>1, <4>1
      <4>. QED
        BY <1>1, <2>3, <4>2
    <3>. QED
      BY <3>1, <3>2
  <2>9. Told(more, K - 1) # {}
    <3>1. K = L \/ K - 1 = i
      BY <1>1, <2>1 DEF K
    <3>2. CASE K = L
      <4>1. L # 0
        BY <1>1, <2>1, <2>3, <3>2
      <4>. QED
        BY <1>1, <1>3, <3>2, <4>1
    <3>3. CASE K - 1 = i
      BY <1>3, <2>1, <3>3
    <3>. QED
      BY <3>1, <3>2, <3>3
  <2>10. Calls(new, K, more)
    BY <2>3, <2>7, <2>8, <2>9 DEF Calls
  <2>. QED
    BY <2>10 DEF new
<1>. QED
  BY <1>4, <1>5

-----------------------------------------------------------------------------
(* All fragments of a delta                                                *)

\* g[n] is what the first n parts make of tools.
MergesTools(g, tools, parts, m) ==
    g = [n \in 0 .. m |-> IF n = 0 THEN tools ELSE MergeTool(g[n - 1], parts[n])]

(***************************************************************************)
(* The loop over the parts has a result after every part.                  *)
(***************************************************************************)
LEMMA ToolsMerged ==
    ASSUME NEW tools, NEW parts, Len(parts) \in Nat
    PROVE  \E g : MergesTools(g, tools, parts, Len(parts)) /\ MergeTools(tools, parts) = g[Len(parts)]
<1>. DEFINE Good(m) == \E g : MergesTools(g, tools, parts, m)
            T == {m \in 0 .. Len(parts) : ~ Good(m)}
            Body(g) == [n \in 0 .. Len(parts) |->
                            IF n = 0 THEN tools ELSE MergeTool(g[n - 1], parts[n])]
            chosen == CHOOSE g : g = Body(g)
<1>1. ASSUME T # {} PROVE FALSE
  <2>1. T \in SUBSET Nat
    OBVIOUS
  <2>2. PICK m \in T : \A k \in T : m <= k
    BY <1>1, <2>1, LeastNumber
  <2>3. m \in 0 .. Len(parts) /\ ~ Good(m)
    OBVIOUS
  <2>4. m # 0
    <3>. DEFINE h == [n \in 0 .. 0 |-> tools]
    <3>1. MergesTools(h, tools, parts, 0)
      BY DEF MergesTools
    <3>. QED
      BY <2>3, <3>1
  <2>5. m - 1 \in 0 .. Len(parts) /\ ~ (m <= m - 1) /\ m \in Nat
    BY <2>3, <2>4
  <2>6. Good(m - 1)
    <3>. HIDE DEF Good
    <3>1. m - 1 \notin T
      BY <2>2, <2>5
    <3>. QED
      BY <2>5, <3>1
  <2>7. PICK g : MergesTools(g, tools, parts, m - 1)
    BY <2>6
  <2>. DEFINE last == MergeTool(g[m - 1], parts[m])
              h == [n \in 0 .. m |-> IF n = m THEN last ELSE g[n]]
  <2>8. ASSUME NEW n \in 0 .. m
        PROVE  h[n] = IF n = 0 THEN tools ELSE MergeTool(h[n - 1], parts[n])
    <3>1. \A k \in 0 .. m - 1 : g[k] = IF k = 0 THEN tools ELSE MergeTool(g[k - 1], parts[k])
      BY <2>7 DEF MergesTools
    <3>2. n # 0 => n - 1 \in 0 .. m /\ n - 1 # m
      BY <2>5
    <3>3. n # 0 => h[n - 1] = g[n - 1]
      BY <3>2
    <3>4. CASE n = m
      BY <2>4, <3>3, <3>4
    <3>5. CASE n # m
      <4>1. n \in 0 .. m - 1
        BY <2>5, <3>5
      <4>. QED
        BY <3>1, <3>3, <3>5, <4>1
    <3>. QED
      BY <3>4, <3>5
  <2>9. h = [n \in 0 .. m |-> h[n]]
    OBVIOUS
  <2>. HIDE DEF h
  <2>10. MergesTools(h, tools, parts, m)
    BY <2>8, <2>9 DEF MergesTools
  <2>. QED
    BY <2>3, <2>10
<1>2. Good(Len(parts))
  BY <1>1
<1>3. \E g : g = Body(g)
  BY <1>2 DEF MergesTools
<1>4. chosen = Body(chosen)
  BY <1>3
<1>5. MergeTools(tools, parts) = chosen[Len(parts)]
  BY DEF MergeTools
<1>. HIDE DEF chosen
<1>6. MergesTools(chosen, tools, parts, Len(parts))
  BY <1>4 DEF MergesTools
<1>. QED
  BY <1>5, <1>6

\* The first m elements.
Prefix(u, m) == [k \in 1 .. m |-> u[k]]

(***************************************************************************)
(* Prefixes grow by one element, up to the whole.                          *)
(***************************************************************************)
LEMMA PrefixGrows ==
    ASSUME NEW u, NEW m, m \in Nat
    PROVE  Grows(Prefix(u, m), m, u[m + 1], Prefix(u, m + 1))
<1>1. \A n \in 1 .. m : n \in 1 .. m + 1
  OBVIOUS
<1>2. m + 1 \in 1 .. m + 1
  OBVIOUS
<1>. QED
  BY <1>1, <1>2 DEF Grows, Prefix

(***************************************************************************)
(* The parts of s and q, one after the other.                              *)
(***************************************************************************)
LEMMA PrefixesOf ==
    ASSUME NEW S, NEW s, NEW q, s \in Seq(S), q \in Seq(S)
    PROVE  /\ Len(s) \in Nat /\ Len(q) \in Nat
           /\ Prefix(s \o q, Len(s)) = s
           /\ Prefix(s \o q, Len(s) + Len(q)) = s \o q
           /\ \A n \in 1 .. Len(q) : (s \o q)[Len(s) + n] = q[n]
           /\ \A n \in 1 .. Len(s) + Len(q) : (s \o q)[n] \in S
<1>. DEFINE u == s \o q
<1>1. /\ Len(s) \in Nat /\ Len(q) \in Nat /\ u \in Seq(S) /\ Len(u) = Len(s) + Len(q)
      /\ \A n \in 1 .. Len(s) : u[n] = s[n]
      /\ \A n \in 1 .. Len(q) : u[Len(s) + n] = q[n]
  OBVIOUS
<1>2. s = [n \in 1 .. Len(s) |-> s[n]]
  OBVIOUS
<1>. HIDE DEF u
<1>3. u = [n \in 1 .. Len(s) + Len(q) |-> u[n]] /\ \A n \in 1 .. Len(s) + Len(q) : u[n] \in S
  BY <1>1
<1>4. Prefix(u, Len(s)) = s
  BY <1>1, <1>2 DEF Prefix
<1>5. Prefix(u, Len(s) + Len(q)) = u
  BY <1>3 DEF Prefix
<1>. QED
  BY <1>1, <1>3, <1>4, <1>5 DEF u

(***************************************************************************)
(* The loop over the parts of a delta adds what they tell.                 *)
(***************************************************************************)
LEMMA CallsMerged ==
    ASSUME NEW s, NEW q, s \in Seq(PartType \cup {Other}), q \in Seq(PartType \cup {Other}),
           NEW tools, NEW L, Calls(tools, L, s)
    PROVE  \E K : Calls(MergeTools(tools, q), K, s \o q)
<1>. DEFINE u == s \o q
            l == Len(s)
            S == PartType \cup {Other}
<1>1. /\ l \in Nat /\ Len(q) \in Nat
      /\ Prefix(u, l) = s /\ Prefix(u, l + Len(q)) = u
      /\ \A n \in 1 .. Len(q) : u[l + n] = q[n]
      /\ \A n \in 1 .. l + Len(q) : u[n] \in S
  <2>1. s \in Seq(S) /\ q \in Seq(S)
    OBVIOUS
  <2>. HIDE DEF S
  <2>. QED
    BY <2>1, PrefixesOf
<1>2. PICK g : MergesTools(g, tools, q, Len(q)) /\ MergeTools(tools, q) = g[Len(q)]
  BY <1>1, ToolsMerged
<1>3. \A n \in 0 .. Len(q) : g[n] = IF n = 0 THEN tools ELSE MergeTool(g[n - 1], q[n])
  BY <1>2 DEF MergesTools
<1>. DEFINE Good(n) == \E K : Calls(g[n], K, Prefix(u, l + n))
            T == {n \in 0 .. Len(q) : ~ Good(n)}
<1>. HIDE DEF u, l
<1>4. ASSUME T # {} PROVE FALSE
  <2>1. T \in SUBSET Nat
    BY <1>1
  <2>2. PICK n \in T : \A k \in T : n <= k
    BY <1>4, <2>1, LeastNumber
  <2>3. n \in 0 .. Len(q) /\ ~ Good(n)
    OBVIOUS
  <2>4. n # 0
    <3>1. g[0] = tools
      BY <1>1, <1>3
    <3>2. l + 0 = l
      BY <1>1
    <3>3. Good(0)
      BY <1>1, <3>1, <3>2
    <3>. HIDE DEF Good
    <3>. QED
      BY <2>3, <3>3
  <2>. DEFINE j == n - 1
              m == l + j
  <2>5. /\ j \in 0 .. Len(q) /\ ~ (n <= j) /\ m \in Nat /\ l + n = m + 1
        /\ n \in 1 .. Len(q) /\ m <= l + Len(q)
    BY <1>1, <2>3, <2>4
  <2>6. Good(j)
    <3>. HIDE DEF Good, j
    <3>1. j \notin T
      BY <2>2, <2>5
    <3>. QED
      BY <2>5, <3>1
  <2>7. PICK K : Calls(g[j], K, Prefix(u, m))
    BY <2>6
  <2>8. g[n] = MergeTool(g[j], q[n])
    BY <1>3, <2>3, <2>4
  <2>9. u[m + 1] = q[n] /\ q[n] \in S
    BY <1>1, <2>5
  <2>. HIDE DEF j, m
  <2>10. Grows(Prefix(u, m), m, q[n], Prefix(u, m + 1))
    BY <2>5, <2>9, PrefixGrows
  <2>11. \A k \in 1 .. m : Prefix(u, m)[k] \in PartType \cup {Other}
    <3>1. \A k \in 1 .. m : k \in 1 .. l + Len(q)
      BY <1>1, <2>5
    <3>. QED
      BY <1>1, <3>1 DEF Prefix
  <2>12. \E K2 : Calls(MergeTool(g[j], q[n]), K2, Prefix(u, m + 1))
    BY <2>7, <2>9, <2>10, <2>11, CallsGrow
  <2>. QED
    BY <2>3, <2>5, <2>8, <2>12
<1>5. Good(Len(q))
  BY <1>1, <1>4
<1>. QED
  BY <1>1, <1>2, <1>5 DEF u

-----------------------------------------------------------------------------
(* One more element of a choices array                                     *)

\* A choice as far as the items tell, but for its tool calls.
ChoiceOf(items, i, tools) ==
    [ finish  |-> LastOf(Finishes(items, i), {None, Null}, Null),
      message |-> [ content   |-> TextOf(Sent(items, i, "content"), <<>>),
                    reasoning |-> TextOf(Sent(items, i, "reasoning"), None),
                    role      |-> LastOf(Sent(items, i, "role"), {None, Null}, "assistant"),
                    call      |-> FunctionOf(Objects(Sent(items, i, "call"))),
                    tools     |-> tools ] ]

\* The item that comes, and those before it.
Comes(items, N, c, more) ==
    /\ Grows(items, N, c, more)
    /\ c \in ItemType \cup {Other}
    /\ \A n \in 1 .. N : items[n] \in ItemType \cup {Other}

(***************************************************************************)
(* What an item adds to the values of a key.                               *)
(***************************************************************************)
LEMMA SentGrows ==
    ASSUME NEW items, NEW N, NEW c, NEW more, NEW i, NEW key, Grows(items, N, c, more)
    PROVE  Grows(Sent(items, i, key), N, IF Speaks(c, i) THEN c.delta[key] ELSE None,
                 Sent(more, i, key))
<1>1. /\ N \in Nat /\ DOMAIN items = 1 .. N /\ DOMAIN more = 1 .. N + 1
      /\ \A n \in 1 .. N : more[n] = items[n]
      /\ more[N + 1] = c
  BY DEF Grows
<1>2. (\A n \in 1 .. N : n \in 1 .. N + 1) /\ N + 1 \in 1 .. N + 1
  BY <1>1
<1>. QED
  BY <1>1, <1>2 DEF Grows, Sent

(***************************************************************************)
(* What it adds to the texts of a choice.                                  *)
(***************************************************************************)
LEMMA TextsGrow ==
    ASSUME NEW items, NEW N, NEW c, NEW more, NEW i, Comes(items, N, c, more)
    PROVE  /\ TextOf(Sent(more, i, "content"), <<>>) =
                LET old == TextOf(Sent(items, i, "content"), <<>>)
                IN  IF Speaks(c, i) THEN MergeText(old, c.delta.content) ELSE old
           /\ TextOf(Sent(more, i, "reasoning"), None) =
                LET old == TextOf(Sent(items, i, "reasoning"), None)
                IN  IF Speaks(c, i) THEN MergeText(old, c.delta.reasoning) ELSE old
<1>1. /\ Grows(items, N, c, more)
      /\ c \in ItemType \cup {Other}
      /\ \A n \in 1 .. N : items[n] \in ItemType \cup {Other}
      /\ DOMAIN items = 1 .. N
  BY DEF Comes, Grows
<1>2. \A item \in ItemType \cup {Other} : Speaks(item, i) =>
            item.delta["content"] \in TextType /\ item.delta["reasoning"] \in TextType
  BY DEF Speaks, ItemType, DeltaType
<1>3. None \in TextType /\ \A old : MergeText(old, None) = old
  BY DEF TextType, MergeText
<1>4. ASSUME NEW key \in {"content", "reasoning"}, NEW first, first \in {<<>>, None}
      PROVE  TextOf(Sent(more, i, key), first) =
                IF Speaks(c, i) THEN MergeText(TextOf(Sent(items, i, key), first), c.delta[key])
                ELSE TextOf(Sent(items, i, key), first)
  <2>. DEFINE v == IF Speaks(c, i) THEN c.delta[key] ELSE None
              old == Sent(items, i, key)
              new == Sent(more, i, key)
  <2>1. Grows(old, N, v, new)
    BY <1>1, SentGrows
  <2>2. v \in TextType
    BY <1>1, <1>2, <1>3
  <2>3. \A n \in 1 .. N : old[n] \in TextType
    BY <1>1, <1>2, <1>3 DEF Sent
  <2>. HIDE DEF v, old, new
  <2>4. TextOf(new, first) = MergeText(TextOf(old, first), v)
    BY <1>4, <2>1, <2>2, <2>3, TextGrows
  <2>. QED
    BY <1>3, <2>4 DEF v, old, new
<1>. DEFINE content == "content"
            reasoning == "reasoning"
            empty == <<>>
<1>5. content \in {"content", "reasoning"} /\ reasoning \in {"content", "reasoning"}
      /\ empty \in {<<>>, None} /\ None \in {<<>>, None}
  OBVIOUS
<1>. HIDE DEF content, reasoning, empty
<1>6. TextOf(Sent(more, i, content), empty) =
            IF Speaks(c, i) THEN MergeText(TextOf(Sent(items, i, content), empty), c.delta[content])
            ELSE TextOf(Sent(items, i, content), empty)
  BY <1>4, <1>5
<1>7. TextOf(Sent(more, i, reasoning), None) =
            IF Speaks(c, i) THEN MergeText(TextOf(Sent(items, i, reasoning), None), c.delta[reasoning])
            ELSE TextOf(Sent(items, i, reasoning), None)
  BY <1>4, <1>5
<1>. QED
  BY <1>6, <1>7 DEF content, reasoning, empty

\* The last value but null.
LastPlain(values, first) == LastOf(values, {None, Null}, first)

(***************************************************************************)
(* What it adds to the plain values.                                       *)
(***************************************************************************)
LEMMA PlainGrow ==
    ASSUME NEW items, NEW N, NEW c, NEW more, NEW i, Grows(items, N, c, more)
    PROVE  /\ LastPlain(Finishes(more, i), Null) =
                LET old == LastPlain(Finishes(items, i), Null)
                IN  IF c # Other /\ c.index = i THEN MergePlain(old, c.finish) ELSE old
           /\ LastPlain(Sent(more, i, "role"), "assistant") =
                LET old == LastPlain(Sent(items, i, "role"), "assistant")
                IN  IF Speaks(c, i) THEN MergePlain(old, c.delta.role) ELSE old
<1>. DEFINE ignored == {None, Null}
            first == Null
            role == "role"
            assistant == "assistant"
            v == IF c # Other /\ c.index = i THEN c.finish ELSE None
            w == IF Speaks(c, i) THEN c.delta[role] ELSE None
<1>1. /\ N \in Nat /\ DOMAIN items = 1 .. N /\ DOMAIN more = 1 .. N + 1
      /\ \A n \in 1 .. N : more[n] = items[n]
      /\ more[N + 1] = c
  BY DEF Grows
<1>2. (\A n \in 1 .. N : n \in 1 .. N + 1) /\ N + 1 \in 1 .. N + 1
  BY <1>1
<1>3. Grows(Finishes(items, i), N, v, Finishes(more, i))
  BY <1>1, <1>2 DEF Grows, Finishes
<1>4. Grows(Sent(items, i, role), N, w, Sent(more, i, role))
  BY SentGrows
<1>. HIDE DEF ignored, first, role, assistant, v, w
<1>5. LastOf(Finishes(more, i), ignored, first)
        = IF v \in ignored THEN LastOf(Finishes(items, i), ignored, first) ELSE v
  BY <1>3, LastGrows
<1>6. LastOf(Sent(more, i, role), ignored, assistant)
        = IF w \in ignored THEN LastOf(Sent(items, i, role), ignored, assistant) ELSE w
  BY <1>4, LastGrows
<1>7. LastPlain(Finishes(more, i), Null)
        = IF v \in {None, Null} THEN LastPlain(Finishes(items, i), Null) ELSE v
  BY <1>5 DEF ignored, first, LastPlain
<1>8. LastPlain(Sent(more, i, "role"), "assistant")
        = IF w \in {None, Null} THEN LastPlain(Sent(items, i, "role"), "assistant") ELSE w
  BY <1>6 DEF ignored, role, assistant, LastPlain
<1>9. w = IF Speaks(c, i) THEN c.delta.role ELSE None
  BY DEF w, role
<1>. QED
  BY <1>7, <1>8, <1>9 DEF MergePlain, v

(***************************************************************************)
(* What it adds to the function call.                                      *)
(***************************************************************************)
LEMMA FunctionCallGrows ==
    ASSUME NEW items, NEW N, NEW c, NEW more, NEW i, Comes(items, N, c, more)
    PROVE  FunctionOf(Objects(Sent(more, i, "call"))) =
                LET old == FunctionOf(Objects(Sent(items, i, "call")))
                IN  IF Speaks(c, i) THEN MergeFunctionCall(old, c.delta.call) ELSE old
<1>. DEFINE key == "call"
            v == IF Speaks(c, i) THEN c.delta[key] ELSE None
            w == IF v \in {Null, Other} THEN None ELSE v
            old == Sent(items, i, key)
            new == Sent(more, i, key)
<1>1. /\ Grows(items, N, c, more)
      /\ c \in ItemType \cup {Other}
      /\ \A n \in 1 .. N : items[n] \in ItemType \cup {Other}
      /\ DOMAIN items = 1 .. N
  BY DEF Comes, Grows
<1>2. \A item \in ItemType \cup {Other} : Speaks(item, i) => item.delta["call"] \in FunctionType
  BY DEF Speaks, ItemType, DeltaType
<1>3. None \in FunctionType
  BY DEF FunctionType
<1>4. v \in FunctionType
  BY <1>1, <1>2, <1>3
<1>5. \A n \in 1 .. N : old[n] \in FunctionType
  BY <1>1, <1>2, <1>3 DEF Sent
<1>6. Grows(old, N, v, new)
  BY <1>1, SentGrows
<1>7. v = IF Speaks(c, i) THEN c.delta.call ELSE None
  OBVIOUS
<1>8. old = Sent(items, i, "call") /\ new = Sent(more, i, "call")
  OBVIOUS
<1>. HIDE DEF v, old, new
<1>9. /\ N \in Nat /\ DOMAIN old = 1 .. N /\ DOMAIN new = 1 .. N + 1
      /\ \A n \in 1 .. N : new[n] = old[n]
      /\ new[N + 1] = v
      /\ \A n \in 1 .. N : n \in 1 .. N + 1
      /\ N + 1 \in 1 .. N + 1
  <2>1. /\ N \in Nat /\ DOMAIN old = 1 .. N /\ DOMAIN new = 1 .. N + 1
        /\ \A n \in 1 .. N : new[n] = old[n]
        /\ new[N + 1] = v
    BY <1>6 DEF Grows
  <2>2. (\A n \in 1 .. N : n \in 1 .. N + 1) /\ N + 1 \in 1 .. N + 1
    BY <2>1
  <2>. QED
    BY <2>1, <2>2
<1>10. Grows(Objects(old), N, w, Objects(new))
  BY <1>9 DEF Grows, Objects
<1>11. w \in FunctionType /\ \A n \in 1 .. N : Objects(old)[n] \in FunctionType
  BY <1>3, <1>4, <1>5, <1>9 DEF Objects
<1>12. w = None <=> v \in {None, Null, Other}
  OBVIOUS
<1>13. v \notin {None, Null, Other} => w = v
  OBVIOUS
<1>. HIDE DEF w
<1>14. FunctionOf(Objects(new)) = IF w = None THEN FunctionOf(Objects(old))
                                  ELSE MergeFunction(FunctionOf(Objects(old)), w)
  BY <1>10, <1>11, FunctionGrows
<1>15. FunctionOf(Objects(new)) = MergeFunctionCall(FunctionOf(Objects(old)), v)
  BY <1>12, <1>13, <1>14 DEF MergeFunctionCall
<1>16. MergeFunctionCall(FunctionOf(Objects(old)), None) = FunctionOf(Objects(old))
  BY DEF MergeFunctionCall
<1>. QED
  BY <1>7, <1>8, <1>15, <1>16

(***************************************************************************)
(* What it adds to the fragments of tool calls.                            *)
(***************************************************************************)
LEMMA FragmentsGrow ==
    ASSUME NEW items, NEW N, NEW c, NEW more, NEW i, Comes(items, N, c, more)
    PROVE  /\ Fragments(items, i) \in Seq(PartType \cup {Other})
           /\ Fragments(more, i) =
                IF Speaks(c, i) THEN Fragments(items, i) \o c.delta.tools ELSE Fragments(items, i)
           /\ Speaks(c, i) => c.delta.tools \in Seq(PartType \cup {Other})
<1>. DEFINE S == PartType \cup {Other}
            old == [n \in DOMAIN items |-> IF Speaks(items[n], i) THEN items[n].delta.tools ELSE <<>>]
            new == [n \in DOMAIN more |-> IF Speaks(more[n], i) THEN more[n].delta.tools ELSE <<>>]
            v == IF Speaks(c, i) THEN c.delta.tools ELSE <<>>
<1>1. /\ N \in Nat /\ DOMAIN items = 1 .. N /\ DOMAIN more = 1 .. N + 1
      /\ \A n \in 1 .. N : more[n] = items[n]
      /\ more[N + 1] = c
      /\ c \in ItemType \cup {Other}
      /\ \A n \in 1 .. N : items[n] \in ItemType \cup {Other}
  BY DEF Comes, Grows
<1>2. (\A n \in 1 .. N : n \in 1 .. N + 1) /\ N + 1 \in 1 .. N + 1
  BY <1>1
<1>3. \A item \in ItemType \cup {Other} : Speaks(item, i) => item.delta.tools \in Seq(S)
  BY DEF Speaks, ItemType, DeltaType
<1>4. Grows(old, N, v, new)
  BY <1>1, <1>2 DEF Grows
<1>5. Fragments(items, i) = FlattenSeq(old) /\ Fragments(more, i) = FlattenSeq(new)
  BY DEF Fragments
<1>. HIDE DEF S
<1>6. <<>> \in Seq(S)
  OBVIOUS
<1>7. v \in Seq(S)
  BY <1>1, <1>3, <1>6
<1>8. old = [n \in 1 .. N |-> old[n]] /\ \A n \in 1 .. N : old[n] \in Seq(S)
  BY <1>1, <1>3, <1>6
<1>. HIDE DEF old, new, v
<1>9. old \in Seq(Seq(S))
  BY <1>1, <1>8
<1>10. FlattenSeq(old) \in Seq(S) /\ FlattenSeq(new) = FlattenSeq(old) \o v
  BY <1>4, <1>7, <1>9, FlattenGrows
<1>11. ~ Speaks(c, i) => FlattenSeq(new) = FlattenSeq(old)
  BY <1>10 DEF v
<1>12. Speaks(c, i) => v = c.delta.tools
  BY DEF v
<1>13. Fragments(items, i) \in Seq(S)
  BY <1>5, <1>10
<1>14. Fragments(more, i) =
            IF Speaks(c, i) THEN Fragments(items, i) \o c.delta.tools ELSE Fragments(items, i)
  BY <1>5, <1>10, <1>11, <1>12
<1>. QED
  BY <1>7, <1>12, <1>13, <1>14 DEF S

(***************************************************************************)
(* Nothing is told of a choice without an item.                            *)
(***************************************************************************)
LEMMA Unstarted ==
    ASSUME NEW items, NEW N, N \in Nat, DOMAIN items = 1 .. N, NEW i, i \notin Indices(items)
    PROVE  NoChoice = ChoiceOf(items, i, <<>>) /\ Calls(<<>>, 0, Fragments(items, i))
<1>. DEFINE content == "content"
            reasoning == "reasoning"
            role == "role"
            call == "call"
<1>1. \A n \in 1 .. N : ~ (items[n] # Other /\ items[n].index = i)
  BY DEF Indices
<1>2. \A n \in 1 .. N : ~ Speaks(items[n], i)
  BY <1>1 DEF Speaks
<1>3. ASSUME NEW key PROVE Sent(items, i, key) = [n \in 1 .. N |-> None]
  BY <1>2 DEF Sent
<1>4. Finishes(items, i) = [n \in 1 .. N |-> None]
  BY <1>1 DEF Finishes
<1>. DEFINE none == [n \in 1 .. N |-> None]
<1>5. DOMAIN none = 1 .. N /\ \A n \in 1 .. N : none[n] = None
  OBVIOUS
<1>. HIDE DEF content, reasoning, role, call, none
<1>6. /\ Sent(items, i, content) = none /\ Sent(items, i, reasoning) = none
      /\ Sent(items, i, role) = none /\ Sent(items, i, call) = none
      /\ Finishes(items, i) = none
  BY <1>3, <1>4 DEF none
<1>7. \A first : TextOf(none, first) = first
  BY <1>5 DEF TextOf
<1>8. \A first : LastOf(none, {None, Null}, first) = first
  BY <1>5 DEF LastOf
<1>9. FunctionOf(Objects(none)) = None
  <2>1. \A n \in DOMAIN Objects(none) : Objects(none)[n] = None
    BY <1>5 DEF Objects
  <2>. QED
    BY <2>1 DEF FunctionOf
<1>10. NoChoice = ChoiceOf(items, i, <<>>)
  <2>. DEFINE empty == <<>>
              assistant == "assistant"
  <2>. HIDE DEF empty, assistant
  <2>1. /\ TextOf(Sent(items, i, content), empty) = empty
        /\ TextOf(Sent(items, i, reasoning), None) = None
        /\ LastOf(Sent(items, i, role), {None, Null}, assistant) = assistant
        /\ FunctionOf(Objects(Sent(items, i, call))) = None
        /\ LastOf(Finishes(items, i), {None, Null}, Null) = Null
    BY <1>6, <1>7, <1>8, <1>9
  <2>. QED
    BY <2>1 DEF NoChoice, ChoiceOf, empty, assistant, content, reasoning, role, call
<1>11. Fragments(items, i) = <<>>
  <2>. DEFINE ss == [n \in DOMAIN items |-> IF Speaks(items[n], i) THEN items[n].delta.tools ELSE <<>>]
  <2>1. Fragments(items, i) = FlattenSeq(ss)
    BY DEF Fragments
  <2>2. DOMAIN ss = 1 .. N /\ ss = [n \in 1 .. N |-> <<>>]
    BY <1>2
  <2>. HIDE DEF ss
  <2>. QED
    BY <2>1, <2>2, FlattenEmpty
<1>12. Told(<<>>, 0) = {} /\ \A t : Told(<<>>, t) = {}
  BY DEF Told
<1>13. <<>> = [t \in 1 .. 0 |-> ToolOf(<<>>, t - 1)]
  OBVIOUS
<1>14. Calls(<<>>, 0, <<>>)
  BY <1>12, <1>13, CompletionAssumption DEF Calls
<1>. QED
  BY <1>10, <1>11, <1>14

\* What an item makes of choice i.
After(old, c, i) ==
    IF c # Other /\ c.index = i
    THEN [ finish  |-> MergePlain(old.finish, c.finish),
           message |-> IF c.delta = None THEN old.message ELSE MergeDelta(old.message, c.delta) ]
    ELSE old

\* A choice is what the items tell of it.
Stands(old, items, i) ==
    /\ old = ChoiceOf(items, i, old.message.tools)
    /\ \E L : Calls(old.message.tools, L, Fragments(items, i))

(***************************************************************************)
(* An item makes of every choice what all items tell of it.                *)
(***************************************************************************)
LEMMA ChoiceGrows ==
    ASSUME NEW items, NEW N, NEW c, NEW more, NEW i, Comes(items, N, c, more),
           NEW old, Stands(old, items, i)
    PROVE  Stands(After(old, c, i), more, i)
<1>. DEFINE new == After(old, c, i)
            tools == old.message.tools
            merged == MergeTools(tools, c.delta.tools)
<1>0. Grows(items, N, c, more)
  BY DEF Comes
<1>1. PICK L : Calls(tools, L, Fragments(items, i))
  BY DEF Stands
<1>2. old = ChoiceOf(items, i, tools)
  BY DEF Stands
<1>3. /\ old.finish = LastOf(Finishes(items, i), {None, Null}, Null)
      /\ old.message.content = TextOf(Sent(items, i, "content"), <<>>)
      /\ old.message.reasoning = TextOf(Sent(items, i, "reasoning"), None)
      /\ old.message.role = LastOf(Sent(items, i, "role"), {None, Null}, "assistant")
      /\ old.message.call = FunctionOf(Objects(Sent(items, i, "call")))
  <2>. HIDE DEF tools
  <2>. QED
    BY <1>2 DEF ChoiceOf
<1>. DEFINE finish == LastOf(Finishes(more, i), {None, Null}, Null)
            role == LastOf(Sent(more, i, "role"), {None, Null}, "assistant")
<1>6. /\ finish = IF c # Other /\ c.index = i THEN MergePlain(old.finish, c.finish) ELSE old.finish
      /\ role = IF Speaks(c, i) THEN MergePlain(old.message.role, c.delta.role) ELSE old.message.role
  <2>1. old.finish = LastPlain(Finishes(items, i), Null)
        /\ old.message.role = LastPlain(Sent(items, i, "role"), "assistant")
    BY <1>3 DEF LastPlain
  <2>2. finish = LastPlain(Finishes(more, i), Null)
        /\ role = LastPlain(Sent(more, i, "role"), "assistant")
    BY DEF LastPlain
  <2>. HIDE DEF finish, role
  <2>. QED
    BY <1>0, <2>1, <2>2, PlainGrow
<1>4. CASE Speaks(c, i)
  <2>1. c # Other /\ c.index = i /\ c.delta # None
    BY <1>4 DEF Speaks
  <2>2. new = [ finish  |-> MergePlain(old.finish, c.finish),
                message |-> MergeDelta(old.message, c.delta) ]
    BY <2>1 DEF After
  <2>3. new.message.tools = merged
    BY <2>2 DEF MergeDelta
  <2>4. new = ChoiceOf(more, i, merged)
    <3>1. LastOf(Finishes(more, i), {None, Null}, Null) = MergePlain(old.finish, c.finish)
      BY <1>6, <2>1
    <3>2. LastOf(Sent(more, i, "role"), {None, Null}, "assistant") = MergePlain(old.message.role, c.delta.role)
      BY <1>4, <1>6
    <3>3. /\ TextOf(Sent(more, i, "content"), <<>>) = MergeText(old.message.content, c.delta.content)
          /\ TextOf(Sent(more, i, "reasoning"), None) = MergeText(old.message.reasoning, c.delta.reasoning)
      BY <1>3, <1>4, TextsGrow
    <3>4. FunctionOf(Objects(Sent(more, i, "call"))) = MergeFunctionCall(old.message.call, c.delta.call)
      BY <1>3, <1>4, FunctionCallGrows
    <3>5. MergeDelta(old.message, c.delta) =
            [ content   |-> TextOf(Sent(more, i, "content"), <<>>),
              reasoning |-> TextOf(Sent(more, i, "reasoning"), None),
              role      |-> LastOf(Sent(more, i, "role"), {None, Null}, "assistant"),
              call      |-> FunctionOf(Objects(Sent(more, i, "call"))),
              tools     |-> merged ]
      BY <3>2, <3>3, <3>4 DEF MergeDelta
    <3>. QED
      BY <2>2, <3>1, <3>5 DEF ChoiceOf
  <2>5. \E K : Calls(merged, K, Fragments(more, i))
    <3>. DEFINE s == Fragments(items, i)
                q == c.delta.tools
    <3>1. /\ s \in Seq(PartType \cup {Other}) /\ q \in Seq(PartType \cup {Other})
          /\ Fragments(more, i) = s \o q
      BY <1>4, FragmentsGrow
    <3>2. Calls(tools, L, s) /\ merged = MergeTools(tools, q)
      BY <1>1
    <3>. HIDE DEF s, q, tools, merged
    <3>3. \E K : Calls(MergeTools(tools, q), K, s \o q)
      BY <3>1, <3>2, CallsMerged
    <3>. QED
      BY <3>1, <3>2, <3>3
  <2>. HIDE DEF new, merged
  <2>6. Stands(new, more, i)
    BY <2>3, <2>4, <2>5 DEF Stands
  <2>. QED
    BY <2>6 DEF new
<1>5. CASE ~ Speaks(c, i)
  <2>1. /\ new.message = old.message
        /\ new = [ finish |-> IF c # Other /\ c.index = i THEN MergePlain(old.finish, c.finish) ELSE old.finish,
                   message |-> old.message ]
    <3>1. old = [finish |-> old.finish, message |-> old.message]
      <4>. HIDE DEF tools
      <4>. QED
        BY <1>2 DEF ChoiceOf
    <3>2. CASE c # Other /\ c.index = i
      <4>1. c.delta = None
        BY <1>5, <3>2 DEF Speaks
      <4>. QED
        BY <3>2, <4>1 DEF After
    <3>3. CASE ~ (c # Other /\ c.index = i)
      BY <3>1, <3>3 DEF After
    <3>. QED
      BY <3>2, <3>3
  <2>2. LastOf(Finishes(more, i), {None, Null}, Null) =
            IF c # Other /\ c.index = i THEN MergePlain(old.finish, c.finish) ELSE old.finish
    BY <1>6
  <2>3. LastOf(Sent(more, i, "role"), {None, Null}, "assistant") = old.message.role
    BY <1>5, <1>6
  <2>4. /\ TextOf(Sent(more, i, "content"), <<>>) = old.message.content
        /\ TextOf(Sent(more, i, "reasoning"), None) = old.message.reasoning
    BY <1>3, <1>5, TextsGrow
  <2>5. FunctionOf(Objects(Sent(more, i, "call"))) = old.message.call
    BY <1>3, <1>5, FunctionCallGrows
  <2>6. old.message =
            [ content   |-> old.message.content, reasoning |-> old.message.reasoning,
              role      |-> old.message.role, call |-> old.message.call, tools |-> tools ]
    <3>. HIDE DEF tools
    <3>1. old.message.tools = tools
      BY DEF tools
    <3>. QED
      BY <1>2, <3>1 DEF ChoiceOf
  <2>7. new.message.tools = tools
    BY <2>1
  <2>. HIDE DEF new, tools
  <2>8. new = ChoiceOf(more, i, tools)
    BY <2>1, <2>2, <2>3, <2>4, <2>5, <2>6 DEF ChoiceOf
  <2>9. Fragments(more, i) = Fragments(items, i)
    BY <1>5, FragmentsGrow
  <2>10. Stands(new, more, i)
    BY <1>1, <2>7, <2>8, <2>9 DEF Stands
  <2>. QED
    BY <2>10 DEF new
<1>. QED
  BY <1>4, <1>5

\* The choices are what the items tell of them.
Assembled(all, items) ==
    /\ DOMAIN all = Indices(items) /\ all = [i \in Indices(items) |-> all[i]]
    /\ \A i \in Indices(items) : Stands(all[i], items, i)

(***************************************************************************)
(* One element of a chunk's choices.                                       *)
(***************************************************************************)
LEMMA AssemblyGrows ==
    ASSUME NEW items, NEW N, NEW c, NEW more, Comes(items, N, c, more),
           NEW all, Assembled(all, items)
    PROVE  Assembled(MergeChoice(all, c), more)
<1>. DEFINE I == Indices(items)
            J == Indices(more)
            Was(i) == IF i \in I THEN all[i] ELSE NoChoice
<1>1. /\ N \in Nat /\ DOMAIN items = 1 .. N /\ DOMAIN more = 1 .. N + 1
      /\ \A n \in 1 .. N : more[n] = items[n]
      /\ more[N + 1] = c
  BY DEF Comes, Grows
<1>2. \A n : n \in 1 .. N + 1 <=> n \in 1 .. N \/ n = N + 1
  BY <1>1
<1>3. \A i : i \in J <=> i \in I \/ (c # Other /\ c.index = i)
  BY <1>1, <1>2 DEF Indices
<1>4. /\ DOMAIN all = I /\ all = [i \in I |-> all[i]]
      /\ \A i \in I : Stands(all[i], items, i)
  BY DEF Assembled
<1>. HIDE DEF I, J
<1>5. ASSUME NEW i PROVE Stands(Was(i), items, i)
  <2>1. CASE i \in I
    BY <1>4, <2>1
  <2>2. CASE i \notin I
    <3>. DEFINE none == <<>>
    <3>1. NoChoice = ChoiceOf(items, i, none) /\ Calls(none, 0, Fragments(items, i))
      BY <1>1, <2>2, Unstarted DEF I
    <3>2. NoChoice.message.tools = none
      BY DEF NoChoice
    <3>. HIDE DEF none
    <3>3. Stands(NoChoice, items, i)
      BY <3>1, <3>2 DEF Stands
    <3>. QED
      BY <2>2, <3>3
  <2>. QED
    BY <2>1, <2>2
<1>6. ASSUME NEW i PROVE Stands(After(Was(i), c, i), more, i)
  <2>. DEFINE old == Was(i)
  <2>1. Stands(old, items, i)
    BY <1>5
  <2>. HIDE DEF old
  <2>2. Stands(After(old, c, i), more, i)
    BY <2>1, ChoiceGrows
  <2>. QED
    BY <2>2 DEF old
<1>7. MergeChoice(all, c) = [i \in J |-> After(Was(i), c, i)]
  <2>1. CASE c = Other
    <3>1. J = I
      BY <1>3, <2>1
    <3>2. \A i \in I : After(Was(i), c, i) = all[i]
      BY <2>1 DEF After
    <3>. HIDE DEF Was
    <3>. QED
      BY <1>4, <2>1, <3>1, <3>2 DEF MergeChoice
  <2>2. CASE c # Other
    <3>1. J = DOMAIN all \cup {c.index} /\ c.index \in J
      BY <1>3, <1>4, <2>2
    <3>. DEFINE known == [i \in DOMAIN all \cup {c.index} |->
                              IF i \in DOMAIN all THEN all[i] ELSE NoChoice]
                Merge(old) == [ finish  |-> MergePlain(old.finish, c.finish),
                                message |-> IF c.delta = None THEN old.message
                                            ELSE MergeDelta(old.message, c.delta) ]
    <3>2. MergeChoice(all, c) = [known EXCEPT ![c.index] = Merge(known[c.index])]
      BY <2>2 DEF MergeChoice
    <3>3. known = [i \in J |-> Was(i)]
      BY <1>4, <3>1
    <3>4. \A i \in J : After(Was(i), c, i) = IF i = c.index THEN Merge(Was(i)) ELSE Was(i)
      BY <2>2 DEF After
    <3>. HIDE DEF known, Merge, Was
    <3>. QED
      BY <3>1, <3>2, <3>3, <3>4
  <2>. QED
    BY <2>1, <2>2
<1>. DEFINE new == MergeChoice(all, c)
<1>. HIDE DEF new, Was
<1>8. DOMAIN new = J /\ new = [i \in J |-> new[i]] /\ \A i \in J : new[i] = After(Was(i), c, i)
  BY <1>7 DEF new
<1>9. \A i \in J : Stands(new[i], more, i)
  BY <1>6, <1>8
<1>10. Assembled(new, more)
  BY <1>8, <1>9 DEF Assembled, J
<1>. QED
  BY <1>10 DEF new

-----------------------------------------------------------------------------
(* All choices of a chunk                                                  *)

\* g[n] is what the first n items make of the choices.
MergesChoices(g, all, items, m) ==
    g = [n \in 0 .. m |-> IF n = 0 THEN all ELSE MergeChoice(g[n - 1], items[n])]

(***************************************************************************)
(* The loop over the choices of a chunk has a result after every one.      *)
(***************************************************************************)
LEMMA ChoicesMerged ==
    ASSUME NEW all, NEW items, Len(items) \in Nat
    PROVE  \E g : MergesChoices(g, all, items, Len(items)) /\ MergeChoices(all, items) = g[Len(items)]
<1>. DEFINE Good(m) == \E g : MergesChoices(g, all, items, m)
            T == {m \in 0 .. Len(items) : ~ Good(m)}
            Body(g) == [n \in 0 .. Len(items) |->
                            IF n = 0 THEN all ELSE MergeChoice(g[n - 1], items[n])]
            chosen == CHOOSE g : g = Body(g)
<1>1. ASSUME T # {} PROVE FALSE
  <2>1. T \in SUBSET Nat
    OBVIOUS
  <2>2. PICK m \in T : \A k \in T : m <= k
    BY <1>1, <2>1, LeastNumber
  <2>3. m \in 0 .. Len(items) /\ ~ Good(m)
    OBVIOUS
  <2>4. m # 0
    <3>. DEFINE h == [n \in 0 .. 0 |-> all]
    <3>1. MergesChoices(h, all, items, 0)
      BY DEF MergesChoices
    <3>. QED
      BY <2>3, <3>1
  <2>5. m - 1 \in 0 .. Len(items) /\ ~ (m <= m - 1) /\ m \in Nat
    BY <2>3, <2>4
  <2>6. Good(m - 1)
    <3>. HIDE DEF Good
    <3>1. m - 1 \notin T
      BY <2>2, <2>5
    <3>. QED
      BY <2>5, <3>1
  <2>7. PICK g : MergesChoices(g, all, items, m - 1)
    BY <2>6
  <2>. DEFINE last == MergeChoice(g[m - 1], items[m])
              h == [n \in 0 .. m |-> IF n = m THEN last ELSE g[n]]
  <2>8. ASSUME NEW n \in 0 .. m
        PROVE  h[n] = IF n = 0 THEN all ELSE MergeChoice(h[n - 1], items[n])
    <3>1. \A k \in 0 .. m - 1 : g[k] = IF k = 0 THEN all ELSE MergeChoice(g[k - 1], items[k])
      BY <2>7 DEF MergesChoices
    <3>2. n # 0 => n - 1 \in 0 .. m /\ n - 1 # m
      BY <2>5
    <3>3. n # 0 => h[n - 1] = g[n - 1]
      BY <3>2
    <3>4. CASE n = m
      BY <2>4, <3>3, <3>4
    <3>5. CASE n # m
      <4>1. n \in 0 .. m - 1
        BY <2>5, <3>5
      <4>. QED
        BY <3>1, <3>3, <3>5, <4>1
    <3>. QED
      BY <3>4, <3>5
  <2>9. h = [n \in 0 .. m |-> h[n]]
    OBVIOUS
  <2>. HIDE DEF h
  <2>10. MergesChoices(h, all, items, m)
    BY <2>8, <2>9 DEF MergesChoices
  <2>. QED
    BY <2>3, <2>10
<1>2. Good(Len(items))
  BY <1>1
<1>3. \E g : g = Body(g)
  BY <1>2 DEF MergesChoices
<1>4. chosen = Body(chosen)
  BY <1>3
<1>5. MergeChoices(all, items) = chosen[Len(items)]
  BY DEF MergeChoices
<1>. HIDE DEF chosen
<1>6. MergesChoices(chosen, all, items, Len(items))
  BY <1>4 DEF MergesChoices
<1>. QED
  BY <1>5, <1>6

(***************************************************************************)
(* The loop over the choices of a chunk assembles them.                    *)
(***************************************************************************)
LEMMA AssemblyMerged ==
    ASSUME NEW s, NEW q, s \in Seq(ItemType \cup {Other}), q \in Seq(ItemType \cup {Other}),
           NEW all, Assembled(all, s)
    PROVE  Assembled(MergeChoices(all, q), s \o q)
<1>. DEFINE u == s \o q
            l == Len(s)
            S == ItemType \cup {Other}
<1>1. /\ l \in Nat /\ Len(q) \in Nat
      /\ Prefix(u, l) = s /\ Prefix(u, l + Len(q)) = u
      /\ \A n \in 1 .. Len(q) : u[l + n] = q[n]
      /\ \A n \in 1 .. l + Len(q) : u[n] \in S
  <2>1. s \in Seq(S) /\ q \in Seq(S)
    OBVIOUS
  <2>. HIDE DEF S
  <2>. QED
    BY <2>1, PrefixesOf
<1>2. PICK g : MergesChoices(g, all, q, Len(q)) /\ MergeChoices(all, q) = g[Len(q)]
  BY <1>1, ChoicesMerged
<1>3. \A n \in 0 .. Len(q) : g[n] = IF n = 0 THEN all ELSE MergeChoice(g[n - 1], q[n])
  BY <1>2 DEF MergesChoices
<1>. DEFINE Good(n) == Assembled(g[n], Prefix(u, l + n))
            T == {n \in 0 .. Len(q) : ~ Good(n)}
<1>. HIDE DEF u, l
<1>4. ASSUME T # {} PROVE FALSE
  <2>1. T \in SUBSET Nat
    BY <1>1
  <2>2. PICK n \in T : \A k \in T : n <= k
    BY <1>4, <2>1, LeastNumber
  <2>3. n \in 0 .. Len(q) /\ ~ Good(n)
    OBVIOUS
  <2>4. n # 0
    <3>1. g[0] = all
      BY <1>1, <1>3
    <3>2. l + 0 = l
      BY <1>1
    <3>3. Good(0)
      BY <1>1, <3>1, <3>2
    <3>. HIDE DEF Good
    <3>. QED
      BY <2>3, <3>3
  <2>. DEFINE j == n - 1
              m == l + j
  <2>5. /\ j \in 0 .. Len(q) /\ ~ (n <= j) /\ m \in Nat /\ l + n = m + 1
        /\ n \in 1 .. Len(q) /\ m <= l + Len(q)
    BY <1>1, <2>3, <2>4
  <2>6. Good(j)
    <3>. HIDE DEF Good, j
    <3>1. j \notin T
      BY <2>2, <2>5
    <3>. QED
      BY <2>5, <3>1
  <2>7. Assembled(g[j], Prefix(u, m))
    BY <2>6
  <2>8. g[n] = MergeChoice(g[j], q[n])
    BY <1>3, <2>3, <2>4
  <2>9. u[m + 1] = q[n] /\ q[n] \in S
    BY <1>1, <2>5
  <2>. HIDE DEF j, m
  <2>10. Grows(Prefix(u, m), m, q[n], Prefix(u, m + 1))
    BY <2>5, <2>9, PrefixGrows
  <2>11. \A k \in 1 .. m : Prefix(u, m)[k] \in ItemType \cup {Other}
    <3>1. \A k \in 1 .. m : k \in 1 .. l + Len(q)
      BY <1>1, <2>5
    <3>. QED
      BY <1>1, <3>1 DEF Prefix
  <2>12. Comes(Prefix(u, m), m, q[n], Prefix(u, m + 1))
    BY <2>9, <2>10, <2>11 DEF Comes
  <2>13. Assembled(MergeChoice(g[j], q[n]), Prefix(u, m + 1))
    BY <2>7, <2>12, AssemblyGrows
  <2>. QED
    BY <2>3, <2>5, <2>8, <2>13
<1>5. Good(Len(q))
  BY <1>1, <1>4
<1>. QED
  BY <1>1, <1>2, <1>5 DEF u

-----------------------------------------------------------------------------
(* The stream so far                                                       *)

\* The elements of the choices arrays of some chunks, and their keys beside
\* the choices.
ItemsOf(cs) == FlattenSeq([n \in DOMAIN cs |-> cs[n].choices])

RootsOf(cs) == [n \in DOMAIN cs |-> cs[n].root]

(***************************************************************************)
(* The elements of the choices arrays are items.                           *)
(***************************************************************************)
LEMMA ItemsType ==
    ASSUME NEW cs, cs \in Seq(Chunks)
    PROVE  ItemsOf(cs) \in Seq(ItemType \cup {Other})
<1>. DEFINE S == ItemType \cup {Other}
            ss == [n \in DOMAIN cs |-> cs[n].choices]
<1>1. Len(cs) \in Nat /\ DOMAIN cs = 1 .. Len(cs) /\ \A n \in 1 .. Len(cs) : cs[n] \in Chunks
  OBVIOUS
<1>2. \A one \in Chunks : one.choices \in Seq(S)
  BY CompletionAssumption DEF ChunkType
<1>. HIDE DEF S
<1>3. ss = [n \in 1 .. Len(cs) |-> ss[n]] /\ \A n \in 1 .. Len(cs) : ss[n] \in Seq(S)
  BY <1>1, <1>2
<1>4. Len(cs) \in Nat
  BY <1>1
<1>5. ItemsOf(cs) = FlattenSeq(ss)
  BY DEF ItemsOf
<1>. HIDE DEF ss
<1>6. ss \in Seq(Seq(S))
  BY <1>3, <1>4
<1>7. FlattenSeq(ss) \in Seq(S)
  BY <1>6, FlattenType
<1>. QED
  BY <1>5, <1>7 DEF S

(***************************************************************************)
(* What one more chunk adds.                                               *)
(***************************************************************************)
LEMMA StreamGrows ==
    ASSUME NEW cs, NEW chunk, cs \in Seq(Chunks), chunk \in Chunks
    PROVE  LET more == Append(cs, chunk)
           IN  /\ ItemsOf(cs) \in Seq(ItemType \cup {Other})
               /\ chunk.choices \in Seq(ItemType \cup {Other})
               /\ ItemsOf(more) = ItemsOf(cs) \o chunk.choices
               /\ LastOf(RootsOf(more), {None}, None) = MergeLast(LastOf(RootsOf(cs), {None}, None), chunk.root)
               /\ more \in Seq(Chunks) /\ more # <<>> /\ Front(more) = cs
<1>. DEFINE more == Append(cs, chunk)
            S == ItemType \cup {Other}
            old == [n \in DOMAIN cs |-> cs[n].choices]
            new == [n \in DOMAIN more |-> more[n].choices]
            v == chunk.choices
            N == Len(cs)
<1>1. /\ N \in Nat /\ DOMAIN cs = 1 .. N /\ more \in Seq(Chunks)
      /\ Len(more) = N + 1 /\ DOMAIN more = 1 .. N + 1
      /\ \A n \in 1 .. N : more[n] = cs[n] /\ cs[n] \in Chunks
      /\ more[N + 1] = chunk
  OBVIOUS
<1>2. (\A n \in 1 .. N : n \in 1 .. N + 1) /\ N + 1 \in 1 .. N + 1
  BY <1>1
<1>3. \A one \in Chunks : one.choices \in Seq(S)
  BY CompletionAssumption DEF ChunkType
<1>4. SubSeq(more, 1, Len(cs)) = cs
  OBVIOUS
<1>5. more # <<>> /\ Front(more) = cs
  BY <1>1, <1>4 DEF Front
<1>. HIDE DEF more, N, S
<1>6. Grows(old, N, v, new)
  BY <1>1, <1>2 DEF Grows
<1>7. Grows(RootsOf(cs), N, chunk.root, RootsOf(more))
  BY <1>1, <1>2 DEF Grows, RootsOf
<1>8. v \in Seq(S) /\ old = [n \in 1 .. N |-> old[n]] /\ \A n \in 1 .. N : old[n] \in Seq(S)
  BY <1>1, <1>3
<1>9. ItemsOf(cs) = FlattenSeq(old) /\ ItemsOf(more) = FlattenSeq(new)
  BY DEF ItemsOf
<1>. HIDE DEF old, new, v
<1>10. old \in Seq(Seq(S))
  <2>1. N \in Nat
    BY <1>1
  <2>. QED
    BY <1>8, <2>1
<1>11. FlattenSeq(old) \in Seq(S) /\ FlattenSeq(new) = FlattenSeq(old) \o v
  <2>1. v \in Seq(S)
    BY <1>8
  <2>. QED
    BY <1>6, <1>10, <2>1, FlattenGrows
<1>12. LastOf(RootsOf(more), {None}, None) = MergeLast(LastOf(RootsOf(cs), {None}, None), chunk.root)
  <2>. DEFINE ignored == {None}
              first == None
              w == chunk.root
  <2>. HIDE DEF ignored, first, w
  <2>1. LastOf(RootsOf(more), ignored, first)
            = IF w \in ignored THEN LastOf(RootsOf(cs), ignored, first) ELSE w
    <3>1. Grows(RootsOf(cs), N, w, RootsOf(more))
      BY <1>7 DEF w
    <3>. QED
      BY <3>1, LastGrows
  <2>. QED
    BY <2>1 DEF ignored, first, w, MergeLast
<1>13. /\ ItemsOf(cs) \in Seq(S) /\ v \in Seq(S)
       /\ ItemsOf(more) = ItemsOf(cs) \o v
  BY <1>8, <1>9, <1>11
<1>. QED
  BY <1>1, <1>5, <1>12, <1>13 DEF S, v, more

-----------------------------------------------------------------------------
(* The answer                                                              *)

\* The inductive invariant: the answer so far is what the merged chunks say
\* by position.
CompletionInv ==
    /\ pc \in {"adding", "read", "done", "failed"} /\ err \in BOOLEAN
    /\ size \in Nat /\ chunks \in Seq(Chunks) /\ Merged \in Seq(Chunks)
    /\ pc = "adding" => ~ err
    /\ ~ err => size <= Limit
    /\ root = LastOf(RootsOf(Merged), {None}, None)
    /\ Assembled(choices, ItemsOf(Merged))
    /\ pc = "done" => ~ err /\ response = Listed /\ DOMAIN choices # {}
    /\ pc # "done" => response = <<>>

(***************************************************************************)
(* nativeCompletion starts with nothing.                                   *)
(***************************************************************************)
LEMMA InitCompletion == Init => CompletionInv
<1>. SUFFICES ASSUME Init PROVE CompletionInv
  OBVIOUS
<1>1. /\ pc = "adding" /\ err = FALSE /\ root = None /\ choices = <<>> /\ size = 0
      /\ response = <<>> /\ chunks = <<>>
  BY DEF Init
<1>2. Merged = <<>>
  <2>1. ~ (0 > Limit)
    BY CompletionAssumption
  <2>. QED
    BY <1>1, <2>1 DEF Merged
<1>. DEFINE none == <<>>
<1>3. DOMAIN none = {} /\ none \in Seq(Chunks)
  OBVIOUS
<1>4. RootsOf(none) = <<>> /\ ItemsOf(none) = <<>>
  <2>1. [n \in DOMAIN none |-> none[n].choices] = <<>> /\ [n \in DOMAIN none |-> none[n].root] = <<>>
    BY <1>3
  <2>. QED
    BY <2>1 DEF RootsOf, ItemsOf, FlattenSeq
<1>5. LastOf(<<>>, {None}, None) = None
  BY DEF LastOf
<1>6. Assembled(<<>>, <<>>)
  <2>1. Indices(<<>>) = {}
    BY DEF Indices
  <2>. QED
    BY <2>1 DEF Assembled
<1>7. 0 <= Limit
  BY CompletionAssumption
<1>. QED
  BY <1>1, <1>2, <1>3, <1>4, <1>5, <1>6, <1>7 DEF CompletionInv

(***************************************************************************)
(* Every step keeps the answer so far.                                     *)
(***************************************************************************)
LEMMA StepCompletion == CompletionInv /\ [Next]_vars => CompletionInv'
<1>. SUFFICES ASSUME CompletionInv, [Next]_vars PROVE CompletionInv'
  OBVIOUS
<1>1. /\ pc \in {"adding", "read", "done", "failed"} /\ err \in BOOLEAN
      /\ size \in Nat /\ chunks \in Seq(Chunks) /\ Merged \in Seq(Chunks)
      /\ pc = "adding" => ~ err
      /\ ~ err => size <= Limit
      /\ root = LastOf(RootsOf(Merged), {None}, None)
      /\ Assembled(choices, ItemsOf(Merged))
      /\ pc = "done" => ~ err /\ response = Listed /\ DOMAIN choices # {}
      /\ pc # "done" => response = <<>>
      /\ Limit \in Nat
  BY CompletionAssumption DEF CompletionInv
<1>2. CASE ReadChunk
  <2>1. PICK chunk \in Chunks :
            /\ chunks' = Append(chunks, chunk)
            /\ Add(chunk) \/ AddTooLarge(chunk)
    BY <1>2 DEF ReadChunk
  <2>2. pc = "adding"
    BY <1>2 DEF ReadChunk
  <2>3. chunk.size \in Nat
    BY CompletionAssumption DEF ChunkType
  <2>4. size <= Limit /\ ~ (size > Limit)
    BY <1>1, <2>2
  <2>5. Merged = chunks
    BY <2>4 DEF Merged
  <2>6. LET more == Append(chunks, chunk)
        IN  /\ ItemsOf(chunks) \in Seq(ItemType \cup {Other})
            /\ chunk.choices \in Seq(ItemType \cup {Other})
            /\ ItemsOf(more) = ItemsOf(chunks) \o chunk.choices
            /\ LastOf(RootsOf(more), {None}, None)
                    = MergeLast(LastOf(RootsOf(chunks), {None}, None), chunk.root)
            /\ more \in Seq(Chunks) /\ more # <<>> /\ Front(more) = chunks
    BY <1>1, <2>1, StreamGrows
  <2>7. CASE Add(chunk)
    <3>1. /\ size' = size + chunk.size /\ size' <= Limit
          /\ root' = MergeLast(root, chunk.root)
          /\ choices' = MergeChoices(choices, chunk.choices)
          /\ pc' = pc /\ err' = err /\ response' = response
      BY <2>7 DEF Add
    <3>2. size' \in Nat /\ ~ (size' > Limit)
      BY <1>1, <2>3, <3>1
    <3>3. Merged' = Append(chunks, chunk)
      BY <2>1, <3>2 DEF Merged
    <3>4. Assembled(choices', ItemsOf(Merged'))
      <4>. DEFINE s == ItemsOf(chunks)
                  q == chunk.choices
      <4>1. /\ s \in Seq(ItemType \cup {Other}) /\ q \in Seq(ItemType \cup {Other})
            /\ Assembled(choices, s) /\ choices' = MergeChoices(choices, q)
            /\ ItemsOf(Merged') = s \o q
        BY <1>1, <2>5, <2>6, <3>1, <3>3
      <4>. HIDE DEF s, q
      <4>2. Assembled(MergeChoices(choices, q), s \o q)
        BY <4>1, AssemblyMerged
      <4>. QED
        BY <4>1, <4>2
    <3>5. root' = LastOf(RootsOf(Merged'), {None}, None)
      BY <1>1, <2>5, <2>6, <3>1, <3>3
    <3>. QED
      BY <1>1, <2>1, <2>2, <2>6, <3>1, <3>2, <3>3, <3>4, <3>5 DEF CompletionInv
  <2>8. CASE AddTooLarge(chunk)
    <3>1. /\ size' = size + chunk.size /\ size' > Limit /\ pc' = "read" /\ err' = TRUE
          /\ root' = root /\ choices' = choices /\ response' = response
      BY <2>8 DEF AddTooLarge
    <3>2. size' \in Nat
      BY <1>1, <2>3, <3>1
    <3>3. Merged' = chunks
      BY <2>1, <2>6, <3>1 DEF Merged
    <3>. QED
      BY <1>1, <2>1, <2>2, <2>5, <2>6, <3>1, <3>2, <3>3 DEF CompletionInv
  <2>. QED
    BY <2>1, <2>7, <2>8
<1>3. CASE ReadReturns
  <2>1. /\ pc = "adding" /\ pc' = "read" /\ err' \in BOOLEAN /\ root' = root /\ choices' = choices
        /\ size' = size /\ response' = response /\ chunks' = chunks
    BY <1>3 DEF ReadReturns
  <2>2. Merged' = Merged
    BY <2>1 DEF Merged
  <2>. QED
    BY <1>1, <2>1, <2>2 DEF CompletionInv
<1>4. CASE Result
  <2>1. /\ pc = "read" /\ err' = err /\ root' = root /\ choices' = choices
        /\ size' = size /\ chunks' = chunks
        /\ IF err \/ DOMAIN choices = {}
           THEN pc' = "failed" /\ response' = response
           ELSE pc' = "done" /\ response' = Listed
    BY <1>4 DEF Result
  <2>2. Merged' = Merged /\ Listed' = Listed
    BY <2>1 DEF Merged, Listed
  <2>. QED
    BY <1>1, <2>1, <2>2 DEF CompletionInv
<1>5. CASE UNCHANGED vars
  <2>1. /\ pc' = pc /\ err' = err /\ root' = root /\ choices' = choices
        /\ size' = size /\ response' = response /\ chunks' = chunks
    BY <1>5 DEF vars
  <2>2. Merged' = Merged /\ Listed' = Listed
    BY <2>1 DEF Merged, Listed
  <2>. QED
    BY <1>1, <2>1, <2>2 DEF CompletionInv
<1>. QED
  BY <1>2, <1>3, <1>4, <1>5 DEF Next

(***************************************************************************)
(* CompletionInv is an invariant.                                          *)
(***************************************************************************)
LEMMA CompletionInvariant == Spec => []CompletionInv
BY InitCompletion, StepCompletion, PTL DEF Spec

(***************************************************************************)
(* The texts and plain values of every choice are what the stream says,    *)
(* for every upstream and any number of chunks.                            *)
(***************************************************************************)
THEOREM TextsComplete == Spec => []TextsWhole
<1>1. CompletionInv => TextsWhole
  <2>. SUFFICES ASSUME CompletionInv PROVE TextsWhole
    OBVIOUS
  <2>1. /\ root = LastOf(RootsOf(Merged), {None}, None)
        /\ DOMAIN choices = Indices(Items)
        /\ \A i \in DOMAIN choices : Stands(choices[i], Items, i)
    BY DEF CompletionInv, Assembled, Items, ItemsOf
  <2>2. root = LastOf([n \in DOMAIN Merged |-> Merged[n].root], {None}, None)
    BY <2>1 DEF RootsOf
  <2>3. ASSUME NEW i \in DOMAIN choices
        PROVE  LET message == choices[i].message
               IN  /\ message.content = TextOf(Sent(Items, i, "content"), <<>>)
                   /\ message.reasoning = TextOf(Sent(Items, i, "reasoning"), None)
                   /\ message.role = LastOf(Sent(Items, i, "role"), {None, Null}, "assistant")
                   /\ message.call = FunctionOf(Objects(Sent(Items, i, "call")))
                   /\ choices[i].finish = LastOf(Finishes(Items, i), {None, Null}, Null)
    <3>. DEFINE tools == choices[i].message.tools
    <3>1. choices[i] = ChoiceOf(Items, i, tools)
      BY <2>1 DEF Stands
    <3>. HIDE DEF tools
    <3>. QED
      BY <3>1 DEF ChoiceOf
  <2>. QED
    BY <2>1, <2>2, <2>3 DEF TextsWhole
<1>. QED
  BY <1>1, CompletionInvariant, PTL

(***************************************************************************)
(* Every tool call of a choice is what its own fragments add up to.        *)
(***************************************************************************)
THEOREM ToolCallsComplete == Spec => []ToolCallsWhole
<1>1. CompletionInv => ToolCallsWhole
  <2>. SUFFICES ASSUME CompletionInv, NEW i \in DOMAIN choices
                PROVE  LET tools == choices[i].message.tools
                           parts == Fragments(Items, i)
                       IN  /\ \A t \in 0 .. MaxToolIndex : Told(parts, t) # {} => t < Len(tools)
                           /\ tools # << >> => Told(parts, Len(tools) - 1) # {}
                           /\ \A t \in DOMAIN tools : tools[t] = ToolOf(parts, t - 1)
    BY DEF ToolCallsWhole
  <2>. DEFINE tools == choices[i].message.tools
              parts == Fragments(Items, i)
  <2>1. DOMAIN choices = Indices(Items) /\ Stands(choices[i], Items, i)
    BY DEF CompletionInv, Assembled, Items, ItemsOf
  <2>2. PICK L : Calls(tools, L, parts)
    BY <2>1 DEF Stands
  <2>. HIDE DEF tools, parts
  <2>3. Len(tools) = L /\ DOMAIN tools = 1 .. L
    BY <2>2, CallsCounted
  <2>4. /\ L \in Nat
        /\ tools = [t \in 1 .. L |-> ToolOf(parts, t - 1)]
        /\ \A t \in 0 .. MaxToolIndex : Told(parts, t) # {} => t < L
        /\ L # 0 => Told(parts, L - 1) # {}
    BY <2>2 DEF Calls
  <2>5. tools # <<>> => L # 0
    BY <2>4
  <2>6. \A t \in DOMAIN tools : tools[t] = ToolOf(parts, t - 1)
    BY <2>3, <2>4
  <2>. QED
    BY <2>3, <2>4, <2>5, <2>6 DEF tools, parts
<1>. QED
  BY <1>1, CompletionInvariant, PTL

(***************************************************************************)
(* The choices are finitely many integers.                                 *)
(***************************************************************************)
LEMMA IndicesFinite ==
    ASSUME NEW items, items \in Seq(ItemType \cup {Other})
    PROVE  Indices(items) \in SUBSET Int /\ IsFiniteSet(Indices(items))
<1>. DEFINE P == {m \in DOMAIN items : items[m] # Other}
<1>1. \A n \in P : items[n] \in ItemType
  OBVIOUS
<1>2. \A n \in P : items[n].index \in Int
  BY <1>1 DEF ItemType
<1>3. Indices(items) = {items[n].index : n \in P}
  BY DEF Indices
<1>4. P \in SUBSET (1 .. Len(items)) /\ Len(items) \in Nat
  OBVIOUS
<1>5. IsFiniteSet(P)
  BY <1>4, FS_Interval, FS_Subset
<1>. DEFINE f == [n \in P |-> items[n].index]
<1>. HIDE DEF P
<1>6. Indices(items) = {f[n] : n \in P}
  BY <1>3
<1>7. f \in Surjection(P, Indices(items))
  BY <1>6 DEF Surjection
<1>8. IsFiniteSet(Indices(items))
  <2>. HIDE DEF f
  <2>. QED
    BY <1>5, <1>7, FS_Surjection
<1>. QED
  BY <1>2, <1>3, <1>8

(***************************************************************************)
(* The answer lists every choice once, in order, and there is none for a   *)
(* broken or oversized stream.                                             *)
(***************************************************************************)
THEOREM AnswerOrdered == Spec => []AnswerInOrder
<1>1. CompletionInv => AnswerInOrder
  <2>. SUFFICES ASSUME CompletionInv, pc = "done"
                PROVE  /\ ~ err /\ response # << >> /\ size <= Limit
                       /\ \A m, n \in DOMAIN response :
                               m < n => response[m].index < response[n].index
                       /\ {response[n].index : n \in DOMAIN response} = Indices(Items)
    BY DEF AnswerInOrder, CompletionInv
  <2>. DEFINE P == DOMAIN choices
              K == Cardinality(P)
  <2>1. /\ ~ err /\ size <= Limit /\ response = Listed /\ P # {} /\ P = Indices(Items)
        /\ Merged \in Seq(Chunks)
    BY DEF CompletionInv, Assembled, Items, ItemsOf
  <2>2. Items \in Seq(ItemType \cup {Other})
    BY <2>1, ItemsType DEF Items, ItemsOf
  <2>3. P \in SUBSET Int /\ IsFiniteSet(P)
    BY <2>1, <2>2, IndicesFinite
  <2>4. /\ DOMAIN response = 1 .. K
        /\ \A n \in 1 .. K : response[n].index = Nth(P, n)
    BY <2>1 DEF Listed
  <2>. HIDE DEF P
  <2>5. /\ K \in Nat /\ \A n \in 1 .. K : Nth(P, n) \in P
        /\ \A p \in P : Nth(P, Rank(P, p)) = p
    BY <2>3, NthRank
  <2>6. \A p \in P : Rank(P, p) \in 1 .. K
    BY <2>3, RankOrder
  <2>7. \A m, n \in 1 .. K : m < n => Nth(P, m) < Nth(P, n)
    BY <2>3, NthOrder
  <2>8. response # <<>>
    <3>1. K # 0
      BY <2>1, <2>3, FS_EmptySet
    <3>2. 1 \in DOMAIN response
      BY <2>4, <2>5, <3>1
    <3>. QED
      BY <3>2
  <2>. HIDE DEF K
  <2>9. {response[n].index : n \in DOMAIN response} = P
    <3>1. \A p \in P : \E n \in DOMAIN response : response[n].index = p
      BY <2>4, <2>5, <2>6
    <3>2. \A n \in DOMAIN response : response[n].index \in P
      BY <2>4, <2>5
    <3>. QED
      BY <3>1, <3>2
  <2>10. \A m, n \in DOMAIN response : m < n => response[m].index < response[n].index
    BY <2>4, <2>7
  <2>. QED
    BY <2>1, <2>8, <2>9, <2>10
<1>. QED
  BY <1>1, CompletionInvariant, PTL

=============================================================================

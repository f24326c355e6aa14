------------------------- MODULE StreamRelayProofs --------------------------
(***************************************************************************)
(* Proofs about StreamRelay, for any set of lines and any limit.           *)
(***************************************************************************)
EXTENDS StreamRelay, SelectionProofs

(***************************************************************************)
(* What flush may do to the variables it touches, whatever the payload:    *)
(* the relay reads on, has seen [DONE] or has failed, and at most one      *)
(* event is emitted.                                                       *)
(***************************************************************************)
FlushOutcome ==
    /\ frame' = 0
    /\ data' = << >>
    /\ \/ UNCHANGED <<pc, err, done>>
       \/ done' = TRUE /\ pc' = "closing" /\ UNCHANGED <<err, emitted>>
       \/ \E reason \in Failures : Fail(reason) /\ UNCHANGED done
    /\ \/ UNCHANGED emitted
       \/ /\ emitted' = Append(emitted, [data |-> data, size |-> frame + 1])
          /\ UNCHANGED done

(***************************************************************************)
(* flush does one of those things when a blank line ends the event.        *)
(***************************************************************************)
LEMMA FlushAtBlank ==
    ASSUME Flush(frame + 1, UNCHANGED <<pc, err>>)
    PROVE  FlushOutcome
BY DEF Flush, FlushOutcome, Failures

(***************************************************************************)
(* flush does one of those things when the body's end ends the event.      *)
(***************************************************************************)
LEMMA FlushAtEOF ==
    ASSUME Flush(frame + 1, Fail("truncated"))
    PROVE  FlushOutcome
BY DEF Flush, FlushOutcome, Failures

(***************************************************************************)
(* While the relay reads, nothing has failed and [DONE] was not seen; once *)
(* it stopped, exactly one of the two is the reason.                       *)
(***************************************************************************)
Outcome ==
    IF pc = "reading" THEN ~ done /\ err = "none"
    ELSE done <=> err = "none"

RelayInv == TypeOK /\ FrameBounded /\ Outcome

(***************************************************************************)
(* The invariant holds before the first line is read.                      *)
(***************************************************************************)
LEMMA InitRelay == Init => RelayInv
<1>. SUFFICES ASSUME Init PROVE RelayInv
  OBVIOUS
<1>. USE RelayAssumption DEF Init
<1>1. TypeOK
  BY EmptySeq DEF TypeOK
<1>2. FrameBounded
  BY DEF FrameBounded
<1>3. Outcome
  BY DEF Outcome
<1>. QED
  BY <1>1, <1>2, <1>3 DEF RelayInv

(***************************************************************************)
(* The fields of a line, from the assumption on Lines.                     *)
(***************************************************************************)
LEMMA LineFields ==
    ASSUME NEW line \in Lines
    PROVE  /\ line.len \in Nat
           /\ line.kind = "data" => line.piece \in Pieces
BY RelayAssumption DEF LineType

(***************************************************************************)
(* flush preserves the invariant.                                          *)
(***************************************************************************)
LEMMA FlushKeeps ==
    ASSUME RelayInv, FlushOutcome, pc = "reading",
           input' \in Seq(Lines), eof' \in BOOLEAN
    PROVE  RelayInv'
<1>1. /\ TypeOK /\ FrameBounded /\ ~ done /\ err = "none"
  BY DEF RelayInv, Outcome
<1>2. [data |-> data, size |-> frame + 1] \in EventType
  BY <1>1 DEF TypeOK, EventType
<1>3. emitted' \in Seq(EventType)
  <2>1. emitted \in Seq(EventType)
    BY <1>1 DEF TypeOK
  <2>2. Append(emitted, [data |-> data, size |-> frame + 1]) \in Seq(EventType)
    BY <1>2, <2>1, AppendProperties
  <2>. QED
    BY <2>1, <2>2 DEF FlushOutcome
<1>4. \/ UNCHANGED <<pc, err, done>>
      \/ done' = TRUE /\ pc' = "closing" /\ err' = err
      \/ \E reason \in Failures : err' = reason /\ pc' = "closing" /\ done' = done
  BY DEF FlushOutcome, Fail, Failures
<1>5. TypeOK'
  <2>1. data' \in Seq(Pieces) /\ frame' \in Nat
    BY EmptySeq DEF FlushOutcome
  <2>. QED
    BY <1>1, <1>3, <1>4, <2>1 DEF TypeOK, Failures
<1>6. Outcome'
  BY <1>1, <1>4 DEF Outcome, Failures
<1>7. \A n \in DOMAIN emitted' : emitted'[n].size <= Limit + 2
  <2>1. CASE UNCHANGED emitted
    BY <1>1, <2>1 DEF FrameBounded
  <2>2. CASE emitted' = Append(emitted, [data |-> data, size |-> frame + 1])
    BY <1>1, <2>2, RelayAssumption DEF FrameBounded, TypeOK
  <2>. QED
    BY <2>1, <2>2 DEF FlushOutcome
<1>8. FrameBounded'
  BY <1>7, RelayAssumption DEF FrameBounded, FlushOutcome
<1>. QED
  BY <1>5, <1>6, <1>8 DEF RelayInv

(***************************************************************************)
(* Every step of readNativeSSE and of the close preserves the invariant.   *)
(***************************************************************************)
LEMMA NextRelay ==
    ASSUME RelayInv, [Next]_vars
    PROVE  RelayInv'
<1>. USE DEF RelayInv
<1>1. ASSUME NEW line \in Lines, pc = "reading", eof' = eof,
             input' = Append(input, line),
             \/ ReadField(line) /\ line.len < Limit
             \/ ReadTooLarge(line)
             \/ ReadBlank(line)
      PROVE  RelayInv'
  <2>0. input' \in Seq(Lines) /\ eof' \in BOOLEAN
    BY <1>1 DEF TypeOK
  <2>1. CASE ReadField(line)
    BY <1>1, <2>0, <2>1, LineFields, RelayAssumption
       DEF ReadField, TypeOK, FrameBounded, Outcome
  <2>2. CASE ReadTooLarge(line)
    BY <1>1, <2>0, <2>2 DEF ReadTooLarge, Fail, TypeOK, FrameBounded, Outcome, Failures
  <2>3. CASE ReadBlank(line)
    <3>1. FlushOutcome
      BY <2>3, FlushAtBlank DEF ReadBlank
    <3>. QED
      BY <1>1, <2>0, <3>1, FlushKeeps
  <2>. QED
    BY <1>1, <2>1, <2>2, <2>3
<1>2. CASE ReadLine
  BY <1>1, <1>2 DEF ReadLine
<1>3. CASE ReadEOF
  <2>0. pc = "reading" /\ input' \in Seq(Lines) /\ eof' \in BOOLEAN
    BY <1>3 DEF ReadEOF, TypeOK
  <2>1. CASE Flush(frame + 1, Fail("truncated"))
    BY <2>0, <2>1, FlushAtEOF, FlushKeeps
  <2>2. CASE Fail("truncated") /\ UNCHANGED <<frame, data, done, emitted>>
    BY <2>0, <2>2 DEF Fail, TypeOK, FrameBounded, Outcome, Failures
  <2>. QED
    BY <1>3, <2>1, <2>2 DEF ReadEOF
<1>4. CASE ReadError
  BY <1>4 DEF ReadError, Fail, TypeOK, FrameBounded, Outcome, Failures
<1>5. CASE StreamClose
  BY <1>5 DEF StreamClose, TypeOK, FrameBounded, Outcome
<1>6. CASE UNCHANGED vars
  BY <1>6 DEF vars, TypeOK, FrameBounded, Outcome
<1>. QED
  BY <1>2, <1>3, <1>4, <1>5, <1>6 DEF Next

(***************************************************************************)
(* The inductive invariant of the relay.                                   *)
(***************************************************************************)
LEMMA RelayInvariant == Spec => []RelayInv
BY InitRelay, NextRelay, PTL DEF Spec

(***************************************************************************)
(* readNativeSSE keeps the types of its buffers for every upstream.        *)
(***************************************************************************)
THEOREM RelayTypeCorrect == Spec => []TypeOK
BY RelayInvariant, PTL DEF RelayInv

(***************************************************************************)
(* The buffers of readNativeSSE, and every event it emits, stay within the *)
(* 8 MiB limit plus its newlines, for every limit and every upstream.      *)
(***************************************************************************)
THEOREM RelayBounded == Spec => []FrameBounded
BY RelayInvariant, PTL DEF RelayInv

-----------------------------------------------------------------------------
(* What is buffered and emitted, by position in the input.                 *)

(***************************************************************************)
(* While the relay reads, its data buffer is the block since the last      *)
(* blank line, every block before it was dropped or emitted, and the       *)
(* emitted events are those of the input.  Once it stopped, only the last  *)
(* block can be missing, and [DONE] was seen if it is that and not too     *)
(* large.                                                                  *)
(***************************************************************************)
PositionInv ==
    IF pc = "reading"
    THEN /\ ~ eof
         /\ data = Block(Len(input) + 1)
         /\ frame = 0 => data = << >>
         /\ \A e \in Ends : Class(Block(e)) \in {"nothing", "event"}
         /\ Relayed = UpstreamEvents
    ELSE RelaysEveryEvent /\ (done <=> LastIsDone /\ err # "toolarge")

(***************************************************************************)
(* The positions are finite sets of numbers.                               *)
(***************************************************************************)
LEMMA Positions ==
    ASSUME TypeOK
    PROVE  /\ Len(input) \in Nat /\ DOMAIN input = 1 .. Len(input)
           /\ \A n \in DOMAIN input : input[n] \in Lines
           /\ \A e : BlockAt(e) \in SUBSET Int /\ IsFiniteSet(BlockAt(e))
           /\ BlankAt \in SUBSET (1 .. Len(input))
           /\ Ends \in SUBSET Nat /\ IsFiniteSet(Ends)
           /\ EventAt \in SUBSET Int /\ IsFiniteSet(EventAt)
<1>1. Len(input) \in Nat /\ DOMAIN input = 1 .. Len(input)
      /\ \A n \in DOMAIN input : input[n] \in Lines
  BY DEF TypeOK
<1>2. IsFiniteSet(1 .. Len(input)) /\ IsFiniteSet(1 .. Len(input) + 1)
  BY <1>1, FS_Interval
<1>3. BlankAt \in SUBSET (1 .. Len(input))
  BY <1>1 DEF BlankAt
<1>4. Ends \in SUBSET (1 .. Len(input) + 1)
  <2>1. \A b \in BlankAt : b \in 1 .. Len(input) + 1
    BY <1>1, <1>3
  <2>2. Len(input) + 1 \in 1 .. Len(input) + 1
    BY <1>1
  <2>. QED
    BY <2>1, <2>2 DEF Ends
<1>5. EventAt \in SUBSET (1 .. Len(input) + 1)
  BY <1>4 DEF EventAt
<1>6. \A e : BlockAt(e) \in SUBSET (1 .. Len(input))
  BY <1>1 DEF BlockAt, DataAt
<1>7. IsFiniteSet(Ends) /\ IsFiniteSet(EventAt)
  BY <1>2, <1>4, <1>5, FS_Subset
<1>8. \A e : IsFiniteSet(BlockAt(e))
  BY <1>2, <1>6, FS_Subset
<1>9. 1 .. Len(input) \in SUBSET Int /\ 1 .. Len(input) + 1 \in SUBSET Nat
  BY <1>1
<1>. QED
  BY <1>1, <1>3, <1>4, <1>5, <1>6, <1>7, <1>8, <1>9

(***************************************************************************)
(* A new line leaves the blocks that ended before it as they were.         *)
(***************************************************************************)
LEMMA BlocksStay ==
    ASSUME TypeOK, NEW line \in Lines, input' = Append(input, line),
           NEW e \in 1 .. Len(input) + 1
    PROVE  Block(e)' = Block(e)
<1>1. Len(input) \in Nat /\ DOMAIN input = 1 .. Len(input)
      /\ \A n \in DOMAIN input : input[n] \in Lines
  BY Positions
<1>2. /\ DOMAIN input' = 1 .. Len(input) + 1
      /\ \A n \in 1 .. Len(input) : input'[n] = input[n]
  BY <1>1 DEF TypeOK
<1>3. BlockAt(e)' = BlockAt(e)
  <2>1. ASSUME NEW n \in BlockAt(e)'
        PROVE  n \in BlockAt(e)
    <3>1. n \in 1 .. Len(input) /\ n < e /\ input[n].kind = "data"
      BY <1>1, <1>2, <2>1 DEF BlockAt, DataAt
    <3>2. \A b \in BlankAt : b \in BlankAt'
      BY <1>1, <1>2 DEF BlankAt
    <3>. QED
      BY <1>1, <2>1, <3>1, <3>2 DEF BlockAt, DataAt
  <2>2. ASSUME NEW n \in BlockAt(e)
        PROVE  n \in BlockAt(e)'
    <3>1. n \in 1 .. Len(input) /\ n < e /\ n \in DataAt'
      BY <1>1, <1>2, <2>2 DEF BlockAt, DataAt
    <3>2. \A b \in BlankAt' : b \in BlankAt \/ e <= b
      BY <1>1, <1>2 DEF BlankAt
    <3>. QED
      BY <2>2, <3>1, <3>2 DEF BlockAt
  <2>. QED
    BY <2>1, <2>2
<1>. DEFINE f == [k \in DataAt |-> input[k].piece]
            g == [k \in DataAt |-> input[k].piece]'
<1>4. \A n \in BlockAt(e) : f[n] = g[n]
  BY <1>1, <1>2, <1>3 DEF BlockAt, DataAt
<1>5. BlockAt(e) \in SUBSET Int /\ IsFiniteSet(BlockAt(e))
  BY Positions
<1>6. Block(e) = Select(f, BlockAt(e)) /\ Block(e)' = Select(g, BlockAt(e))
  BY <1>3 DEF Block
<1>. HIDE DEF f, g
<1>. QED
  BY <1>4, <1>5, <1>6, SelectSame

(***************************************************************************)
(* The block under way after a line: a data line joins it, another field   *)
(* leaves it, a blank one starts anew.                                     *)
(***************************************************************************)
LEMMA BlockGrows ==
    ASSUME TypeOK, NEW line \in Lines, input' = Append(input, line)
    PROVE  Block(Len(input) + 1)' =
                IF line.kind = "blank" THEN << >>
                ELSE IF line.kind = "data" THEN Append(Block(Len(input) + 1), line.piece)
                ELSE Block(Len(input) + 1)
<1>. DEFINE m == Len(input) + 1
            old == BlockAt(m)
            new == BlockAt(Len(input) + 1)'
            f == [k \in DataAt |-> input[k].piece]
            g == [k \in DataAt |-> input[k].piece]'
<1>0. Len(input) \in Nat /\ DOMAIN input = 1 .. Len(input)
  BY Positions
<1>1. /\ DOMAIN input' = 1 .. m /\ Len(input') = m
      /\ \A n \in 1 .. Len(input) : input'[n] = input[n]
      /\ input'[m] = line
  BY <1>0 DEF TypeOK
<1>2. \A n : n \in new <=> /\ n \in 1 .. m /\ input'[n].kind = "data"
                           /\ \A b \in BlankAt' : b < n \/ m + 1 <= b
  <2>1. \A n : n \in new <=>
            /\ n \in 1 .. m /\ input'[n].kind = "data" /\ n < m + 1
            /\ \A b \in BlankAt' : b < n \/ m + 1 <= b
    BY <1>1 DEF BlockAt, DataAt
  <2>2. \A n \in 1 .. m : n < m + 1
    BY <1>0
  <2>. QED
    BY <2>1, <2>2
<1>3. \A n : n \in old <=> /\ n \in 1 .. Len(input) /\ input[n].kind = "data"
                           /\ \A b \in BlankAt : b < n \/ m <= b
  BY <1>0 DEF BlockAt, DataAt
<1>4. old \in SUBSET Int /\ IsFiniteSet(old) /\ \A n \in old : n < m
  BY <1>0, <1>3, Positions
<1>5. \A b : b \in BlankAt' <=> b \in BlankAt \/ (b = m /\ line.kind = "blank")
  BY <1>0, <1>1 DEF BlankAt
<1>6. \A b \in BlankAt : b \in 1 .. Len(input)
  BY <1>0 DEF BlankAt
<1>7. \A n \in old : f[n] = g[n]
  BY <1>0, <1>1, <1>3 DEF DataAt
<1>8. Block(m) = Select(f, old) /\ Block(Len(input) + 1)' = Select(g, new)
  BY DEF Block
<1>9. CASE line.kind = "blank"
  <2>1. new = {}
    BY <1>0, <1>1, <1>2, <1>5, <1>9
  <2>. QED
    BY <1>8, <1>9, <2>1, SelectNone
<1>10. CASE line.kind = "data"
  <2>1. \A n : n \in new <=> n \in old \cup {m}
    BY <1>0, <1>1, <1>2, <1>3, <1>5, <1>6, <1>10
  <2>2. new = old \cup {m}
    BY <2>1
  <2>3. Select(g, new) = Append(Select(g, old), g[m])
    <3>1. m \in Int
      BY <1>0
    <3>. HIDE DEF old, new, f, g, m
    <3>. QED
      BY <1>4, <2>2, <3>1, SelectAppend
  <2>4. Select(g, old) = Select(f, old)
    <3>. HIDE DEF old, new, f, g, m
    <3>. QED
      BY <1>4, <1>7, SelectSame
  <2>5. g[m] = line.piece
    BY <1>0, <1>1, <1>10 DEF DataAt
  <2>. QED
    BY <1>8, <1>10, <2>3, <2>4, <2>5
<1>11. CASE line.kind \notin {"blank", "data"}
  <2>1. \A n : n \in new <=> n \in old
    BY <1>0, <1>1, <1>2, <1>3, <1>5, <1>6, <1>11
  <2>2. new = old
    BY <2>1
  <2>3. Select(g, old) = Select(f, old)
    <3>. HIDE DEF old, new, f, g, m
    <3>. QED
      BY <1>4, <1>7, SelectSame
  <2>. QED
    BY <1>8, <1>11, <2>2, <2>3
<1>. QED
  BY <1>9, <1>10, <1>11

(***************************************************************************)
(* A block that ends behind the others is the last one, and joins the      *)
(* events exactly when it is one.                                          *)
(***************************************************************************)
LEMMA EventsGrow ==
    ASSUME TypeOK, NEW m \in Nat, Ends' = Ends \cup {m}, \A e \in Ends : e < m,
           \A e \in Ends : Block(e)' = Block(e), Block(m)' = data
    PROVE  /\ UpstreamEvents' = IF Class(data) = "event"
                                THEN Append(UpstreamEvents, data) ELSE UpstreamEvents
           /\ LastIsDone' <=> Class(data) = "done"
<1>. DEFINE f == [e \in Ends |-> Block(e)]
            g == [e \in Ends |-> Block(e)]'
<1>1. EventAt \in SUBSET Int /\ IsFiniteSet(EventAt) /\ Ends \in SUBSET Nat
  BY Positions
<1>2. UpstreamEvents = Select(f, EventAt) /\ UpstreamEvents' = Select(g, EventAt')
  BY DEF UpstreamEvents
<1>3. \A e \in EventAt : f[e] = g[e] /\ e < m
  BY DEF EventAt
<1>4. g[m] = data /\ m \in Int
  OBVIOUS
<1>5. EventAt' = IF Class(data) = "event" THEN EventAt \cup {m} ELSE EventAt
  BY DEF EventAt
<1>6. UpstreamEvents' = IF Class(data) = "event"
                        THEN Append(UpstreamEvents, data) ELSE UpstreamEvents
  <2>. HIDE DEF f, g
  <2>1. Select(g, EventAt) = Select(f, EventAt)
    BY <1>1, <1>3, SelectSame
  <2>2. Select(g, EventAt \cup {m}) = Append(Select(g, EventAt), g[m])
    BY <1>1, <1>3, <1>4, SelectAppend
  <2>. QED
    BY <1>2, <1>4, <1>5, <2>1, <2>2
<1>7. LastIsDone' <=> Class(data) = "done"
  <2>1. \A e \in Ends' : (\A n \in Ends' : n <= e) <=> e = m
    BY <1>1
  <2>2. m \in Ends' /\ Class(Block(m))' = Class(data)
    OBVIOUS
  <2>3. LastIsDone' <=> \E e \in Ends' : Class(Block(e))' = "done" /\ \A n \in Ends' : n <= e
    BY DEF LastIsDone
  <2>. QED
    BY <2>1, <2>2, <2>3
<1>. QED
  BY <1>6, <1>7

(***************************************************************************)
(* The data of the emitted events, as the host receives one more.          *)
(***************************************************************************)
LEMMA RelayedGrows ==
    ASSUME TypeOK
    PROVE  /\ Relayed \in Seq(Seq(Pieces))
           /\ emitted' = emitted => Relayed' = Relayed
           /\ \A size \in Nat : emitted' = Append(emitted, [data |-> data, size |-> size])
                                    => Relayed' = Append(Relayed, data)
<1>0. /\ Len(emitted) \in Nat /\ DOMAIN emitted = 1 .. Len(emitted)
      /\ \A n \in 1 .. Len(emitted) : emitted[n] \in EventType
  BY DEF TypeOK
<1>1. /\ Len(emitted) \in Nat /\ DOMAIN emitted = 1 .. Len(emitted)
      /\ \A n \in 1 .. Len(emitted) : emitted[n].data \in Seq(Pieces)
  BY <1>0 DEF EventType
<1>2. Relayed = [n \in 1 .. Len(emitted) |-> emitted[n].data]
  BY <1>1 DEF Relayed
<1>3. Relayed \in Seq(Seq(Pieces)) /\ Len(Relayed) = Len(emitted)
  BY <1>1, <1>2
<1>4. emitted' = emitted => Relayed' = Relayed
  BY DEF Relayed
<1>5. ASSUME NEW size \in Nat, emitted' = Append(emitted, [data |-> data, size |-> size])
      PROVE  Relayed' = Append(Relayed, data)
  <2>1. /\ DOMAIN emitted' = 1 .. Len(emitted) + 1
        /\ \A n \in 1 .. Len(emitted) : emitted'[n] = emitted[n]
        /\ emitted'[Len(emitted) + 1] = [data |-> data, size |-> size]
    BY <1>1, <1>5 DEF TypeOK
  <2>2. Relayed' = [n \in 1 .. Len(emitted) + 1 |-> emitted'[n].data]
    BY <2>1 DEF Relayed
  <2>3. Append(Relayed, data) = [n \in 1 .. Len(emitted) + 1 |->
                                    IF n = Len(emitted) + 1 THEN data ELSE Relayed[n]]
    BY <1>1, <1>2, <1>3
  <2>4. \A n \in 1 .. Len(emitted) + 1 :
            emitted'[n].data = IF n = Len(emitted) + 1 THEN data ELSE Relayed[n]
    BY <1>1, <1>2, <2>1
  <2>. QED
    BY <2>2, <2>3, <2>4
<1>. QED
  BY <1>3, <1>4, <1>5

(***************************************************************************)
(* What stands before the last event.                                      *)
(***************************************************************************)
LEMMA FrontOfAppend ==
    ASSUME NEW S, NEW s \in Seq(S), NEW x \in S
    PROVE  Append(s, x) # << >> /\ Front(Append(s, x)) = s
<1>1. Append(s, x) \in Seq(S) /\ Len(Append(s, x)) = Len(s) + 1
  OBVIOUS
<1>2. SubSeq(Append(s, x), 1, Len(s)) = s
  OBVIOUS
<1>. QED
  BY <1>1, <1>2 DEF Front

(***************************************************************************)
(* Where the relay stops at a block, whatever the reason, the events are   *)
(* those emitted, or one was refused or too large.                         *)
(***************************************************************************)
LEMMA StopsAtBlock ==
    ASSUME RelayInv, PositionInv, pc = "reading", pc' = "closing",
           UpstreamEvents' = IF Class(data) = "event"
                             THEN Append(UpstreamEvents, data) ELSE UpstreamEvents,
           LastIsDone' <=> Class(data) = "done",
           \/ /\ Class(data) = "event"
              /\ emitted' = Append(emitted, [data |-> data, size |-> frame + 1])
              /\ done' = done
           \/ /\ Class(data) = "event" => err' \in {"refused", "toolarge"}
              /\ emitted' = emitted
              /\ done' <=> Class(data) = "done" /\ err' # "toolarge"
    PROVE  PositionInv'
<1>1. TypeOK /\ ~ done /\ Relayed = UpstreamEvents /\ frame + 1 \in Nat
  BY DEF RelayInv, Outcome, PositionInv, TypeOK
<1>2. data \in Seq(Pieces) /\ Relayed \in Seq(Seq(Pieces))
  BY <1>1, RelayedGrows DEF TypeOK
<1>3. done' <=> LastIsDone' /\ err' # "toolarge"
  BY <1>1
<1>4. CASE emitted' = Append(emitted, [data |-> data, size |-> frame + 1])
           /\ Class(data) = "event"
  BY <1>1, <1>3, <1>4, RelayedGrows DEF PositionInv, RelaysEveryEvent
<1>5. CASE emitted' = emitted /\ Class(data) # "event"
  BY <1>1, <1>3, <1>5, RelayedGrows DEF PositionInv, RelaysEveryEvent
<1>6. CASE emitted' = emitted /\ Class(data) = "event" /\ err' \in {"refused", "toolarge"}
  <2>1. UpstreamEvents' = Append(Relayed, data) /\ Relayed' = Relayed
    BY <1>1, <1>6, RelayedGrows
  <2>2. UpstreamEvents' # << >> /\ Relayed' = Front(UpstreamEvents')
    BY <1>2, <2>1, FrontOfAppend
  <2>. QED
    BY <1>3, <1>6, <2>2 DEF PositionInv, RelaysEveryEvent
<1>. QED
  BY <1>4, <1>5, <1>6

(***************************************************************************)
(* A blank line ends the block under way.                                  *)
(***************************************************************************)
LEMMA BlankEndsBlock ==
    ASSUME TypeOK, pc = "reading", PositionInv, eof' = eof,
           NEW line \in Lines, input' = Append(input, line), line.kind = "blank"
    PROVE  /\ UpstreamEvents' = IF Class(data) = "event"
                                THEN Append(UpstreamEvents, data) ELSE UpstreamEvents
           /\ LastIsDone' <=> Class(data) = "done"
           /\ Class(data) \in {"nothing", "event"}
                => \A e \in Ends' : Class(Block(e))' \in {"nothing", "event"}
<1>. PICK m \in Nat : m = Len(input) + 1
  BY Positions
<1>1. Len(input) \in Nat /\ DOMAIN input = 1 .. Len(input)
      /\ BlankAt \in SUBSET (1 .. Len(input))
  BY Positions
<1>2. /\ DOMAIN input' = 1 .. m
      /\ \A n \in 1 .. Len(input) : input'[n] = input[n]
      /\ input'[m] = line
  BY <1>1 DEF TypeOK
<1>3. ~ eof /\ data = Block(Len(input) + 1)
  BY DEF PositionInv
<1>4. Ends = BlankAt /\ Ends' = BlankAt'
  BY <1>3 DEF Ends
<1>5. BlankAt' = BlankAt \cup {m}
  <2>1. \A n : n \in BlankAt' <=> n \in BlankAt \/ n = m
    BY <1>1, <1>2 DEF BlankAt
  <2>. QED
    BY <2>1
<1>6. \A e \in Ends : e < m
  BY <1>1, <1>4
<1>7. \A e \in 1 .. m : Block(e)' = Block(e)
  BY BlocksStay
<1>8. \A e \in Ends : e \in 1 .. m
  BY <1>1, <1>4
<1>9. Block(m)' = data
  BY <1>1, <1>3, <1>7
<1>10. \A e \in Ends : Class(Block(e)) \in {"nothing", "event"}
  BY DEF PositionInv
<1>11. /\ UpstreamEvents' = IF Class(data) = "event"
                            THEN Append(UpstreamEvents, data) ELSE UpstreamEvents
       /\ LastIsDone' <=> Class(data) = "done"
  BY <1>4, <1>5, <1>6, <1>7, <1>8, <1>9, EventsGrow
<1>12. \A e \in Ends' : Class(Block(e))' \in {"nothing", "event"} \/ Class(Block(e))' = Class(data)
  BY <1>4, <1>5, <1>7, <1>8, <1>9, <1>10
<1>. QED
  BY <1>11, <1>12

(***************************************************************************)
(* The body's end does, too.                                               *)
(***************************************************************************)
LEMMA EOFEndsBlock ==
    ASSUME TypeOK, pc = "reading", PositionInv, eof' = TRUE, input' = input
    PROVE  /\ UpstreamEvents' = IF Class(data) = "event"
                                THEN Append(UpstreamEvents, data) ELSE UpstreamEvents
           /\ LastIsDone' <=> Class(data) = "done"
<1>. PICK m \in Nat : m = Len(input) + 1
  BY Positions
<1>1. Len(input) \in Nat /\ BlankAt \in SUBSET (1 .. Len(input))
  BY Positions
<1>2. ~ eof /\ data = Block(m)
  BY DEF PositionInv
<1>3. \A e : Block(e)' = Block(e)
  BY DEF Block, BlockAt, DataAt, BlankAt
<1>4. Ends = BlankAt /\ Ends' = BlankAt \cup {m}
  BY <1>2 DEF Ends, BlankAt
<1>5. \A e \in Ends : e < m
  BY <1>1, <1>4
<1>. QED
  BY <1>2, <1>3, <1>4, <1>5, EventsGrow

(***************************************************************************)
(* The buffers stand for the input before the first line is read.          *)
(***************************************************************************)
LEMMA InitPosition == Init => PositionInv
<1>. SUFFICES ASSUME Init PROVE PositionInv
  OBVIOUS
<1>. USE DEF Init
<1>1. BlankAt = {} /\ DataAt = {} /\ Ends = {}
  BY DEF BlankAt, DataAt, Ends
<1>2. EventAt = {} /\ \A e : BlockAt(e) = {}
  BY <1>1 DEF EventAt, BlockAt
<1>3. UpstreamEvents = << >> /\ \A e : Block(e) = << >>
  BY <1>2, SelectNone DEF UpstreamEvents, Block
<1>4. Relayed = << >>
  BY DEF Relayed
<1>. QED
  BY <1>1, <1>3, <1>4 DEF PositionInv

(***************************************************************************)
(* An event without a data line is no event.                               *)
(***************************************************************************)
LEMMA NoDataNothing == Class(<< >>) = "nothing"
BY DEF Class

(***************************************************************************)
(* A line that is not blank ends no block.                                 *)
(***************************************************************************)
LEMMA FieldEndsNoBlock ==
    ASSUME TypeOK, ~ eof, eof' = eof, NEW line \in Lines,
           input' = Append(input, line), line.kind # "blank"
    PROVE  /\ Ends' = Ends
           /\ \A e \in Ends : Block(e)' = Block(e)
           /\ UpstreamEvents' = UpstreamEvents
<1>2. Len(input) \in Nat /\ DOMAIN input = 1 .. Len(input)
      /\ BlankAt \in SUBSET (1 .. Len(input))
  BY Positions
<1>3. /\ DOMAIN input' = 1 .. Len(input) + 1
      /\ \A n \in 1 .. Len(input) : input'[n] = input[n]
      /\ input'[Len(input) + 1] = line
  BY <1>2 DEF TypeOK
<1>4. BlankAt' = BlankAt
  <2>1. \A n : n \in BlankAt' <=> n \in BlankAt
    BY <1>2, <1>3 DEF BlankAt
  <2>. QED
    BY <2>1
<1>5. Ends = BlankAt /\ Ends' = Ends
  BY <1>4 DEF Ends
<1>6. \A e \in 1 .. Len(input) + 1 : Block(e)' = Block(e)
  BY BlocksStay
<1>7. \A e \in Ends : Block(e)' = Block(e)
  BY <1>2, <1>5, <1>6
<1>8. EventAt' = EventAt
  BY <1>5, <1>7 DEF EventAt
<1>9. [e \in Ends |-> Block(e)]' = [e \in Ends |-> Block(e)]
  BY <1>5, <1>7
<1>. QED
  BY <1>5, <1>7, <1>8, <1>9 DEF UpstreamEvents

(***************************************************************************)
(* A field keeps the block under way in the buffer.                        *)
(***************************************************************************)
LEMMA FieldKeepsPosition ==
    ASSUME RelayInv, PositionInv, pc = "reading", eof' = eof, NEW line \in Lines,
           input' = Append(input, line), ReadField(line)
    PROVE  PositionInv'
<1>1. TypeOK /\ ~ eof /\ data = Block(Len(input) + 1) /\ Relayed = UpstreamEvents
  BY DEF RelayInv, PositionInv
<1>2. /\ Ends' = Ends
      /\ \A e \in Ends : Block(e)' = Block(e)
      /\ UpstreamEvents' = UpstreamEvents
  BY <1>1, FieldEndsNoBlock DEF ReadField
<1>3. data' = Block(Len(input) + 1)'
  BY <1>1, BlockGrows DEF ReadField
<1>4. frame' # 0
  BY <1>1, LineFields DEF ReadField, TypeOK
<1>5. Relayed' = Relayed
  BY DEF Relayed, ReadField
<1>6. \A e \in Ends : Class(Block(e)) \in {"nothing", "event"}
  BY DEF PositionInv
<1>. QED
  BY <1>1, <1>2, <1>3, <1>4, <1>5, <1>6 DEF PositionInv, ReadField

(***************************************************************************)
(* A blank line: the event is dropped, emitted or refused, [DONE] or an    *)
(* error ends the stream.                                                  *)
(***************************************************************************)
LEMMA BlankKeepsPosition ==
    ASSUME RelayInv, PositionInv, pc = "reading", eof' = eof, NEW line \in Lines,
           input' = Append(input, line), ReadBlank(line)
    PROVE  PositionInv'
<1>1. /\ TypeOK /\ ~ eof /\ ~ done /\ err = "none"
      /\ Relayed = UpstreamEvents /\ frame + 1 \in Nat
  BY DEF RelayInv, PositionInv, Outcome, TypeOK
<1>2. /\ UpstreamEvents' = IF Class(data) = "event"
                           THEN Append(UpstreamEvents, data) ELSE UpstreamEvents
      /\ LastIsDone' <=> Class(data) = "done"
      /\ Class(data) \in {"nothing", "event"}
            => \A e \in Ends' : Class(Block(e))' \in {"nothing", "event"}
  BY <1>1, BlankEndsBlock DEF ReadBlank
<1>3. Block(Len(input) + 1)' = << >>
  BY <1>1, BlockGrows DEF ReadBlank
<1>4. frame' = 0 /\ data' = << >>
  BY DEF ReadBlank, Flush
<1>5. CASE Class(data) = "nothing" /\ UNCHANGED <<pc, err, done, emitted>>
  BY <1>1, <1>2, <1>3, <1>4, <1>5, RelayedGrows DEF PositionInv
<1>6. CASE /\ Class(data) = "event" /\ UNCHANGED <<pc, err, done>>
           /\ emitted' = Append(emitted, [data |-> data, size |-> frame + 1])
  <2>1. Relayed' = Append(Relayed, data)
    BY <1>1, <1>6, RelayedGrows
  <2>. QED
    BY <1>1, <1>2, <1>3, <1>4, <1>6, <2>1 DEF PositionInv
<1>7. CASE /\ Class(data) = "done" /\ done' = TRUE /\ pc' = "closing"
           /\ UNCHANGED <<err, emitted>>
  BY <1>1, <1>2, <1>7, StopsAtBlock
<1>8. CASE Class(data) = "event" /\ Fail("refused") /\ UNCHANGED <<done, emitted>>
  BY <1>1, <1>2, <1>8, StopsAtBlock DEF Fail
<1>9. CASE /\ Class(data) \in {"upstream", "invalid"}
           /\ Fail(Class(data)) /\ UNCHANGED <<done, emitted>>
  BY <1>1, <1>2, <1>9, StopsAtBlock DEF Fail
<1>. QED
  BY <1>5, <1>6, <1>7, <1>8, <1>9 DEF ReadBlank, Flush

(***************************************************************************)
(* A line over the limit: only an event that it ends is missing.           *)
(***************************************************************************)
LEMMA TooLargeKeepsPosition ==
    ASSUME RelayInv, PositionInv, pc = "reading", eof' = eof, NEW line \in Lines,
           input' = Append(input, line), ReadTooLarge(line)
    PROVE  PositionInv'
<1>1. /\ TypeOK /\ ~ eof /\ ~ done /\ Relayed = UpstreamEvents
      /\ pc' = "closing" /\ err' = "toolarge" /\ done' = done /\ emitted' = emitted
  BY DEF RelayInv, PositionInv, Outcome, ReadTooLarge, Fail
<1>2. CASE line.kind = "blank"
  <2>1. /\ UpstreamEvents' = IF Class(data) = "event"
                             THEN Append(UpstreamEvents, data) ELSE UpstreamEvents
        /\ LastIsDone' <=> Class(data) = "done"
    BY <1>1, <1>2, BlankEndsBlock
  <2>. QED
    BY <1>1, <2>1, StopsAtBlock
<1>3. CASE line.kind # "blank"
  <2>1. UpstreamEvents' = UpstreamEvents
    BY <1>1, <1>3, FieldEndsNoBlock
  <2>2. Relayed' = Relayed
    BY <1>1 DEF Relayed
  <2>. QED
    BY <1>1, <2>1, <2>2 DEF PositionInv, RelaysEveryEvent
<1>. QED
  BY <1>2, <1>3

(***************************************************************************)
(* The body's end: what is left is flushed, and the stream is truncated    *)
(* unless that was [DONE].                                                 *)
(***************************************************************************)
LEMMA EOFKeepsPosition ==
    ASSUME RelayInv, PositionInv, ReadEOF
    PROVE  PositionInv'
<1>1. /\ TypeOK /\ ~ done /\ err = "none" /\ pc = "reading"
      /\ eof' = TRUE /\ input' = input
  BY DEF RelayInv, Outcome, ReadEOF
<1>2. /\ UpstreamEvents' = IF Class(data) = "event"
                           THEN Append(UpstreamEvents, data) ELSE UpstreamEvents
      /\ LastIsDone' <=> Class(data) = "done"
  BY <1>1, EOFEndsBlock
<1>3. CASE Flush(frame + 1, Fail("truncated"))
  <2>1. CASE /\ Class(data) = "nothing" /\ Fail("truncated")
             /\ UNCHANGED <<done, emitted>>
    BY <1>1, <1>2, <2>1, StopsAtBlock DEF Fail
  <2>2. CASE /\ Class(data) = "done" /\ done' = TRUE /\ pc' = "closing"
             /\ UNCHANGED <<err, emitted>>
    BY <1>1, <1>2, <2>2, StopsAtBlock
  <2>3. CASE /\ Class(data) = "event" /\ Fail("truncated") /\ UNCHANGED done
             /\ emitted' = Append(emitted, [data |-> data, size |-> frame + 1])
    BY <1>1, <1>2, <2>3, StopsAtBlock DEF Fail
  <2>4. CASE Class(data) = "event" /\ Fail("refused") /\ UNCHANGED <<done, emitted>>
    BY <1>1, <1>2, <2>4, StopsAtBlock DEF Fail
  <2>5. CASE /\ Class(data) \in {"upstream", "invalid"}
             /\ Fail(Class(data)) /\ UNCHANGED <<done, emitted>>
    BY <1>1, <1>2, <2>5, StopsAtBlock DEF Fail
  <2>. QED
    BY <1>3, <2>1, <2>2, <2>3, <2>4, <2>5 DEF Flush
<1>4. CASE /\ frame = 0 /\ Fail("truncated")
           /\ UNCHANGED <<frame, data, done, emitted>>
  <2>1. Class(data) = "nothing"
    BY <1>1, <1>4, NoDataNothing DEF PositionInv
  <2>. QED
    BY <1>1, <1>2, <1>4, <2>1, StopsAtBlock DEF Fail
<1>. QED
  BY <1>3, <1>4 DEF ReadEOF

(***************************************************************************)
(* Every step keeps the buffers and the emitted events in accord with the  *)
(* input.                                                                  *)
(***************************************************************************)
LEMMA NextPosition ==
    ASSUME RelayInv, PositionInv, [Next]_vars
    PROVE  PositionInv'
<1>0. ASSUME UNCHANGED <<emitted, input, eof>>
      PROVE  /\ Relayed' = Relayed /\ UpstreamEvents' = UpstreamEvents
             /\ LastIsDone' = LastIsDone /\ Ends' = Ends
             /\ \A e : Block(e)' = Block(e)
             /\ Block(Len(input) + 1)' = Block(Len(input) + 1)
  BY <1>0 DEF LastIsDone, Relayed, UpstreamEvents, EventAt, Ends, Block, BlockAt,
              BlankAt, DataAt
<1>1. ASSUME pc # "reading", UNCHANGED <<done, err, emitted, input, eof>>,
             pc' # "reading"
      PROVE  PositionInv'
  BY <1>0, <1>1 DEF PositionInv, RelaysEveryEvent
<1>2. CASE ReadLine
  BY <1>2, FieldKeepsPosition, BlankKeepsPosition, TooLargeKeepsPosition DEF ReadLine
<1>3. CASE ReadEOF
  BY <1>3, EOFKeepsPosition
<1>4. CASE ReadError
  <2>1. /\ ~ done /\ Relayed = UpstreamEvents /\ err' = "read" /\ pc' = "closing"
        /\ UNCHANGED <<done, emitted, input, eof>>
        /\ \A e \in Ends : Class(Block(e)) \in {"nothing", "event"}
    BY <1>4 DEF ReadError, Fail, RelayInv, Outcome, PositionInv
  <2>2. Relayed' = Relayed /\ UpstreamEvents' = UpstreamEvents /\ LastIsDone' = LastIsDone
    BY <1>0, <2>1
  <2>3. ~ LastIsDone
    BY <2>1 DEF LastIsDone
  <2>. QED
    BY <2>1, <2>2, <2>3 DEF PositionInv, RelaysEveryEvent
<1>5. CASE StreamClose
  BY <1>1, <1>5 DEF StreamClose
<1>6. CASE UNCHANGED vars
  BY <1>0, <1>6 DEF vars, PositionInv, RelaysEveryEvent
<1>. QED
  BY <1>2, <1>3, <1>4, <1>5, <1>6 DEF Next

(***************************************************************************)
(* The buffers of readNativeSSE stand for the input at every moment.       *)
(***************************************************************************)
LEMMA PositionInvariant == Spec => []PositionInv
<1>1. RelayInv /\ PositionInv /\ [Next]_vars => PositionInv'
  BY NextPosition
<1>. QED
  BY InitPosition, <1>1, RelayInvariant, PTL DEF Spec

(***************************************************************************)
(* For every upstream and every limit, readNativeSSE hands the host every  *)
(* complete event of the input, once, in order and whole, except one that  *)
(* is too large or refused, behind which it stops.                         *)
(***************************************************************************)
THEOREM RelayComplete == Spec => []RelaysEveryEvent
<1>1. PositionInv => RelaysEveryEvent
  BY DEF PositionInv, RelaysEveryEvent
<1>. QED
  BY <1>1, PositionInvariant, PTL

(***************************************************************************)
(* For every upstream, a stream is closed without an error exactly when    *)
(* its last block is a [DONE] within the limit.                            *)
(***************************************************************************)
THEOREM CleanCloseOnlyDone == Spec => []CleanCloseMeansDone
<1>1. RelayInv /\ PositionInv => CleanCloseMeansDone
  BY DEF RelayInv, Outcome, PositionInv, CleanCloseMeansDone
<1>. QED
  BY <1>1, RelayInvariant, PositionInvariant, PTL

-----------------------------------------------------------------------------
(* The relay implements the stream contract.                               *)

(***************************************************************************)
(* The relay starts as an open, empty stream.                              *)
(***************************************************************************)
LEMMA InitContract == Init => Contract!Init
BY DEF Init, Contract!Init, Status

(***************************************************************************)
(* A flush that emits is a Deliver, one that reads [DONE] a Terminate, any *)
(* other a stutter of the host's stream.                                   *)
(***************************************************************************)
LEMMA FlushImplements ==
    ASSUME RelayInv, RelayInv', FlushOutcome, pc = "reading"
    PROVE  [Contract!Next]_(Contract!streamVars)
<1>1. /\ TypeOK /\ ~ done
      /\ Status = "open" /\ Status' = "open"
  BY DEF RelayInv, Outcome, Status, FlushOutcome, Fail
<1>. DEFINE event == [data |-> data, size |-> frame + 1]
<1>2. CASE emitted' = Append(emitted, event) /\ UNCHANGED done
  <2>1. event \in EventType
    BY <1>1 DEF TypeOK, EventType
  <2>2. emitted \in Seq(EventType)
    BY <1>1 DEF TypeOK
  <2>3. /\ Len(emitted') = Len(emitted) + 1
        /\ emitted'[Len(emitted')] = event
    BY <1>2, <2>1, <2>2
  <2>. QED
    BY <1>1, <1>2, <2>1, <2>3 DEF Contract!Next, Contract!Deliver
<1>3. CASE UNCHANGED emitted /\ done' = TRUE
  BY <1>1, <1>3 DEF Contract!Next, Contract!Terminate
<1>4. CASE UNCHANGED <<emitted, done>>
  BY <1>1, <1>4 DEF Contract!streamVars
<1>. QED
  BY <1>2, <1>3, <1>4 DEF FlushOutcome

(***************************************************************************)
(* Every step of the relay is a step of the host's stream or leaves it as  *)
(* it is.                                                                  *)
(***************************************************************************)
LEMMA NextContract ==
    ASSUME RelayInv, RelayInv', [Next]_vars
    PROVE  [Contract!Next]_(Contract!streamVars)
<1>1. ASSUME UNCHANGED <<emitted, done>>, Status' = Status
      PROVE  UNCHANGED Contract!streamVars
  BY <1>1 DEF Contract!streamVars
<1>2. ASSUME NEW line \in Lines, pc = "reading",
             \/ ReadField(line) \/ ReadTooLarge(line) \/ ReadBlank(line)
      PROVE  [Contract!Next]_(Contract!streamVars)
  <2>1. CASE ReadField(line)
    BY <1>1, <1>2, <2>1 DEF ReadField, Status
  <2>2. CASE ReadTooLarge(line)
    BY <1>1, <1>2, <2>2 DEF ReadTooLarge, Fail, Status
  <2>3. CASE ReadBlank(line)
    <3>1. FlushOutcome
      BY <2>3, FlushAtBlank DEF ReadBlank
    <3>. QED
      BY <1>2, <3>1, FlushImplements
  <2>. QED
    BY <1>2, <2>1, <2>2, <2>3
<1>3. CASE ReadLine
  BY <1>2, <1>3 DEF ReadLine
<1>4. CASE ReadEOF
  <2>0. pc = "reading"
    BY <1>4 DEF ReadEOF
  <2>1. CASE Flush(frame + 1, Fail("truncated"))
    BY <2>0, <2>1, FlushAtEOF, FlushImplements
  <2>2. CASE Fail("truncated") /\ UNCHANGED <<frame, data, done, emitted>>
    BY <1>1, <2>0, <2>2 DEF Fail, Status
  <2>. QED
    BY <1>4, <2>1, <2>2 DEF ReadEOF
<1>5. CASE ReadError
  BY <1>1, <1>5 DEF ReadError, Fail, Status
<1>6. CASE StreamClose
  BY <1>6 DEF StreamClose, Status, RelayInv, Outcome, TypeOK,
              Contract!Next, Contract!Close
<1>7. CASE UNCHANGED vars
  BY <1>1, <1>7 DEF vars, Status
<1>. QED
  BY <1>3, <1>4, <1>5, <1>6, <1>7 DEF Next

(***************************************************************************)
(* For every upstream, what the host sees of an executor stream is what    *)
(* StreamContract promises: events in order while it is open, one close,   *)
(* without an error exactly when [DONE] was read, and nothing after it.    *)
(***************************************************************************)
THEOREM RelayImplementsContract == Spec => ContractSpec
<1>1. RelayInv /\ RelayInv' /\ [Next]_vars => [Contract!Next]_(Contract!streamVars)
  BY NextContract
<1>. QED
  BY InitContract, <1>1, RelayInvariant, PTL DEF Spec, ContractSpec, Contract!Spec

=============================================================================

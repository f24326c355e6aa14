---------------------------- MODULE StreamRelay -----------------------------
(***************************************************************************)
(* The goroutine of a streaming execution (native_execute.go): it reads    *)
(* the upstream's server-sent events line by line (readNativeSSE), emits   *)
(* each complete event to the host and closes the host's stream.           *)
(*                                                                         *)
(* A line is what bufio.Scanner returns: its kind, its length and, for a   *)
(* data line, which piece of a payload it carries:                         *)
(*   "object"  a whole JSON object      "error"  one with an error key     *)
(*   "open", "close"  the two halves of an object split over two lines     *)
(*   "done"    [DONE]                   "empty"  nothing                   *)
(*   "junk"    anything else                                               *)
(***************************************************************************)
EXTENDS Selections, SequencesExt

CONSTANTS
    Lines,       \* the lines the upstream may send
    Limit,       \* 8 MiB: the largest event, and the scanner's buffer
    MaxLines     \* bound: lines read before the upstream stops

Pieces == {"object", "error", "open", "close", "done", "empty", "junk"}

LineType ==
    [kind : {"blank"}, len : {0}]
    \cup [kind : {"other"}, len : Nat \ {0}]
    \cup [kind : {"data"}, piece : Pieces, len : Nat \ {0}]

ASSUME RelayAssumption ==
    /\ Lines \subseteq LineType
    /\ Limit \in Nat \ {0}
    /\ MaxLines \in Nat

VARIABLES
    pc,          \* "reading", "closing" (readNativeSSE returned), "closed"
    frame,       \* frame.Len()
    data,        \* the pieces of the event read so far
    done,        \* [DONE] was flushed
    err,         \* the error readNativeSSE returns, or "none"
    emitted,     \* the chunks the host has accepted
    input,       \* history: the lines the scanner returned
    eof          \* history: the body ended

vars == <<pc, frame, data, done, err, emitted, input, eof>>

Failures == {"toolarge", "invalid", "upstream", "refused", "read", "truncated"}

EventType == [data : Seq(Pieces), size : Nat]

(***************************************************************************)
(* The type invariant.                                                     *)
(***************************************************************************)
TypeOK ==
    /\ pc \in {"reading", "closing", "closed"}
    /\ frame \in Nat
    /\ data \in Seq(Pieces)
    /\ done \in BOOLEAN
    /\ err \in Failures \cup {"none"}
    /\ emitted \in Seq(EventType)
    /\ input \in Seq(Lines)
    /\ eof \in BOOLEAN

Init ==
    /\ pc = "reading"
    /\ frame = 0
    /\ data = << >>
    /\ done = FALSE
    /\ err = "none"
    /\ emitted = << >>
    /\ input = << >>
    /\ eof = FALSE

-----------------------------------------------------------------------------
(* The payload of an event                                                 *)

\* Pieces are joined by newlines; the empty ones are whitespace to the JSON
\* parser and to TrimSpace, but two of them alone already make a payload.
Substance(pieces) == SelectSeq(pieces, LAMBDA p : p # "empty")

Class(pieces) ==
    LET body == Substance(pieces) IN
    IF pieces \in {<< >>, <<"empty">>} THEN "nothing"
    ELSE IF body = <<"done">> THEN "done"
    ELSE IF body \in {<<"object">>, <<"open", "close">>} THEN "event"
    ELSE IF body = <<"error">> THEN "upstream"
    ELSE "invalid"

-----------------------------------------------------------------------------
(* readNativeSSE                                                           *)

\* readNativeSSE returns an error.
Fail(reason) ==
    /\ err' = reason
    /\ pc' = "closing"

\* MUTANT of ReadField: only a single line is held against the limit.
FieldUnbounded(line) ==
    /\ line.kind # "blank"
    /\ line.len <= Limit
    /\ frame' = frame + line.len + 1
    /\ data' = IF line.kind = "data" THEN Append(data, line.piece) ELSE data
    /\ UNCHANGED <<pc, done, err, emitted>>

\* A field, comment or data line joins the event.
ReadField(line) ==
    /\ line.kind # "blank"
    /\ frame + line.len <= Limit
    /\ frame' = frame + line.len + 1
    /\ data' = IF line.kind = "data" THEN Append(data, line.piece) ELSE data
    /\ UNCHANGED <<pc, done, err, emitted>>

\* The event would exceed the limit, or the line the scanner's buffer.
ReadTooLarge(line) ==
    /\ frame + line.len > Limit \/ line.len >= Limit
    /\ Fail("toolarge")
    /\ UNCHANGED <<frame, data, done, emitted>>

\* MUTANT of Flush: [DONE] is parsed like any other payload, and refused.
FlushRefusesDone(size, after) ==
    /\ frame' = 0
    /\ data' = << >>
    /\ UNCHANGED done
    /\ CASE Class(data) = "nothing" -> after /\ UNCHANGED emitted
         [] Class(data) = "event"   ->
                after /\ emitted' = Append(emitted, [data |-> data, size |-> size])
         [] OTHER                   -> Fail(Class(data)) /\ UNCHANGED emitted

\* flush, for an event of the given size: drop an event without payload,
\* note [DONE], refuse a bad one, emit the others.  The host may refuse.
Flush(size, after) ==
    /\ frame' = 0
    /\ data' = << >>
    /\ \/ /\ Class(data) = "nothing"
          /\ after
          /\ UNCHANGED <<done, emitted>>
       \/ /\ Class(data) = "done"
          /\ done' = TRUE
          /\ pc' = "closing"
          /\ UNCHANGED <<err, emitted>>
       \/ /\ Class(data) = "event"
          /\ emitted' = Append(emitted, [data |-> data, size |-> size])
          /\ after
          /\ UNCHANGED done
       \/ /\ Class(data) = "event"
          /\ Fail("refused")
          /\ UNCHANGED <<done, emitted>>
       \/ /\ Class(data) \in {"upstream", "invalid"}
          /\ Fail(Class(data))
          /\ UNCHANGED <<done, emitted>>

\* MUTANT of ReadBlank: the data of an emitted event is not reset.
BlankKeepsData(line) ==
    /\ line.kind = "blank"
    /\ frame <= Limit
    /\ frame' = 0
    /\ IF Class(data) = "event"
       THEN /\ emitted' = Append(emitted, [data |-> data, size |-> frame + 1])
            /\ UNCHANGED <<pc, data, done, err>>
       ELSE Flush(frame + 1, UNCHANGED <<pc, err>>)

\* MUTANT of ReadBlank: [DONE] is noted, and reading goes on behind it.
BlankReadsPastDone(line) ==
    /\ line.kind = "blank"
    /\ frame <= Limit
    /\ IF Class(data) = "done"
       THEN /\ frame' = 0 /\ data' = << >> /\ done' = TRUE
            /\ UNCHANGED <<pc, err, emitted>>
       ELSE Flush(frame + 1, UNCHANGED <<pc, err>>)

\* A blank line ends the event.
ReadBlank(line) ==
    /\ line.kind = "blank"
    /\ frame <= Limit
    /\ Flush(frame + 1, UNCHANGED <<pc, err>>)

ReadLine ==
    /\ pc = "reading" /\ Len(input) < MaxLines
    /\ \E line \in Lines :
        /\ input' = Append(input, line)
        /\ \/ ReadField(line) /\ line.len < Limit
           \/ ReadTooLarge(line)
           \/ ReadBlank(line)
    /\ UNCHANGED eof

\* MUTANT of ReadEOF: the body's end ends the stream, [DONE] or not.
EOFIsNormal ==
    /\ pc = "reading"
    /\ eof' = TRUE
    /\ \/ frame > 0 /\ Flush(frame + 1, pc' = "closing" /\ UNCHANGED err)
       \/ /\ frame = 0
          /\ pc' = "closing"
          /\ UNCHANGED <<frame, data, done, err, emitted>>
    /\ UNCHANGED input

\* The body ends: an event without its blank line is flushed, and the stream
\* is truncated unless that was [DONE].
ReadEOF ==
    /\ pc = "reading"
    /\ eof' = TRUE
    /\ \/ frame > 0 /\ Flush(frame + 1, Fail("truncated"))
       \/ /\ frame = 0
          /\ Fail("truncated")
          /\ UNCHANGED <<frame, data, done, emitted>>
    /\ UNCHANGED input

\* The read fails: the connection broke or the context was cancelled.
ReadError ==
    /\ pc = "reading"
    /\ Fail("read")
    /\ UNCHANGED <<frame, data, done, emitted, input, eof>>

\* host.stream.close, with error_detail when readNativeSSE failed.
StreamClose ==
    /\ pc = "closing"
    /\ pc' = "closed"
    /\ UNCHANGED <<frame, data, done, err, emitted, input, eof>>

Next == ReadLine \/ ReadEOF \/ ReadError \/ StreamClose

Spec == Init /\ [][Next]_vars

-----------------------------------------------------------------------------
(* Properties                                                              *)

\* A second reading of the input, by position: a block is what stands between
\* two blank lines, and the body's end closes the last.
BlankAt == {n \in DOMAIN input : input[n].kind = "blank"}

Ends == IF eof THEN BlankAt \cup {Len(input) + 1} ELSE BlankAt

DataAt == {n \in DOMAIN input : input[n].kind = "data"}

\* The data lines of the block that ends before position e.
BlockAt(e) == {n \in DataAt : n < e /\ \A b \in BlankAt : b < n \/ e <= b}

Block(e) == Select([n \in DataAt |-> input[n].piece], BlockAt(e))

EventAt == {e \in Ends : Class(Block(e)) = "event"}

UpstreamEvents == Select([e \in Ends |-> Block(e)], EventAt)

Relayed == [n \in DOMAIN emitted |-> emitted[n].data]

(***************************************************************************)
(* The host gets every complete event the upstream sent, once, in order    *)
(* and whole: no event is lost, merged with its neighbour or emitted early *)
(* by the frame and data buffers of readNativeSSE, at the body's end too.  *)
(* Only an event over the limit, or one that the host itself refuses, is   *)
(* missing.                                                                *)
(***************************************************************************)
RelaysEveryEvent ==
    \/ Relayed = UpstreamEvents
    \/ /\ err \in {"refused", "toolarge"} /\ UpstreamEvents # << >>
       /\ Relayed = Front(UpstreamEvents)

LastIsDone == \E e \in Ends : Class(Block(e)) = "done" /\ \A n \in Ends : n <= e

(***************************************************************************)
(* The stream is closed without an error exactly when the last block the   *)
(* upstream sent is its [DONE] and within the limit: a truncated, broken   *)
(* or oversized stream never looks complete to the host.                   *)
(***************************************************************************)
CleanCloseMeansDone ==
    pc = "closed" => (err = "none" <=> LastIsDone /\ err # "toolarge")

(***************************************************************************)
(* What readNativeSSE buffers, and what it emits, stays within two bytes   *)
(* of the limit (the newlines it adds), whatever the upstream sends.       *)
(***************************************************************************)
FrameBounded ==
    /\ frame <= Limit + 1
    /\ \A n \in DOMAIN emitted : emitted[n].size <= Limit + 2

Status ==
    IF pc # "closed" THEN "open" ELSE IF err = "none" THEN "clean" ELSE "failed"

Contract == INSTANCE StreamContract
    WITH Events <- EventType, out <- emitted, terminated <- done, status <- Status

(***************************************************************************)
(* The relay implements the contract of the host's stream.                 *)
(***************************************************************************)
ContractSpec == Contract!Spec

=============================================================================

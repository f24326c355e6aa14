--------------------------- MODULE StreamContract ---------------------------
(***************************************************************************)
(* What the host is promised of one executor stream (host.stream.emit and  *)
(* host.stream.close in native_execute.go): events arrive in order while   *)
(* the stream is open, it is closed once, nothing follows the close, and   *)
(* it is closed without an error only after the upstream's terminator, and *)
(* always then.                                                            *)
(***************************************************************************)
EXTENDS Naturals, Sequences

CONSTANT Events      \* what an emitted chunk may be

VARIABLES
    out,             \* the chunks the host has received
    terminated,      \* the upstream's [DONE] was read
    status           \* "open", or how the stream was closed

streamVars == <<out, terminated, status>>

Init ==
    /\ out = << >>
    /\ terminated = FALSE
    /\ status = "open"

\* host.stream.emit: one more chunk, after those already received.
Deliver ==
    /\ status = "open" /\ ~ terminated
    /\ Len(out') = Len(out) + 1
    /\ out'[Len(out')] \in Events
    /\ out' = Append(out, out'[Len(out')])
    /\ UNCHANGED <<terminated, status>>

Terminate ==
    /\ status = "open" /\ ~ terminated
    /\ terminated' = TRUE
    /\ UNCHANGED <<out, status>>

\* host.stream.close, with or without error_detail
Close ==
    /\ status = "open"
    /\ status' = IF terminated THEN "clean" ELSE "failed"
    /\ UNCHANGED <<out, terminated>>

Next == Deliver \/ Terminate \/ Close

Spec == Init /\ [][Next]_streamVars

=============================================================================

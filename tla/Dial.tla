-------------------------------- MODULE Dial --------------------------------
(***************************************************************************)
(* One dial of the native transport (native_transport.go): DialTLSContext, *)
(* with nativeProxyConnect for an HTTP or HTTPS proxy, against the         *)
(* cancellation of the request's context, the watcher that context.AfterFunc *)
(* starts, the timers and a peer that may answer, fail or stay silent.     *)
(*                                                                         *)
(* A TLS connection closes the socket below it and sets its deadline, so   *)
(* one socket stands for the connection whatever layer the code holds.     *)
(***************************************************************************)
CONSTANT Routes      \* routes newNativeTransport may have chosen

ASSUME RoutesAssumption == Routes \subseteq {"direct", "socks", "http", "https"}

VARIABLES
    route,      \* how this dial reaches the upstream
    pc,         \* where the dialing goroutine is
    result,     \* what DialTLSContext returned: "none", "conn" or "error"
    socket,     \* "none" before the TCP connection, then "open" or "closed"
    deadline,   \* of the socket: "none", "armed" or "expired"
    cancelled,  \* the request's context is done
    watcher     \* the AfterFunc: "idle", "armed", "fired", "ran", "stopped"

env == <<route, cancelled>>
vars == <<route, pc, result, socket, deadline, cancelled, watcher>>

Init ==
    /\ route \in Routes
    /\ pc = "dial" /\ result = "none"
    /\ socket = "none" /\ deadline = "none"
    /\ cancelled = FALSE
    /\ watcher = "idle"

-----------------------------------------------------------------------------
(* The dialing goroutine *)

Move(from, to) ==
    /\ pc = from
    /\ pc' = to
    /\ UNCHANGED <<env, result, socket, deadline, watcher>>

Return(what) ==
    /\ pc' = "returned"
    /\ result' = what

(***************************************************************************)
(* The dialer connects (through SOCKS: to the target), or it does not: it  *)
(* is refused, meets its timeout, or the context is done.                  *)
(***************************************************************************)
Connect ==
    /\ pc = "dial"
    /\ pc' = IF route \in {"http", "https"} THEN "watch" ELSE "prepare"
    /\ socket' = "open"
    /\ UNCHANGED <<env, result, deadline, watcher>>

ConnectFails ==
    /\ pc = "dial"
    /\ Return("error")
    /\ UNCHANGED <<env, socket, deadline, watcher>>

(***************************************************************************)
(* nativeProxyConnect registers the watcher, which a context that is done  *)
(* already fires at once, and gives the handshake fifteen seconds.         *)
(***************************************************************************)
Register(limit) ==
    /\ pc = "watch"
    /\ pc' = IF route = "https" THEN "proxyTLS" ELSE "write"
    /\ watcher' = IF cancelled THEN "fired" ELSE "armed"
    /\ deadline' = limit
    /\ UNCHANGED <<env, result, socket>>

WatchWithoutDeadline == Register("none")
Watch == Register("armed")

(***************************************************************************)
(* A call on the connection can end well only while the socket is usable.  *)
(* ReadEstablished is a 200 with nothing buffered behind it.               *)
(***************************************************************************)
Usable == socket = "open" /\ deadline # "expired"

ProxyHandshake  == Usable /\ Move("proxyTLS", "swap")
WriteConnect    == Usable /\ Move("write", "read")
ReadEstablished == Usable /\ Move("read", "clear")

(***************************************************************************)
(* conn = secured.                                                         *)
(***************************************************************************)
Swap == Move("swap", "write")

(***************************************************************************)
(* An error of the proxy's handshake, of the request or of the response, a *)
(* status other than 200, or bytes after the response.                     *)
(***************************************************************************)
ProxyFails == \E at \in {"proxyTLS", "write", "read"} : Move(at, "fail")

ClearNothing == Move("clear", "stop")

ClearDeadline ==
    /\ pc = "clear"
    /\ pc' = "stop"
    /\ deadline' = "none"
    /\ UNCHANGED <<env, result, socket, watcher>>

(***************************************************************************)
(* stop() keeps a watcher from starting; it neither stops nor awaits one   *)
(* that has started.                                                       *)
(***************************************************************************)
Stopped == IF watcher = "armed" THEN "stopped" ELSE watcher

StopForgotten == Move("stop", "prepare")

\* The deferred calls of a successful nativeProxyConnect.
Stop ==
    /\ pc = "stop"
    /\ pc' = "prepare"
    /\ watcher' = Stopped
    /\ UNCHANGED <<env, result, socket, deadline>>

ErrorKeepsSocket ==
    /\ pc = "fail"
    /\ watcher' = Stopped
    /\ Return("error")
    /\ UNCHANGED <<env, socket, deadline>>

\* The deferred calls of a failed one: stop(), then the close.
ProxyError ==
    /\ pc = "fail"
    /\ watcher' = Stopped
    /\ socket' = "closed"
    /\ Return("error")
    /\ UNCHANGED <<env, deadline>>

(***************************************************************************)
(* DialTLSContext goes on: the target's host and the ClientHello, then the *)
(* handshake within ten seconds; every error closes the connection.        *)
(***************************************************************************)
Prepare == Move("prepare", "tls")
PrepareFails == Move("prepare", "refuse")

Handshake ==
    /\ pc = "tls" /\ Usable
    /\ Return("conn")
    /\ UNCHANGED <<env, socket, deadline, watcher>>

HandshakeFails == Move("tls", "refuse")

Refuse ==
    /\ pc = "refuse"
    /\ socket' = "closed"
    /\ Return("error")
    /\ UNCHANGED <<env, deadline, watcher>>

-----------------------------------------------------------------------------
(* Around it *)

(***************************************************************************)
(* The context is done, at any time; an armed watcher starts.              *)
(***************************************************************************)
Cancel ==
    /\ ~ cancelled
    /\ cancelled' = TRUE
    /\ watcher' = IF watcher = "armed" THEN "fired" ELSE watcher
    /\ UNCHANGED <<route, pc, result, socket, deadline>>

(***************************************************************************)
(* The watcher closes the connection.  At the assignment of conn it reads  *)
(* a variable that is being written: it may get either connection, or one  *)
(* half of each, and close nothing.                                        *)
(***************************************************************************)
WatcherCloses ==
    /\ watcher = "fired"
    /\ watcher' = "ran"
    /\ socket' \in {"closed"} \cup (IF pc = "swap" THEN {socket} ELSE {})
    /\ UNCHANGED <<env, pc, result, deadline>>

DeadlineExpires ==
    /\ deadline = "armed"
    /\ deadline' = "expired"
    /\ UNCHANGED <<env, pc, result, socket, watcher>>

Next ==
    \/ Connect \/ ConnectFails
    \/ Watch \/ ProxyHandshake \/ Swap \/ WriteConnect \/ ReadEstablished
    \/ ProxyFails \/ ClearDeadline \/ Stop \/ ProxyError
    \/ Prepare \/ PrepareFails \/ Handshake \/ HandshakeFails \/ Refuse
    \/ Cancel \/ WatcherCloses \/ DeadlineExpires

Spec == Init /\ [][Next]_vars

(***************************************************************************)
(* What happens whatever the peer does.  The goroutine and the watcher     *)
(* run.  A timer expires: the dialer's for a TCP connection, the socket's  *)
(* deadline, the ten seconds of the last handshake.  A call fails on a     *)
(* socket that is unusable and, where the code passes it the context, on a *)
(* context that is done.  A SOCKS proxy that accepts the TCP connection    *)
(* and says nothing meets no timer.                                        *)
(***************************************************************************)
Progress ==
    \/ Watch \/ Swap \/ ClearDeadline \/ Stop \/ ProxyError
    \/ Prepare \/ HandshakeFails \/ Refuse
    \/ (route # "socks" \/ cancelled) /\ ConnectFails
    \/ (Usable => cancelled /\ pc = "proxyTLS") /\ ProxyFails

FairSpec ==
    /\ Spec
    /\ WF_vars(Progress) /\ WF_vars(WatcherCloses) /\ WF_vars(DeadlineExpires)

-----------------------------------------------------------------------------
(* Properties *)

(***************************************************************************)
(* No socket is leaked: when DialTLSContext has returned an error, on any  *)
(* path and in any race with the watcher, the socket it opened is closed.  *)
(***************************************************************************)
NothingLeaks == result = "error" => socket # "open"

(***************************************************************************)
(* The fifteen seconds bound the proxy handshake only: a returned          *)
(* connection carries no deadline, or a stream longer than that would end. *)
(***************************************************************************)
NoDeadlineLeft == result = "conn" => deadline = "none"

(***************************************************************************)
(* The watcher's reach ends with nativeProxyConnect: a context that is     *)
(* done only after the connection was returned (the request is over, the   *)
(* connection idle) never starts it.                                       *)
(***************************************************************************)
LateCancelHarmless ==
    [][ result = "conn" /\ Cancel => UNCHANGED watcher ]_vars

(***************************************************************************)
(* The dial ends although the peer never answers: by a timer or by         *)
(* cancellation, through SOCKS only by cancellation.                       *)
(***************************************************************************)
DialReturns == (route # "socks" \/ cancelled) ~> (pc = "returned")

=============================================================================

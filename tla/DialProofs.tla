----------------------------- MODULE DialProofs -----------------------------
(***************************************************************************)
(* Theorems about one dial, over any of the routes.                        *)
(***************************************************************************)
EXTENDS Dial, TLAPS

(***************************************************************************)
(* Where nativeProxyConnect is between registering the watcher and its     *)
(* return.                                                                 *)
(***************************************************************************)
InProxy == {"proxyTLS", "swap", "write", "read", "clear", "stop", "fail"}

(***************************************************************************)
(* The inductive invariant.  A result is there only at the end, neither    *)
(* socket nor watcher before the connection; a deadline outlives the       *)
(* proxy's part only on a connection that was refused, an armed watcher    *)
(* never does.                                                             *)
(***************************************************************************)
ResultAtEnd == result # "none" => pc = "returned"
Untouched == pc = "dial" => socket = "none" /\ watcher = "idle"
DeadlineInProxy ==
    deadline # "none" => pc \in InProxy \ {"stop"} \/ result = "error"
ArmedInProxy == watcher = "armed" => pc \in InProxy

DialInv ==
    /\ NothingLeaks
    /\ ResultAtEnd /\ Untouched /\ DeadlineInProxy /\ ArmedInProxy

\* Init establishes the invariant.
LEMMA InitDial == Init => DialInv
BY DEF Init, DialInv, NothingLeaks, ResultAtEnd, Untouched, DeadlineInProxy,
       ArmedInProxy

\* Every step preserves it.
LEMMA StepDial == DialInv /\ [Next]_vars => DialInv'
<1> SUFFICES ASSUME DialInv, [Next]_vars PROVE DialInv'
  OBVIOUS
<1> USE DEF DialInv, NothingLeaks, ResultAtEnd, Untouched, DeadlineInProxy,
            ArmedInProxy, InProxy, env, Move, Return
<1>1. CASE Connect
  BY <1>1 DEF Connect
<1>2. CASE ConnectFails
  BY <1>2 DEF ConnectFails
<1>3. CASE Watch
  BY <1>3 DEF Watch, Register
<1>4. CASE ProxyHandshake
  BY <1>4 DEF ProxyHandshake
<1>5. CASE Swap
  BY <1>5 DEF Swap
<1>6. CASE WriteConnect
  BY <1>6 DEF WriteConnect
<1>7. CASE ReadEstablished
  BY <1>7 DEF ReadEstablished
<1>8. CASE ProxyFails
  BY <1>8 DEF ProxyFails
<1>9. CASE ClearDeadline
  BY <1>9 DEF ClearDeadline
<1>10. CASE Stop
  BY <1>10 DEF Stop, Stopped
<1>11. CASE ProxyError
  BY <1>11 DEF ProxyError, Stopped
<1>12. CASE Prepare
  BY <1>12 DEF Prepare
<1>13. CASE PrepareFails
  BY <1>13 DEF PrepareFails
<1>14. CASE Handshake
  BY <1>14 DEF Handshake
<1>15. CASE HandshakeFails
  BY <1>15 DEF HandshakeFails
<1>16. CASE Refuse
  BY <1>16 DEF Refuse
<1>17. CASE Cancel
  BY <1>17 DEF Cancel
<1>18. CASE WatcherCloses
  BY <1>18 DEF WatcherCloses
<1>19. CASE DeadlineExpires
  BY <1>19 DEF DeadlineExpires
<1>20. CASE UNCHANGED vars
  BY <1>20 DEF vars
<1> QED
  BY <1>1, <1>2, <1>3, <1>4, <1>5, <1>6, <1>7, <1>8, <1>9, <1>10, <1>11, <1>12,
     <1>13, <1>14, <1>15, <1>16, <1>17, <1>18, <1>19, <1>20 DEF Next

LEMMA DialInvariant == Spec => []DialInv
BY InitDial, StepDial, PTL DEF Spec

-----------------------------------------------------------------------------

(***************************************************************************)
(* An error of DialTLSContext leaves no socket open, on any route and in   *)
(* any race of the watcher, its torn read of conn included.                *)
(***************************************************************************)
THEOREM DialNeverLeaks == Spec => []NothingLeaks
<1>1. DialInv => NothingLeaks
  BY DEF DialInv
<1> QED
  BY <1>1, DialInvariant, PTL

(***************************************************************************)
(* A returned connection carries no deadline of the proxy's handshake.     *)
(***************************************************************************)
THEOREM DialClearsDeadline == Spec => []NoDeadlineLeft
<1>1. DialInv => NoDeadlineLeft
  BY DEF DialInv, ResultAtEnd, DeadlineInProxy, InProxy, NoDeadlineLeft
<1> QED
  BY <1>1, DialInvariant, PTL

(***************************************************************************)
(* The end of a request does not reach the connection that its dial left   *)
(* in the transport's pool.                                                *)
(***************************************************************************)
THEOREM LateCancelIsHarmless == Spec => LateCancelHarmless
<1>1. DialInv /\ [Next]_vars => [result = "conn" /\ Cancel => UNCHANGED watcher]_vars
  BY DEF DialInv, ResultAtEnd, ArmedInProxy, InProxy, Cancel
<1> QED
  BY <1>1, DialInvariant, PTL DEF Spec, LateCancelHarmless

=============================================================================

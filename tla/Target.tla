------------------------------- MODULE Target -------------------------------
(***************************************************************************)
(* Which requests the plugin touches (target.go) and which of them get the *)
(* free-tier fingerprint (fingerprintApplies), as predicates of a request  *)
(* and the configuration the handler read.                                 *)
(***************************************************************************)
EXTENDS Config

(***************************************************************************)
(* isTarget: a target glob matches one of the two model names, or a target *)
(* marker occurs in the selected credential's id.                          *)
(***************************************************************************)
IsTarget(r, c) ==
    \/ {r.model, r.requested} \cap c.targetModels # {}
    \/ r.auth \in c.targetAuths

(***************************************************************************)
(* isExplicitPaidModel, on a final segment.                                *)
(***************************************************************************)
IsExplicitPaidModel(segment, c) == segment \in c.paid

(***************************************************************************)
(* isZenFreeTierModel: a paid entry wins, then a free entry, then a marker. *)
(***************************************************************************)
IsZenFreeTierModel(model, c) ==
    LET segment == LastSegment[model] IN
    /\ ~ IsExplicitPaidModel(segment, c)
    /\ segment \in c.free \cup c.marked

(***************************************************************************)
(* fingerprintApplies: the upstream or the requested name is free-tier.    *)
(***************************************************************************)
FingerprintApplies(r, c) ==
    /\ c.fingerprint
    /\ \/ ~ c.freeOnly
       \/ \E model \in {r.model, r.requested} : IsZenFreeTierModel(model, c)

(***************************************************************************)
(* The native-credential test of handleInterceptAfter.                     *)
(***************************************************************************)
IsNativeAuth(r) == r.auth \in NativeAuths

(***************************************************************************)
(* requiredGlueHeaders: only the two configurable names vary.              *)
(***************************************************************************)
RequiredGlueHeaders(c) == [userAgent |-> c.uaHeader, session |-> c.headerName]

=============================================================================

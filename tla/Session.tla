------------------------------- MODULE Session ------------------------------
(***************************************************************************)
(* Session identity of one request (session.go): where resolveSessionID    *)
(* finds it and how sessionHeaderValue renders it off the fingerprint path. *)
(***************************************************************************)
EXTENDS Config

(***************************************************************************)
(* The candidates in the order resolveSessionID looks at them, each with   *)
(* its source.  A source header that names the session header is skipped.  *)
(***************************************************************************)
Candidates(r, c) ==
    LET Header(name) ==
            [ source |-> "header",
              value  |-> IF name = c.headerName THEN None ELSE r.headers[name] ]
    IN  << [source |-> "native", value |-> r.headers[c.headerName]],
           [source |-> "native", value |-> r.headers[SessionIDHeader]] >>
        \o [k \in DOMAIN c.sourceHeaders |-> Header(c.sourceHeaders[k])]
        \o << [source |-> "metadata", value |-> r.canonical],
              [source |-> "body",
               value  |-> IF c.bodyHash THEN r.body ELSE None] >>

(***************************************************************************)
(* Candidate k is the first one with a usable value.                       *)
(***************************************************************************)
FirstUsable(candidates, k) ==
    /\ candidates[k].value # None
    /\ \A j \in 1 .. k - 1 : candidates[j].value = None

Unresolved == [source |-> "none", value |-> None]

(***************************************************************************)
(* resolveSessionID: the first candidate with a usable value.              *)
(***************************************************************************)
ResolveSessionID(r, c) ==
    LET candidates == Candidates(r, c)
        first == {k \in DOMAIN candidates : FirstUsable(candidates, k)}
    IN  IF first = {} THEN Unresolved
        ELSE candidates[CHOOSE k \in first : TRUE]

(***************************************************************************)
(* sessionHeaderValue: header and metadata identities are hashed when      *)
(* session.hash_derived is on; the others are opaque already.              *)
(***************************************************************************)
SessionHeaderValue(res, c) ==
    IF res.source \in {"header", "metadata"} /\ c.hashDerived
    THEN Hashed(res.value)
    ELSE Raw(res.value)

=============================================================================

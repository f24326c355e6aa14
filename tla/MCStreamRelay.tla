--------------------------- MODULE MCStreamRelay ----------------------------
(***************************************************************************)
(* A small instance of StreamRelay for TLC: every kind of line, lengths on *)
(* both sides of a small limit.                                            *)
(***************************************************************************)
EXTENDS StreamRelay

Data(piece, len) == [kind |-> "data", piece |-> piece, len |-> len]

MCLines ==
    { [kind |-> "blank", len |-> 0], [kind |-> "other", len |-> 3],
      [kind |-> "other", len |-> 4], [kind |-> "other", len |-> 6] }
    \cup { Data(piece, 1) : piece \in Pieces }
    \cup { Data("object", 4) }

=============================================================================

---------------------------- MODULE MCCompletion ----------------------------
(***************************************************************************)
(* A small instance of Completion for TLC: two choices, two parallel tool  *)
(* calls and one beyond the bound, with every kind of value.               *)
(***************************************************************************)
EXTENDS Completion

NoDelta ==
    [ content |-> None, reasoning |-> None, role |-> None, call |-> None,
      tools |-> << >> ]

Choice(i, finish, delta) == [index |-> i, finish |-> finish, delta |-> delta]

Chunk(items) == [size |-> 1, root |-> None, choices |-> items]

Part(t, id, name, arguments) ==
    [ index |-> t, id |-> id,
      function |-> [name |-> name, arguments |-> arguments] ]

\* Deltas that carry text, in each of the forms MergeText tells apart.
TextDeltas ==
    { [NoDelta EXCEPT !.content = text] : text \in {<<"a">>, << >>, Null, Other} }
    \cup { [NoDelta EXCEPT !.reasoning = <<"r">>, !.content = <<"b">>],
           [NoDelta EXCEPT !.role = "tool", !.call = [name |-> "f", arguments |-> <<"x">>]],
           [NoDelta EXCEPT !.role = Null, !.call = [name |-> None, arguments |-> <<"y">>]],
           [NoDelta EXCEPT !.call = Null] }

\* Fragments of tool calls: in order, out of order, several at once, with
\* nulls, beyond the bound.
ToolDeltas ==
    { [NoDelta EXCEPT !.tools = parts] : parts \in
        { << Part(0, "c0", "f", <<"x">>) >>,
          << Part(1, "c1", None, <<"y">>), Part(0, None, None, <<"z">>) >>,
          << Part(1, Null, Null, Null) >>,
          << Part(2, "c2", "g", <<"w">>), Other, Part(-1, "c", "g", <<"w">>) >>,
          << [index |-> 1, id |-> "c1", function |-> Null] >>,
          << [index |-> 0, id |-> None, function |-> None] >> } }

MCChunks ==
    { Chunk(<< Choice(1, None, d) >>) : d \in TextDeltas \cup ToolDeltas }
    \cup { Chunk(<< Choice(0, Null, d), Choice(1, "stop", None) >>) :
                d \in {[NoDelta EXCEPT !.content = <<"c">>],
                       [NoDelta EXCEPT !.tools = << Part(0, "d0", "h", <<"v">>) >>]} }
    \cup { Chunk(<< Other >>), [Chunk(<< >>) EXCEPT !.root = Null],
           [size |-> 4, root |-> "usage", choices |-> << Choice(-1, "length", None) >>] }

MCPlain == {"f", "g", "h", "c", "c0", "c1", "c2", "d0", "tool", "stop", "length", "usage", None, Null}

=============================================================================

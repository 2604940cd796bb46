------------------------------ MODULE MCLabels -------------------------------
(* Short labels of confusable characters for the fold, longer ones of two  *)
(* characters for the distance.                                            *)
EXTENDS Labels

Under(label) == <<label, <<"c", "o", "m">>>>

\* Every label of up to three of the characters the confusables are made of.
Foldable == BoundedSeq({"r", "n", "v", "1", "c"}, 3)
            \union {<<"0", "r", "n", "n", "5">>, <<"v", "v", "v", "v", "2">>}

\* Lengths on both sides of the four and five character floors.  The first
\* character of the target's label is fixed: exchanging the two characters in
\* both labels changes nothing.
Plain == [1 .. 3 -> {"a", "b"}] \union [1 .. 4 -> {"a", "b"}]
Longer == {<<"a", "b", "a", "b">>, <<"a", "a", "b", "a", "a">>, <<"a", "a", "1", "a", "a">>,
           <<"b", "a", "a", "l", "a", "a", "b", "b">>}

MCPairs ==
    {<<Under(s), Under(<<"r", "n">>)>> : s \in Foldable}
    \union {<<Under(s), Under(t)>> : s \in {p \in Plain : p[1] = "a"}, t \in Plain}
    \union {<<Under(s), Under(t)>> : s, t \in Longer}
=============================================================================

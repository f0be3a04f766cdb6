------------------------------ MODULE MCShells ------------------------------
(***************************************************************************)
(* The shells for TLC: what a person may type, and scripts.                *)
(***************************************************************************)
EXTENDS Shells

SomeLines ==
  {<<"ls">>, <<"cat">>, <<"nope">>, <<"", "ls">>, <<"">>,
   <<"ls", "=>", "cat">>, <<"ls", "=>", "head">>, <<"nope", "=>", "cat">>,
   <<"ls", "=>", "nope">>, <<"", "=>", "cat">>, <<"ls", "=>", "">>}

(* The last script makes a fork fail.                                      *)
SomeScripts ==
  [1..3 -> {<<"ls">>, <<"nope">>, <<"", "ls">>, <<"">>}]
    \cup {[i \in 1..4 |-> <<"nope">>]}
=============================================================================

---------------------------- MODULE MCHashStream ----------------------------
(* An instance of HashStream for TLC: keys of every class of length.       *)
EXTENDS HashStream

MCKeys  == {[i \in 1..n |-> <<"key", i>>] : n \in {2, 5}}
MCPipes == {<<"hash", "span">>, <<"span", "hash">>, <<"count", "file">>}

=============================================================================

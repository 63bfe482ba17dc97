------------------------------- MODULE MCPubSub -------------------------------
(* Two connections.  Four characters, so that a node has enough children for a *)
(* dense array, holes in it and its trimming.                                 *)
EXTENDS PubSub, TLC

CONSTANTS p1, p2

MCPipe == {p1, p2}
MCTopic == {<<>>, <<1>>, <<2>>, <<3>>, <<4>>, <<1, 2>>, <<1, 3>>, <<1, 2, 3>>, <<1, 2, 4, 1>>}
MCMessage == {<<1>>, <<1, 2, 3, 4>>, <<4, 4>>}
Symmetry == Permutations(MCPipe)
=============================================================================

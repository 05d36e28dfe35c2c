------------------------- MODULE MCActionLifecycle --------------------------
(* n is the native token, x and y are others.  The increase order and the  *)
(* swap order have an input and an output in the same escrow, and the      *)
(* decrease order has two outputs in the same escrow.                      *)
EXTENDS ActionLifecycle

CONSTANTS n, x, y

Shape(k, i, o) == [kind |-> k, ins |-> i, outs |-> o]

MCShapes == {Shape("deposit", <<n, x>>, <<y>>),
             Shape("withdrawal", <<y>>, <<n, n>>),
             Shape("shift", <<x>>, <<y>>),
             Shape("swap", <<x>>, <<x>>),
             Shape("increase", <<x>>, <<x, n>>),
             Shape("decrease", <<>>, <<n, x, n>>)}

MCWatched == {<<"owner", x>>, <<"receiver", x>>, <<"receiver", n>>}
MCWatchedTwo == {<<"owner", x>>, <<"receiver", n>>}
=============================================================================

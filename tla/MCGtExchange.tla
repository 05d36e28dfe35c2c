---------------------------- MODULE MCGtExchange ----------------------------
(* bob was referred by ann.  The cost of a GT is 2, 3, 4, ... halves of a  *)
(* unit, so that it is rounded from the second step on.                    *)
EXTENDS GtExchange, TLC
CONSTANTS ann, bob

MCReferrer == (ann :> NoUser) @@ (bob :> ann)
MCRewardFactor == (0 :> 1) @@ (1 :> 1) @@ (2 :> 2)
=============================================================================

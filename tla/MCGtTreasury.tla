---------------------------- MODULE MCGtTreasury ----------------------------
(* Two users without referrers, and GT at a constant cost.                 *)
EXTENDS GtTreasury, TLC
CONSTANTS ann, bob, p, q, usd

MCReferrer == [u \in Users |-> NoUser]
MCRewardFactor == 0 :> 0
=============================================================================

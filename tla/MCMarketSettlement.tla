------------------------ MODULE MCMarketSettlement ------------------------
(***************************************************************************)
(* Instances of MarketSettlement for TLC.                                  *)
(***************************************************************************)
EXTENDS MarketSettlement, TLC

CONSTANTS i1, i2, w1, w2

\* Two instances, one sweep each.
MCTwoInstances == (w1 :> i1) @@ (w2 :> i2)
===========================================================================

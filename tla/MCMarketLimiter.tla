-------------------------- MODULE MCMarketLimiter --------------------------
(* MarketLimiter on a small instance. *)
EXTENDS MarketLimiter, TLC

CONSTANTS t1, h1, h2, c1

TwoHot == t1 :> 0 @@ h1 :> 1 @@ h2 :> 1 @@ c1 :> 2
=============================================================================

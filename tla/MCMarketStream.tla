----------------------------- MODULE MCMarketStream -----------------------------
(***************************************************************************)
(* Instances of MarketStream for TLC: two charts on two streams, one of    *)
(* which they share.                                                       *)
(***************************************************************************)
EXTENDS StreamProperties, TLC

CONSTANTS c1, c2, btc, eth

TwoCharts == (c1 :> {btc}) @@ (c2 :> {btc, eth})
=============================================================================

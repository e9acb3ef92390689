---------------------------- MODULE MCMarketGateway ----------------------------
(***************************************************************************)
(* Instances of MarketGateway for TLC: four charts on three streams.       *)
(***************************************************************************)
EXTENDS GatewayProperties, TLC

CONSTANTS c1, c2, c3, c4, btc, eth, doge

FourCharts == (c1 :> btc) @@ (c2 :> btc) @@ (c3 :> eth) @@ (c4 :> doge)
=============================================================================

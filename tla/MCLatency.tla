------------------------------ MODULE MCLatency ------------------------------
(* Latency for TLC, on the markets of MCTrading.                           *)
EXTENDS LatencyProperties, MCTrading
=============================================================================

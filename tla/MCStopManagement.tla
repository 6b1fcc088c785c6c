------------------------- MODULE MCStopManagement -------------------------
(* StopManagement with the values a configuration file cannot hold: prices *)
(* and stops below the entry.                                              *)
EXTENDS StopManagement

MCPrices  == {-12, 7, 21, 62}
MCAnchors == {-20, 5, 16}
MCNoStop  == -999
=============================================================================

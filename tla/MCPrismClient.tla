--------------------------- MODULE MCPrismClient ----------------------------
(* Settings for model checking PrismClient.                                *)
EXTENDS PrismClient

FiveVMs == <<1, 2, 3, 4, 5>>
=============================================================================

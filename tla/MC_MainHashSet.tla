--------------------------- MODULE MC_MainHashSet ---------------------------
(* main()'s Strategy B half with the harness bounds and two counts,       *)
(* so that two draws of one id and one side can differ.                   *)
EXTENDS MainHashSet

MCPrices == {Price(1, 50)}
MCElementsCount == <<2>>
=============================================================================

--------------------------- MODULE MC_MainHashMap ---------------------------
(* main()'s Strategy A half with the bounds given below.                  *)
EXTENDS MainHashMap

MCPrices == {Price(1, 50)}
MCElementsCount == <<2>>
=============================================================================

---------------------------- MODULE MC_DobyteMain ----------------------------
(* main() of dobyte.cpp with the harness bounds and a vector of four     *)
(* slots, so that every id 1..3 fits.                                      *)
EXTENDS DobyteMain

MCPrices == {Price(1, 50)}
MCElementsCount == <<2>>
=============================================================================

------------------------------- MODULE MC_TopK -------------------------------
(* FindTop10 over every vector of at most MaxLen orders of one side with   *)
(* distinct ids: two prices equal in their integer part and one above      *)
(* them, two counts, so every tie-break of the comparators is exercised.   *)
(* The harness's oracle GetTop10 is checked on the same vectors.           *)
EXTENDS TopKSelect, TestOracle

MCPrices == {Price(1, 50), Price(1, 99), Price(2, 0)}

\* The harness's selection-sort oracle GetTop10 returns exactly the best K
\* orders, best first, on every vector the book can hand FindTop10, so a
\* test comparing ShowTop10 with it fails only when the book is wrong.
OracleAgrees == GetTop10(v, side) = TopRef(ToSet(v), side)
=============================================================================

----------------------------- MODULE TestOracle -----------------------------
(***************************************************************************)
(* GetTop10<Comparator>(v_mix, type) of src/include/TestClass.h, the       *)
(* harness's reference for ShowTop10: keep the orders of one type, then    *)
(* for i < min(10, size) swap every later order that ranks ahead of v[i]   *)
(* into position i, and return the first min(10, size) orders.             *)
(***************************************************************************)
EXTENDS TopK

\* std::swap(v[j], v[i]).
SwapAt(v, i, j) == [v EXCEPT ![i] = v[j], ![j] = v[i]]

\* Variant: the inner loop starts one position late (j = i + 2).
RECURSIVE SwapPassLate(_, _, _, _)
SwapPassLate(v, i, j, side) ==
    IF j + 1 > Len(v) THEN v
    ELSE SwapPassLate(IF Ahead(side, v[j + 1], v[i]) THEN SwapAt(v, i, j + 1) ELSE v,
                      i, j + 1, side)

\* for(int j = i + 1; j < v_size; ++j) if(comp(v[j], v[i])) swap: after it
\* v[i] ranks ahead of every later order.
RECURSIVE SwapPass(_, _, _, _)
SwapPass(v, i, j, side) ==
    IF j > Len(v) THEN v
    ELSE SwapPass(IF Ahead(side, v[j], v[i]) THEN SwapAt(v, i, j) ELSE v, i, j + 1, side)

\* for(int i = 0; i < r_size; ++i) { inner loop }   (1-based here)
RECURSIVE SelectPrefix(_, _, _, _)
SelectPrefix(v, i, r, side) ==
    IF i > r THEN v ELSE SelectPrefix(SwapPass(v, i, i + 1, side), i + 1, r, side)

\* The filter by type, r_size = min(10, v_size), and the returned prefix.
GetTop10(v_mix, type) ==
    LET v == SelectSeq(v_mix, LAMBDA o : o.type = type)
        r == IF K < Len(v) THEN K ELSE Len(v)
    IN  SubSeq(SelectPrefix(v, 1, r, type), 1, r)

=============================================================================

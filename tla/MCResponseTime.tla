--------------------------- MODULE MCResponseTime ---------------------------
(* The board's integers and some values of the module parameter.           *)
EXTENDS ResponseTime

MaxInt  == 2147483647
Factors == {0, 1, 1000, 7945, 7946, 100000}
Wrapped == {-MaxInt - 1, -1, 0, MaxInt}
==============================================================================

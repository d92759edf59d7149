------------------------------ MODULE MCConfig ------------------------------
(* An int of 8 values and an unsigned long long of 16: small enough that    *)
(* Numbers holds, on both sides, what fits, what wraps to a valid value,    *)
(* and what overflows.                                                      *)
EXTENDS Config

CONSTANTS a, b, t1, t2, t3, t4, d1, d2

MCNumbers == {-9, -1, 0, 1, 3, 9, 15, 17}

\* "a", " ,a b,", ",, b , a" and "a,a"
MCChars ==
  [t \in Texts |->
     CASE t = NoText -> <<>>
       [] t = t1 -> <<a>>
       [] t = t2 -> <<Space, Comma, a, Space, b, Comma>>
       [] t = t3 -> <<Comma, Comma, Space, b, Space, Comma, Space, a>>
       [] t = t4 -> <<a, Comma, a>>]
=============================================================================

---------------------------- MODULE MCWasmQuery -----------------------------
EXTENDS WasmQuery

CONSTANTS u1, u2, bad

MCUsers == {u1, u2}

\* one coin, held by u1
MCInitBalance == (u1 :> 1) @@ (u2 :> 0)
=============================================================================

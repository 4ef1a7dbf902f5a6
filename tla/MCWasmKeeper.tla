---------------------------- MODULE MCWasmKeeper ----------------------------
(***************************************************************************)
(* Small instance of WasmKeeper for TLC.  The id arithmetic is scaled      *)
(* down from 64-bit counters with a 32-bit shift to 3-bit counters with a  *)
(* 1-bit shift, so that the third instance of code 1 gets the address of   *)
(* the first instance of code 2, as a 2^32nd instance would in the code.   *)
(***************************************************************************)
EXTENDS WasmKeeper

CONSTANTS u1, u2, bad

MCUsers == {u1, u2}

\* u1 holds the one coin; u2 holds none
MCInitBalance == (u1 :> 1 @@ u2 :> 0)

====

---------------------------- MODULE MCMinDeposit ----------------------------
(* Every price list of up to MaxPrices methods and every multiple an       *)
(* IntBits-bit integer can hold, as the input of one getMinDeposit call.   *)
EXTENDS MinDeposit

CONSTANT MaxPrices

VARIABLES prices, multiple

Amount == 0 .. 2^IntBits - 1

Init ==
  /\ prices \in UNION {[1 .. n -> Amount] : n \in 0 .. MaxPrices}
  /\ multiple \in Amount \ {0}

Next == UNCHANGED <<prices, multiple>>

Spec == Init /\ [][Next]_<<prices, multiple>>

Result == GetMinDeposit(prices, multiple)

\* When getMinDeposit succeeds it returns the multiple of the sum of the
\* prices: the loop over the methods adds every price's coins.
MinDepositMatchesReference ==
  Result.status = "ok" => Result.value = MinDepositRef(prices, multiple)

\* getMinDeposit refuses a price list with ErrIntOverflow only when the
\* minimum deposit really cannot be held in an sdk.Int.
OverflowOnlyWhenTooWide ==
  Result.status = "overflow" => ~Fits(MinDepositRef(prices, multiple))

\* The overflow guard is enough: getMinDeposit either succeeds or returns
\* ErrIntOverflow, and never reaches a panicking Mul or Coins.Add.
MinDepositGuardSound == Result.status # "panic"
=============================================================================

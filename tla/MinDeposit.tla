----------------------------- MODULE MinDeposit -----------------------------
(***************************************************************************)
(* getMinDeposit of src/modules/service/internal/keeper/binding.go: the    *)
(* minimum deposit of a binding is the sum of its method prices times      *)
(* params.MinDepositMultiple.  sdk.Int is an IntBits-bit integer (255 in   *)
(* the SDK) whose Mul and Coins.Add panic on a result wider than that; a   *)
(* price is refused with ErrIntOverflow when its bit length plus the       *)
(* multiple's, less one, exceeds the width.  One coin denomination, so the *)
(* per-method coins all add into one amount.                               *)
(***************************************************************************)
EXTENDS Integers, Sequences, SequencesExt

CONSTANT IntBits

ASSUME IntBits >= 1

\* big.Int.BitLen
RECURSIVE BitLen(_)
BitLen(n) == IF n = 0 THEN 0 ELSE 1 + BitLen(n \div 2)

\* what an sdk.Int can hold without panicking
Fits(n) == BitLen(n) <= IntBits

\* the overflow guard, as written
TooWide(price, multiple) == BitLen(price) + BitLen(multiple) - 1 > IntBits

(* (mutant) minDeposit replaced by the last method's coins, not added to *)
RECURSIVE MinDepositFromNoAccumulate(_, _, _, _)
MinDepositFromNoAccumulate(prices, multiple, i, acc) ==
  IF i > Len(prices) THEN [status |-> "ok", value |-> acc]
  ELSE LET minInt == prices[i] * multiple
       IN CASE TooWide(prices[i], multiple)
                 -> [status |-> "overflow", value |-> acc]
            [] ~Fits(minInt)
                 -> [status |-> "panic", value |-> acc]
            [] OTHER -> MinDepositFromNoAccumulate(prices, multiple, i + 1, minInt)

(* (mutant) the guard without the "- 1" *)
RECURSIVE MinDepositFromStrictGuard(_, _, _, _)
MinDepositFromStrictGuard(prices, multiple, i, acc) ==
  IF i > Len(prices) THEN [status |-> "ok", value |-> acc]
  ELSE LET minInt == prices[i] * multiple
       IN CASE BitLen(prices[i]) + BitLen(multiple) > IntBits
                 -> [status |-> "overflow", value |-> acc]
            [] ~Fits(minInt) \/ ~Fits(acc + minInt)
                 -> [status |-> "panic", value |-> acc]
            [] OTHER -> MinDepositFromStrictGuard(prices, multiple, i + 1, acc + minInt)

(***************************************************************************)
(* The loop over the prices from index i with the sum so far acc: stops at *)
(* ErrIntOverflow, or panics in Mul or in Coins.Add.                       *)
(***************************************************************************)
RECURSIVE MinDepositFrom(_, _, _, _)
MinDepositFrom(prices, multiple, i, acc) ==
  IF i > Len(prices) THEN [status |-> "ok", value |-> acc]
  ELSE LET minInt == prices[i] * multiple
       IN CASE TooWide(prices[i], multiple)
                 -> [status |-> "overflow", value |-> acc]
            [] ~Fits(minInt) \/ ~Fits(acc + minInt)
                 -> [status |-> "panic", value |-> acc]
            [] OTHER -> MinDepositFrom(prices, multiple, i + 1, acc + minInt)

GetMinDeposit(prices, multiple) == MinDepositFrom(prices, multiple, 1, 0)

\* the reference: the multiple of the sum of the prices
MinDepositRef(prices, multiple) == multiple * FoldSeq(+, 0, prices)
=============================================================================

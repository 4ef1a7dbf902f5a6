--------------------------- MODULE ServiceBinding ---------------------------
(***************************************************************************)
(* Service bindings of src/modules/service/internal/keeper/binding.go: a   *)
(* provider binds to a service definition with prices and a deposit held   *)
(* by the deposit module account, updates, disables, re-enables the        *)
(* binding and reclaims the deposit after the refund delay.                *)
(*                                                                         *)
(* One coin denomination; getMinDeposit is the operator of MinDeposit.     *)
(* A handler that panics or returns an error leaves no state, since the    *)
(* SDK discards a failed message's writes, so each error return is a       *)
(* guard.  Binding type, QoS level and the chain ids are data no property  *)
(* looks at and are left out.                                              *)
(***************************************************************************)
EXTENDS MinDeposit, FiniteSets

CONSTANTS
  Providers,          \* provider accounts (model values)
  DefMethods,         \* defined service -> number of its methods
  PriceValues,        \* amounts a provider may ask per method
  DepositValues,      \* deposits a provider may attach
  InitBalance,        \* starting balance of each provider
  MinDepositMultiple, \* params.MinDepositMultiple
  RefundDelay,        \* params.ArbitrationTimeLimit + params.ComplaintRetrospect
  MaxTime             \* bound on the block time

ASSUME MinDepositMultiple >= 1 /\ RefundDelay >= 1

VARIABLES
  bindings,   \* binding key -> SvcBinding (GetServiceBindingKey)
  balance,    \* provider balances
  pool,       \* balance of the deposit module account (DepositAccName)
  blockTime   \* ctx.BlockHeader().Time

vars == <<bindings, balance, pool, blockTime>>

Services == DOMAIN DefMethods
BindingKeys == Services \X Providers

\* the prices a provider may list for a service, one per method
PriceLists(svc) == [1 .. DefMethods[svc] -> PriceValues]

\* the price lists a message may carry, of any length up to the largest
\* method count
PriceInputs ==
  UNION {[1 .. n -> PriceValues] : n \in 0 .. Max(Range(DefMethods))}

SvcBinding(prices, deposit, available, disableTime) ==
  [prices |-> prices, deposit |-> deposit, available |-> available,
   disableTime |-> disableTime]

\* the deposit covers the minimum of the prices, and computing it succeeds
MeetsMinDeposit(prices, deposit) ==
  LET m == GetMinDeposit(prices, MinDepositMultiple)
  IN  m.status = "ok" /\ deposit >= m.value

(***************************************************************************)
(* Operations.                                                             *)
(***************************************************************************)

\* AddServiceBinding: the definition exists, no binding yet, the deposit
\* meets the minimum, one price per method, SendCoinsFromAccountToModule
AddServiceBinding(svc, p, deposit, prices) ==
  /\ <<svc, p>> \notin DOMAIN bindings
  /\ MeetsMinDeposit(prices, deposit)
  /\ Len(prices) = DefMethods[svc]
  /\ balance[p] >= deposit
  /\ balance' = [balance EXCEPT ![p] = @ - deposit]
  /\ pool' = pool + deposit
  /\ bindings' = bindings @@ (<<svc, p>> :> SvcBinding(prices, deposit, TRUE, 0))
  /\ UNCHANGED blockTime

\* (mutant) the minimum deposit checked against the prices being replaced
UpdateServiceBindingStaleCheck(svc, p, deposit, prices) ==
  /\ <<svc, p>> \in DOMAIN bindings
  /\ prices # << >> => Len(prices) = DefMethods[svc]
  /\ balance[p] >= deposit
  /\ LET old == bindings[<<svc, p>>]
         new == [old EXCEPT !.prices = IF prices # << >> THEN prices ELSE @,
                            !.deposit = @ + deposit]
     IN /\ new.available => MeetsMinDeposit(old.prices, new.deposit)
        /\ bindings' = [bindings EXCEPT ![<<svc, p>>] = new]
  /\ balance' = [balance EXCEPT ![p] = @ - deposit]
  /\ pool' = pool + deposit
  /\ UNCHANGED blockTime

\* (mutant) new prices taken without validateMethodPrices
UpdateServiceBindingNoPriceCount(svc, p, deposit, prices) ==
  /\ <<svc, p>> \in DOMAIN bindings
  /\ balance[p] >= deposit
  /\ LET old == bindings[<<svc, p>>]
         new == [old EXCEPT !.prices = IF prices # << >> THEN prices ELSE @,
                            !.deposit = @ + deposit]
     IN /\ new.available => MeetsMinDeposit(new.prices, new.deposit)
        /\ bindings' = [bindings EXCEPT ![<<svc, p>>] = new]
  /\ balance' = [balance EXCEPT ![p] = @ - deposit]
  /\ pool' = pool + deposit
  /\ UNCHANGED blockTime

\* UpdateServiceBinding: new prices (if any) replace the old ones, the
\* deposit is added and sent; an available binding must still meet the
\* minimum deposit of its prices
UpdateServiceBinding(svc, p, deposit, prices) ==
  /\ <<svc, p>> \in DOMAIN bindings
  /\ prices # << >> => Len(prices) = DefMethods[svc]
  /\ balance[p] >= deposit
  /\ LET old == bindings[<<svc, p>>]
         new == [old EXCEPT !.prices = IF prices # << >> THEN prices ELSE @,
                            !.deposit = @ + deposit]
     IN /\ new.available => MeetsMinDeposit(new.prices, new.deposit)
        /\ bindings' = [bindings EXCEPT ![<<svc, p>>] = new]
  /\ balance' = [balance EXCEPT ![p] = @ - deposit]
  /\ pool' = pool + deposit
  /\ UNCHANGED blockTime

\* Disable: an available binding becomes unavailable at the block time
Disable(svc, p) ==
  /\ <<svc, p>> \in DOMAIN bindings
  /\ bindings[<<svc, p>>].available
  /\ bindings' = [bindings EXCEPT ![<<svc, p>>].available = FALSE,
                                  ![<<svc, p>>].disableTime = blockTime]
  /\ UNCHANGED <<balance, pool, blockTime>>

\* Enable: an unavailable binding with the added deposit meets the minimum
Enable(svc, p, deposit) ==
  /\ <<svc, p>> \in DOMAIN bindings
  /\ ~bindings[<<svc, p>>].available
  /\ LET b == bindings[<<svc, p>>]
     IN  MeetsMinDeposit(b.prices, b.deposit + deposit)
  /\ balance[p] >= deposit
  /\ balance' = [balance EXCEPT ![p] = @ - deposit]
  /\ pool' = pool + deposit
  /\ bindings' = [bindings EXCEPT ![<<svc, p>>].deposit = @ + deposit,
                                  ![<<svc, p>>].available = TRUE,
                                  ![<<svc, p>>].disableTime = 0]
  /\ UNCHANGED blockTime

\* (mutant) the deposit is refunded but left on the binding
RefundDepositNoReset(svc, p) ==
  /\ <<svc, p>> \in DOMAIN bindings
  /\ LET b == bindings[<<svc, p>>]
     IN  /\ ~b.available
         /\ b.deposit # 0
         /\ blockTime >= b.disableTime + RefundDelay
         /\ pool >= b.deposit
         /\ balance' = [balance EXCEPT ![p] = @ + b.deposit]
         /\ pool' = pool - b.deposit
  /\ UNCHANGED <<bindings, blockTime>>

\* RefundDeposit: an unavailable binding with a deposit, once the refund
\* delay since it was disabled has passed, gets its deposit back
RefundDeposit(svc, p) ==
  /\ <<svc, p>> \in DOMAIN bindings
  /\ LET b == bindings[<<svc, p>>]
     IN  /\ ~b.available
         /\ b.deposit # 0
         /\ blockTime >= b.disableTime + RefundDelay
         /\ pool >= b.deposit
         /\ balance' = [balance EXCEPT ![p] = @ + b.deposit]
         /\ pool' = pool - b.deposit
  /\ bindings' = [bindings EXCEPT ![<<svc, p>>].deposit = 0]
  /\ UNCHANGED blockTime

\* the deposits the bindings record
DepositSum == FoldFunction(+, 0, [k \in DOMAIN bindings |-> bindings[k].deposit])

\* RefundDeposits: every binding's deposit is sent back to its provider,
\* in one step; the bindings are not written
RefundDeposits ==
  /\ bindings # << >>
  /\ LET owed(q) == FoldFunctionOnSet(+, 0, [k \in DOMAIN bindings |-> bindings[k].deposit],
                                     {k \in DOMAIN bindings : k[2] = q})
     IN  /\ pool >= DepositSum
         /\ balance' = [p \in Providers |-> balance[p] + owed(p)]
         /\ pool' = pool - DepositSum
  /\ UNCHANGED <<bindings, blockTime>>

\* a new block
Tick ==
  /\ blockTime < MaxTime
  /\ blockTime' = blockTime + 1
  /\ UNCHANGED <<bindings, balance, pool>>

(***************************************************************************)
(* The binding commands of iritacli (client/cli/tx.go): each signs with    *)
(* --from, which is the provider of the binding, and carries the deposit   *)
(* and the prices parsed from its flags.                                   *)
(***************************************************************************)

\* bind: --prices is required, --deposit parsed by ParseCoins
SvcBind(p) ==
  \E svc \in Services, d \in DepositValues, prices \in PriceInputs \ {<< >>} :
    AddServiceBinding(svc, p, d, prices)

\* update-binding: without --prices the list is empty, without --deposit
\* the deposit is empty
SvcBindUpdate(p) ==
  \E svc \in Services, d \in DepositValues, prices \in PriceInputs :
    UpdateServiceBinding(svc, p, d, prices)

SvcDisable(p) == \E svc \in Services : Disable(svc, p)

SvcEnable(p) == \E svc \in Services, d \in DepositValues : Enable(svc, p, d)

SvcRefundDeposit(p) == \E svc \in Services : RefundDeposit(svc, p)

Init ==
  /\ bindings = << >>
  /\ balance = [p \in Providers |-> InitBalance]
  /\ pool = 0
  /\ blockTime = 0

Next ==
  \/ \E p \in Providers :
        \/ SvcBind(p)
        \/ SvcBindUpdate(p)
        \/ SvcDisable(p)
        \/ SvcEnable(p)
        \/ SvcRefundDeposit(p)
  \/ Tick

Spec == Init /\ [][Next]_vars

\* the same, with the bulk refund enabled
NextWithRefundAll == Next \/ RefundDeposits
SpecWithRefundAll == Init /\ [][NextWithRefundAll]_vars

(***************************************************************************)
(* Properties.                                                             *)
(***************************************************************************)

TypeOK ==
  /\ DOMAIN bindings \subseteq BindingKeys
  /\ \A k \in DOMAIN bindings :
       /\ bindings[k].deposit \in Nat
       /\ bindings[k].available \in BOOLEAN
       /\ bindings[k].disableTime \in 0 .. MaxTime
       /\ bindings[k].prices \in PriceLists(k[1])
  /\ balance \in [Providers -> Nat]
  /\ pool \in Nat
  /\ blockTime \in 0 .. MaxTime

\* The deposit module account holds exactly the deposits the bindings
\* record: no sequence of binds, updates, enables and refunds
\* (SendCoinsFromAccountToModule / SendCoinsFromModuleToAccount in
\* binding.go) pays a deposit out twice or keeps coins no binding claims.
DepositsBacked == pool = DepositSum

\* Every available binding holds at least the minimum deposit of its
\* current prices (getMinDeposit), whatever updates of prices and deposit
\* and disable/enable cycles led to it.
AvailableMeetsMinDeposit ==
  \A k \in DOMAIN bindings :
    bindings[k].available => MeetsMinDeposit(bindings[k].prices, bindings[k].deposit)

=============================================================================

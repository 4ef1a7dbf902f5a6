----------------------------- MODULE WasmQuery ------------------------------
(***************************************************************************)
(* QuerySmart of src/modules/wasm/internal/keeper/keeper.go on the state   *)
(* of the contract keeper: a query runs between transactions, on a fresh   *)
(* gas meter of smartQueryGasLimit, resolves the contract with             *)
(* contractInstance, gives the VM the budget gasForContract computes from  *)
(* that meter and charges what it used with consumeGas.  A query writes    *)
(* nothing.  queryBudget and queryConsumed observe the query of the last   *)
(* step and are 0 after any other step.                                    *)
(***************************************************************************)
EXTENDS WasmKeeper

CONSTANT QueryGasLimit  \* smartQueryGasLimit (3_000_000)

\* the fresh meter pays for the two contractInstance reads
ASSUME QueryGasLimit >= 2 * ReadCost

VARIABLES
  queryBudget,    \* VM gas given to the last query's wasmer.Query
  queryConsumed   \* gas on the last query's meter when it returned

qvars == <<queryBudget, queryConsumed>>
allVars == <<vars, qvars>>

\* QuerySmart(contractAddr, req)
QuerySmart(addr) ==
  /\ Idle
  /\ LET found == addr \in DOMAIN contractInfo
         g1 == ContractInstanceGas(found)
         budget == GasForContract(QueryGasLimit, g1)
     IN \/ /\ ~found
           /\ queryBudget' = 0
           /\ queryConsumed' = g1
        \/ /\ found
           /\ \E ok \in BOOLEAN, used \in VMGasChoices(budget) :
                /\ queryBudget' = budget
                /\ queryConsumed' = IF ok THEN g1 + ConsumeGas(used) ELSE g1
  /\ UNCHANGED vars

QInit == Init /\ queryBudget = 0 /\ queryConsumed = 0

QNext ==
  \/ Next /\ queryBudget' = 0 /\ queryConsumed' = 0
  \/ \E addr \in ExecTargets : QuerySmart(addr)

QSpec == QInit /\ [][QNext]_allVars

\* the keeper's transactions run to the end (FairSpec); queries are chosen
\* by clients and are not assumed
QRunning == Running /\ queryBudget' = 0 /\ queryConsumed' = 0

FairQSpec == QSpec /\ WF_allVars(QRunning)

\* keeper.go:43 documents queryGasLimit as "the max wasm gas that can be
\* spent on executing a query with a contract": the VM budget of a smart
\* query is at most queryGasLimit.
QueryWasmGasWithinLimit == queryBudget <= QueryGasLimit
=============================================================================

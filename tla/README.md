# TLA+ models of the IRITA wasm and service keepers

This directory holds TLA+ specifications of the state-changing code under
`src/`, the TLC configurations that check them, and `PROJECT.json`, which
records each run, each mutant, the map from every definition to its source
lines, the findings and the hazards.

## The system

The code under `src/` has two modules that change chain state. Everything
else is CLI or query code.

* **wasm contract keeper** (`src/modules/wasm/internal/keeper/keeper.go`).
  * `Create` stores uploaded code under the next code id.
  * `Instantiate` derives an address from `codeID<<32 + instanceID`. It refuses
    an address that already has an account, moves the deposit, looks up the
    code, runs the VM on the contract's prefix store, dispatches the messages
    the VM returns, and only then stores the `ContractInfo`.
  * `Execute` resolves the contract (`contractInstance`, two store reads),
    moves the coins, runs the VM and dispatches the messages.
  * `dispatchMessage` handles three message kinds.
    * A send goes through `convertCosmosSendMsg` and `handleSdkMessage`, which
      checks the signer.
    * A contract call re-enters `Execute` on the same gas meter.
    * An opaque or unrecognised message panics.
  * `gasForContract` and `consumeGas` convert between SDK gas and VM gas
    (factor 100, ceiling `MaxGas`).
  * `QuerySmart` runs the VM read-only on a fresh meter of `queryGasLimit`.
* **service binding keeper** (`src/modules/service/internal/keeper/binding.go`).
  * A provider binds to a service definition with one price per method and a
    deposit of at least `sum(prices) * MinDepositMultiple` (`getMinDeposit`).
    The deposit goes to the deposit module account.
  * The provider can then update the binding, disable it, re-enable it with
    enough deposit, and reclaim the deposit once
    `ArbitrationTimeLimit + ComplaintRetrospect` has passed since it was
    disabled.
  * `RefundDeposits` pays out every binding's deposit at once.
  * The CLI commands in `src/modules/service/client/cli/tx.go` (bind,
    update-binding, disable, enable, refund-deposit) are how a provider,
    signing with `--from`, sends these messages.

* **service method conversions.**
  * `MethodToMethodProperty` (`src/modules/service/internal/types/parser.go`)
    turns a method of an IDL file into a `MethodProperty`. The id is
    `int16(index)`. `output_privacy` and `output_cached` default to
    `NoPrivacy` and `NoCached` and are parsed when present.
  * The `call` command (`GetCmdSvcCall` in `cli/tx.go`) builds a service
    request whose method id is `int16` of the `--method-id` flag.
  * The model wraps a bad `output_cached` value in
    `ErrInvalidOutputPrivacyEnum`, as the code does. Line 40 repeats the
    error of line 34, so the error blames the wrong attribute
    (`service_method_error`).

The two keepers do not interact in this repository. Each one interacts with
the bank (coin transfers), and the wasm keeper interacts with the untrusted VM
and with the message router.

## Modules

| module | models | state | actions |
|---|---|---|---|
| `WasmKeeper` | keeper.go: Create, Instantiate, Execute, dispatch, gas bridge, address derivation | id counters, `codeInfo`, `contractInfo`, balances, accounts, the transaction's gas meter, an explicit call stack of frames awaiting dispatch, the transaction's snapshot, `instanceAt` (which instance ran on each prefix store) | `Create`, `Instantiate`, `Execute`, `Dispatch` (send / contract / panic), `ReturnInstantiate`, `ReturnExecute`, `ReturnToDispatcher` |
| `ContractRegistry` | what the keeper promises of its registry (spec §3, §4.1, §4.3) | the set of code ids, the map from addresses to code ids | `Upload` (Create's store write), `Register` (Instantiate's store write) |
| `WasmQuery` | keeper.go: QuerySmart, composed with `WasmKeeper` | the above, plus the last query's VM budget and meter | the keeper's actions, plus `QuerySmart` |
| `MinDeposit` | binding.go: getMinDeposit, with its guard and the panicking sdk.Int `Mul`/`Add` | none (operators) | `GetMinDeposit`, a RECURSIVE loop; `MinDepositRef` is the reference |
| `ServiceBinding` | binding.go: the binding operations; cli/tx.go: the commands that send them | bindings, provider balances, deposit pool, block time | `SvcBind`, `SvcBindUpdate`, `SvcDisable`, `SvcEnable`, `SvcRefundDeposit` (each wraps the keeper method it calls), `RefundDeposits`, `Tick` |
| `ServiceMethods` | parser.go: MethodToMethodProperty; cli/tx.go: the call command | none (operators) | `MethodToMethodProperty`, `SvcCall`; `MethodPropertyRef` is the reference |
| `MC*` | model values and small definitions for TLC | | |

How `WasmKeeper` corresponds to the code:

* **Recursion.** The Go code recurses: `Execute` → `dispatchMessages` →
  `Execute`. The model uses a stack instead.
  * A VM call that succeeds pushes a frame holding the messages it returned.
  * `Dispatch` handles the first message of the top frame.
  * A contract message runs the nested `Execute` up to its own VM call and
    pushes that call's frame.
  * When a frame has no messages left, the return actions pop it, doing what
    the Go code does after `dispatchMessages` returns.
* **The VM is a nondeterministic oracle.** A call may succeed or fail, uses 0,
  `GasMultiplier-1` or its whole budget, and emits up to `MaxMsgs` messages.
  * Possible messages: a send from the contract or from a user, to a user, to
    the contract itself or to a malformed address; a call of any instance, of itself or of a
    malformed address; an opaque message; an empty message.
* **Failure semantics (spec §5).**
  * An error return leaves the effects already applied: a transferred
    deposit, consumed counters, and VM writes to the prefix store.
  * A panic aborts the transaction. The panics are an out-of-gas store read,
    an opaque or unknown message, and the fall-through after a nested call.
    The abort restores the snapshot taken when the transaction began.
* **Abstractions.**
  * The bytes a contract stores are replaced by `instanceAt`, the set of
    instance ids whose VM ran on each prefix store. Storage isolation is a
    property of that set.
  * The address hash (`addrFromUint64`) is injective on ids, so the model uses
    the id itself as the address.
  * One coin denomination.
  * Message payloads, creators and code hashes are left out.

How `ServiceBinding` corresponds to the code:

* It takes the semantics of the message handlers, which are how the keeper is
  reached: a message that errors or panics leaves no writes. So each error
  return of the keeper is a guard of its action.
* `UpdateServiceBinding` is modelled as the whole method: new prices if given,
  deposit added, coins sent, minimum-deposit check against the (new) prices.

## Runs

| run | cfg | expect | what it shows |
|---|---|---|---|
| wasm_collisions | `MCWasmKeeper.cfg` | pass | Counters are scaled from 64/32 bits to 3/1 bits, so the third instance of code 1 derives the address of the first instance of code 2. The `AccountExists` check still keeps every prefix store to one instance (`DistinctInstancePrefixes`). The same instance checks that the keeper refines `ContractRegistry` (`RegistryRefined`, see Refinement). Every keeper step, including errors, panics that restore the snapshot and the address wrap, either leaves the registry alone or is an `Upload` of the next code id or a `Register` of a fresh address. |
| wasm_dispatch | `MCWasmKeeperDispatch.cfg` | pass | Contracts emit up to two messages of every kind, recursively. Three things hold. The shared SDK meter never goes past its limit after `consumeGas` (`GasRoundTrip`). The nesting depth stays within what the gas pays for (`RecursionBoundedByGas`). No step debits an account other than the signer or the contract whose message is dispatched (`NoImpersonation`). While an Instantiate runs, no nested Execute runs the contract being instantiated (`InitNotReentered`). Instantiate stores the ContractInfo only after it dispatches the init messages, so an init message that calls the new contract fails NotFound. If the store came first, that message would re-enter a contract whose init has not finished. |
| wasm_call_return | `MCWasmKeeperReturn.cfg` | violation | `CallReturnsToCaller`: after a nested Execute succeeds, control should return to the caller's next message. TLC finds a contract whose init message calls another contract. The call succeeds, and the transaction then panics at keeper.go:322. |
| wasm_query | `MCWasmQuery.cfg` | pass | Under `FairQSpec`, every started transaction ends (`TxEnds`, `~Idle ~> Idle`), however contracts send to themselves, call each other and call themselves, and whatever queries run between transactions. |
| service_method_error | `MCServiceMethodError.cfg` | violation | `ErrorNamesFailingAttribute`: an unknown `output_cached` value is wrapped in `ErrInvalidOutputPrivacyEnum` (parser.go:40), the other attribute's error. |
| wasm_query_budget | `MCWasmQueryBudget.cfg` | violation | `QueryWasmGasWithinLimit`: the comment at keeper.go:43 says `queryGasLimit` is the maximum wasm gas of a query. The VM actually gets `GasMultiplier` times that. |
| service_bindings | `MCServiceBinding.cfg` | pass | The deposit account always equals the sum of recorded deposits (`DepositsBacked`). Every available binding meets the minimum deposit of its current prices (`AvailableMeetsMinDeposit`). |
| service_refund_all | `MCServiceBindingRefundAll.cfg` | violation | `RefundDeposits` empties the deposit account but leaves every deposit recorded, which breaks `DepositsBacked` in two steps. |
| service_methods | `MCServiceMethods.cfg` | pass | The inputs are every method index below 3 and every attribute map with known, unknown or missing values. `MethodToMethodProperty` succeeds exactly when the reference does, and it then yields the index as the id and the given or default enums (`MethodPropertyMatchesReference`). |
| service_call_method_id | `MCServiceCallMethodId.cfg` | violation | `CallTargetsNamedMethod`: `int16(viper.GetInt(...))` (tx.go:331) wraps an out-of-range `--method-id`. At 4 bits 17 becomes 1; at 16 bits 65537 becomes 1. |
| min_deposit | `MCMinDeposit.cfg` | pass | For every list of up to 2 prices and every multiple of a 4-bit integer, `getMinDeposit` equals the reference sum whenever it succeeds, and it returns `ErrIntOverflow` only when the result cannot be held. |
| min_deposit_guard | `MCMinDepositGuard.cfg` | violation | `MinDepositGuardSound`: price 3 (2 bits) times multiple 6 (3 bits) passes the guard (2+3-1 = 4 bits), but the product 18 needs 5 bits, so `Mul` panics. At 255 bits the same off-by-one holds. |

Each property of a passing run has a mutant in `PROJECT.json`. A mutant is a
definition of the module with one plausible coding error, and TLC finds the
property violated when the mutant replaces the original. The errors are:

* a dropped `AccountExists` check;
* Instantiate storing the ContractInfo before it dispatches the init
  messages;
* `Create` storing its CodeInfo under the counter's new value (it breaks
  the refinement);
* a `dispatchMessages` loop that does not move past the message it handled;
* `gasForContract` off by one;
* `contractInstance` reads not charged;
* no signer check in `handleSdkMessage`;
* Instantiate without its code lookup;
* a refund that does not clear the deposit;
* the minimum-deposit check against the old prices;
* new prices taken without `validateMethodPrices`;
* `MethodToMethodProperty` parsing an attribute that is absent;
* a `getMinDeposit` loop that overwrites instead of adding;
* an overflow guard one bit too strict.

## Bounds

* **Wasm.**
  * Two users; one coin held by one of them, so sends can succeed and fail.
  * Up to 2 codes and 3 instances, or 1 code and 2 instances with two
    messages per VM call in the dispatch run.
  * Gas limit 4, read cost 1, multiplier 2. With these a chain of nested
    calls runs out of gas at depth 2, so both the out-of-gas abort and a
    successful nested call happen.
  * The query run, which also checks liveness, uses 1 code, 2 instances
    and one message per VM call (6,714 states). Self-calls, calls between
    two contracts and nested calls all happen. Two messages per call would
    make the liveness check run past 10 minutes.
  * Counters of 3 bits with a shift of 1, so an address collision happens
    within 3 instances. This is the 2^32-instance case of the code at a size
    TLC can reach.
* **Service.**
  * Two providers; services of 1 and 2 methods.
  * Prices {1, 2}, multiple 2, deposits {0, 2, 4}, balances 4.
  * Refund delay 1, time up to 2.
  * These bounds reach binding, raising prices, disabling, refunding, and
    re-enabling with and without enough deposit.
* **Method ids.** Ids are scaled from 16 bits to 4. Flags run from -1 to
  2^4+1, which covers a negative id, the whole range and both wrap points.
  Method indices stay below 3, well inside the range, as they do for any
  real IDL file.
* **getMinDeposit.** `sdk.Int` is scaled from 255 bits to 4 bits. The guard
  and the panics depend only on bit lengths, so the off-by-one is the same at
  both widths.

## Fairness

Users choose which transactions to send, so nothing is assumed fair about
`Create`, `Instantiate` or `Execute`. Once a transaction has started, though,
the keeper runs it synchronously to the end in one call (spec §5): nothing can
interleave with it, and the dispatch loop and the returns are plain Go code.
`FairSpec` therefore assumes weak fairness of `Running`, which is the
disjunction of `Dispatch`, `ReturnInstantiate`, `ReturnExecute` and
`ReturnToDispatcher`. `FairQSpec` (in `WasmQuery`) assumes the same for
the spec with queries, and `wasm_query` checks `TxEnds` under it. The service binding model
has no step the code takes by itself, so it checks no liveness property.

## Refinement

`ContractRegistry` has no transactions, gas or VM. Code ids are the set
`1..n` and grow by the next id. An address is registered once, under an
existing code, and then keeps that code. `WasmKeeper` defines `Registry`
as an instance of it, with its `codeInfo` and `contractInfo` as the two
variables. `RegistryRefined` is that instance's `Spec`, checked as a temporal
property. Snapshot restores keep the registry unchanged, because a transaction
writes `codeInfo` and `contractInfo` only in its last step.

## Not modelled

* `QueryRaw`, `GetContractInfo`, `ListContractInfo`, `GetContractState`,
  `GetByteCode` and `NewKeeper`. These are reads or set-up, and the model
  does not keep storage bytes.
* The service querier. It is read-only JSON over the binding store, and
  everything except the binding queries reads request, response and fee
  stores whose keeper is not in this repository.
* `ParseMethods`, an empty TODO that returns nothing.
* `ValidateBasic` of the request message and the enum parsers
  `OutputPrivacyEnumFromString` and `OutputCachedEnumFromString`. Their code
  is outside this repository; the enum parsers are taken to accept exactly
  their enum names.
* The query CLI, the guardian CLI and the CLI integration test, which are
  I/O.
* The service definition, request, response and fee handling that the other
  CLI commands reach. Their keeper code is not in this repository.

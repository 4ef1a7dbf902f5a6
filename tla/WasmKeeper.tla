----------------------------- MODULE WasmKeeper -----------------------------
(***************************************************************************)
(* The contract keeper of src/modules/wasm/internal/keeper/keeper.go:      *)
(* code upload (Create), Instantiate, Execute, message dispatch and the    *)
(* gas bridge between the SDK gas meter and the VM's gas.                  *)
(*                                                                         *)
(* Execution is synchronous and recursive: a VM call returns messages,     *)
(* dispatchMessages handles them in order and a contract message re-enters *)
(* Execute.  The recursion is an explicit call stack: each action is the   *)
(* part of a handler that runs between two calls, so a frame is pushed     *)
(* where the Go code calls into Execute and popped where it returns.       *)
(* The VM is untrusted and opaque: its result (success, gas used, storage  *)
(* write, emitted messages) is chosen nondeterministically.                *)
(*                                                                         *)
(* Failure semantics are those of the keeper (spec section 5): an error    *)
(* return leaves the effects already applied (deposit, storage writes,     *)
(* counters); a panic (out of gas, opaque or unknown message) aborts the   *)
(* whole transaction, which restores the state of its start.               *)
(***************************************************************************)
EXTENDS Integers, Sequences, SequencesExt, FiniteSets, TLC

CONSTANTS
  Users,          \* externally owned accounts (model values)
  Amounts,        \* coin amounts a caller attaches (one denomination)
  InitBalance,    \* starting balance of each user: a function on Users
  MaxCodes,       \* bound on Create calls
  MaxInstances,   \* bound on Instantiate calls
  CounterBits,    \* width of the id counters and of the contract id (64)
  CodeShift,      \* bits the code id is shifted by in the contract id (32)
  GasMultiplier,  \* VM gas per SDK gas (GasMultiplier = 100)
  MaxGas,         \* absolute VM gas ceiling (MaxGas = 900_000_000)
  GasLimit,       \* SDK gas limit of a transaction
  ReadCost,       \* SDK gas charged by the gas KVStore for one Get
  MaxMsgs,        \* most messages one VM call emits
  BadAddr         \* a string that is not a valid bech32 address

ASSUME CodeShift < CounterBits
ASSUME BadAddr \notin Users
ASSUME GasMultiplier >= 1 /\ ReadCost >= 1 /\ GasLimit >= ReadCost

VARIABLES
  nextCodeID,     \* value stored under KeyLastCodeID (nil reads as 1)
  nextInstanceID, \* value stored under KeyLastInstanceID
  codeInfo,       \* code ids with a CodeInfo         (0x01 | codeID)
  contractInfo,   \* address -> its ContractInfo's codeID (0x02 | address);
                  \* creators, code hashes and init messages are abstracted
  balance,        \* bank balances
  accounts,       \* addresses that have an account
  consumed,       \* SDK gas consumed by the running transaction
  stack,          \* frames of Instantiate/Execute calls awaiting dispatch
  signer,         \* signer of the running transaction
  outcome,        \* "running" or how the last transaction ended
  snapshot,       \* persistent state at the start of the transaction
  instanceAt      \* address -> instance ids whose VM ran on its prefix
                  \* store (0x03 | address); the stored bytes are abstracted

persistent == <<nextCodeID, nextInstanceID, codeInfo, contractInfo,
                balance, accounts, instanceAt>>
vars == <<persistent, consumed, stack, signer, outcome, snapshot>>

Word == 2 ^ CounterBits
ContractAddrs == 0 .. (Word - 1)
Addrs == Users \cup ContractAddrs
Total == SumFunction(InitBalance)

(***************************************************************************)
(* Messages a contract may emit (wasmTypes.CosmosMsg), relative to the     *)
(* emitting contract: a send from itself or from a user, to a user, to     *)
(* itself or to a malformed address; a call of a contract; opaque; and a *)
(* message with no field set.                                              *)
(***************************************************************************)
SendMsg(from, to) == [type |-> "send", from |-> from, to |-> to, amount |-> 1]
CallMsg(t) == [type |-> "contract", target |-> t]
OpaqueMsg == [type |-> "opaque"]
UnknownMsg == [type |-> "unknown"]

Emittable(self) ==
  {SendMsg(f, t) : f \in {self} \cup Users, t \in Users \cup {self, BadAddr}}
  \cup {CallMsg(t) : t \in DOMAIN contractInfo \cup {self, BadAddr}}
  \cup {OpaqueMsg, UnknownMsg}

MsgSeqs(self) == UNION {[1 .. n -> Emittable(self)] : n \in 0 .. MaxMsgs}

(***************************************************************************)
(* Gas bridge: gasForContract and consumeGas.                              *)
(***************************************************************************)
GasForContractOffByOne(limit, used) ==
  LET remaining == (limit - used + 1) * GasMultiplier
  IN  IF remaining > MaxGas THEN MaxGas ELSE remaining

\* the VM budget left by a meter with this limit and consumption
GasForContract(limit, used) ==
  LET remaining == (limit - used) * GasMultiplier
  IN  IF remaining > MaxGas THEN MaxGas ELSE remaining

ConsumeGas(vmGas) == vmGas \div GasMultiplier

\* gas the VM reports; a VM that would exceed its budget fails instead
VMGasChoices(budget) == {g \in {0, GasMultiplier - 1, budget} : g <= budget}

(***************************************************************************)
(* generateContractAddress: codeID<<32 + instanceID in a uint64, then the  *)
(* address hash, which is injective on ids and so left as the id itself.   *)
(***************************************************************************)
ContractAddress(codeID, instanceID) ==
  (codeID * 2 ^ CodeShift + instanceID) % Word

AutoIncrement(id) == (id + 1) % Word

\* bank SendCoins fails on insufficient funds
CanSend(from, amt) == balance[from] >= amt

\* a call awaiting its dispatch; an Execute frame has code id 0
Frame(kind, addr, codeID, msgs) ==
  [kind |-> kind, contract |-> addr, codeID |-> codeID, msgs |-> msgs]

\* store.Set on a key: adds the key or overwrites its value
Put(f, k, v) == [x \in DOMAIN f \cup {k} |-> IF x = k THEN v ELSE f[x]]

Top == stack[Len(stack)]
Idle == stack = << >>

\* the persistent components an operation may have changed before it ends
Cur == [nextInstanceID |-> nextInstanceID, balance |-> balance,
        accounts |-> accounts, instanceAt |-> instanceAt]

Snap == [nextCodeID |-> nextCodeID, codeInfo |-> codeInfo,
         contractInfo |-> contractInfo, nextInstanceID |-> nextInstanceID,
         balance |-> balance, accounts |-> accounts, instanceAt |-> instanceAt]

Written(p) ==
  /\ nextInstanceID' = p.nextInstanceID
  /\ balance' = p.balance
  /\ accounts' = p.accounts
  /\ instanceAt' = p.instanceAt

Apply(p) == Written(p) /\ UNCHANGED <<nextCodeID, codeInfo, contractInfo>>

\* bank SendCoins applied to p: debit, credit, and both accounts exist after
Transfer(p, from, to, amt) ==
  [p EXCEPT !.balance = [p.balance EXCEPT ![from] = @ - amt, ![to] = @ + amt],
            !.accounts = p.accounts \cup {from, to}]

\* the transaction ends; its gas meter and snapshot are dropped
EndTx(why) ==
  /\ stack' = << >>
  /\ outcome' = why
  /\ consumed' = 0
  /\ snapshot' = "none"

\* an error return: the call chain unwinds, the effects in p stay
Fail(p) == Apply(p) /\ EndTx("err")

\* a panic: the transaction aborts and the state s of its start is restored
Abort(why, s) ==
  /\ nextCodeID' = s.nextCodeID
  /\ codeInfo' = s.codeInfo
  /\ contractInfo' = s.contractInfo
  /\ Written(s)
  /\ EndTx(why)

Panics == {"oog_store", "panic_msg", "panic_unknown"}

\* a transaction signed by u starts
BeginTx(u) == Idle /\ signer' = u

(***************************************************************************)
(* The VM call of Instantiate (kind "inst", instance id) or Execute (kind  *)
(* "exec") on the prefix store of addr, with the SDK meter at g and the    *)
(* effects p already applied; then consumeGas and, on success, a frame     *)
(* whose messages dispatchMessages will handle.  s is the transaction's    *)
(* start.  The VM's writes to the prefix store stay even when it fails.    *)
(* ConsumeGas adds to the meter and panics once it is over its limit; the  *)
(* meter is left over the limit here, which GasRoundTrip forbids.          *)
(***************************************************************************)
\* (mutant) Instantiate stores the ContractInfo once the VM succeeds, before
\* it dispatches the init messages
VMCallStoreFirst(kind, addr, codeID, id, g, base, s, p) ==
  \E ok \in BOOLEAN, used \in VMGasChoices(GasForContract(GasLimit, g)),
     msgs \in MsgSeqs(addr) :
    LET ran == IF kind = "inst"
               THEN [p EXCEPT !.instanceAt[addr] = @ \cup {id}]
               ELSE p
        g2 == g + ConsumeGas(used)
    IN \/ /\ ~ok
          /\ Fail(ran)
       \/ /\ ok
          /\ Written(ran)
          /\ UNCHANGED <<nextCodeID, codeInfo>>
          /\ contractInfo' = IF kind = "inst" THEN Put(contractInfo, addr, codeID)
                                               ELSE contractInfo
          /\ consumed' = g2
          /\ stack' = Append(base, Frame(kind, addr, codeID, msgs))
          /\ outcome' = "running"
          /\ snapshot' = s

VMCall(kind, addr, codeID, id, g, base, s, p) ==
  \E ok \in BOOLEAN, used \in VMGasChoices(GasForContract(GasLimit, g)),
     msgs \in MsgSeqs(addr) :
    LET ran == IF kind = "inst"
               THEN [p EXCEPT !.instanceAt[addr] = @ \cup {id}]
               ELSE p
        g2 == g + ConsumeGas(used)
    IN \/ /\ ~ok
          /\ Fail(ran)
       \/ /\ ok
          /\ Apply(ran)
          /\ consumed' = g2
          /\ stack' = Append(base, Frame(kind, addr, codeID, msgs))
          /\ outcome' = "running"
          /\ snapshot' = s

(***************************************************************************)
(* Execute(contractAddress, caller, coins): contractInstance reads the     *)
(* ContractInfo and then the CodeInfo (each Get charged on the meter),     *)
(* SendCoins moves the coins, then the VM runs.                            *)
(***************************************************************************)
\* one read on a missing contract, two (ContractInfo, CodeInfo) otherwise
ContractInstanceGasUnmetered(found) == 0
ContractInstanceGas(found) == (IF found THEN 2 ELSE 1) * ReadCost

\* contractInstance: the ContractInfo under the address is stored
ContractFound(addr) == addr \in DOMAIN contractInfo

CallExecute(addr, caller, coins, g, base, s) ==
  LET found == ContractFound(addr)
      g1 == g + ContractInstanceGas(found)
  IN \/ /\ g1 > GasLimit
        /\ Abort("oog_store", s)
     \/ /\ g1 <= GasLimit
        /\ ~found
        /\ Fail(Cur)
     \/ /\ g1 <= GasLimit
        /\ found
        /\ ~CanSend(caller, coins)
        /\ Fail(Cur)
     \/ /\ g1 <= GasLimit
        /\ found
        /\ CanSend(caller, coins)
        /\ VMCall("exec", addr, 0, 0, g1, base, s,
                  Transfer(Cur, caller, addr, coins))

(***************************************************************************)
(* Operations.                                                             *)
(***************************************************************************)

\* Create: uncompress and wasmer.Create may fail; else the next code id
\* (mutant) the CodeInfo stored under the counter's new value
CreateStoresNextID(u) ==
  /\ Idle
  /\ nextCodeID <= MaxCodes
  /\ signer' = u
  /\ \/ /\ outcome' = "err"
        /\ UNCHANGED <<nextCodeID, codeInfo>>
     \/ /\ outcome' = "ok"
        /\ nextCodeID' = AutoIncrement(nextCodeID)
        /\ codeInfo' = codeInfo \cup {nextCodeID'}
  /\ UNCHANGED <<contractInfo, nextInstanceID, balance, accounts, instanceAt,
                 consumed, stack, snapshot>>

Create(u) ==
  /\ Idle
  /\ nextCodeID <= MaxCodes
  /\ signer' = u
  /\ \/ /\ outcome' = "err"
        /\ UNCHANGED <<nextCodeID, codeInfo>>
     \/ /\ outcome' = "ok"
        /\ nextCodeID' = AutoIncrement(nextCodeID)
        /\ codeInfo' = codeInfo \cup {nextCodeID}
  /\ UNCHANGED <<contractInfo, nextInstanceID, balance, accounts, instanceAt,
                 consumed, stack, snapshot>>

\* GetAccount on the fresh address finds an account
AccountExistsIgnored(addr) == FALSE
AccountExists(addr) == addr \in accounts

\* (mutant) the CodeInfo lookup's NotFound return dropped
InstantiateNoCodeCheck(u, codeID, deposit) ==
  /\ BeginTx(u)
  /\ nextInstanceID <= MaxInstances
  /\ LET id == nextInstanceID
         addr == ContractAddress(codeID, id)
         p0 == [Cur EXCEPT !.nextInstanceID = AutoIncrement(id)]
     IN \/ /\ AccountExists(addr)
           /\ Fail(p0)
        \/ /\ ~AccountExists(addr)
           /\ ~CanSend(u, deposit)
           /\ Fail(p0)
        \/ /\ ~AccountExists(addr)
           /\ CanSend(u, deposit)
           /\ VMCall("inst", addr, codeID, id, ReadCost, << >>, Snap,
                     Transfer(p0, u, addr, deposit))

\* Instantiate(creator, codeID, initMsg, deposit)
Instantiate(u, codeID, deposit) ==
  /\ BeginTx(u)
  /\ nextInstanceID <= MaxInstances
  /\ LET id == nextInstanceID
         addr == ContractAddress(codeID, id)
         p0 == [Cur EXCEPT !.nextInstanceID = AutoIncrement(id)]
     IN \/ /\ AccountExists(addr)
           /\ Fail(p0)
        \/ /\ ~AccountExists(addr)
           /\ ~CanSend(u, deposit)
           /\ Fail(p0)
        \/ /\ ~AccountExists(addr)
           /\ CanSend(u, deposit)
           /\ codeID \notin codeInfo
           /\ Fail(Transfer(p0, u, addr, deposit))
        \/ /\ ~AccountExists(addr)
           /\ CanSend(u, deposit)
           /\ codeID \in codeInfo
           /\ VMCall("inst", addr, codeID, id, ReadCost, << >>, Snap,
                     Transfer(p0, u, addr, deposit))

\* Execute(contractAddress, caller, coins, msg) called by a transaction
Execute(u, addr, coins) ==
  /\ BeginTx(u)
  /\ CallExecute(addr, u, coins, 0, << >>, Snap)

(***************************************************************************)
(* dispatchMessage for the first unhandled message of the top frame.       *)
(***************************************************************************)

HandleSdkMessageNoSignerCheck(f, m, rest) ==
  \/ /\ ~CanSend(m.from, m.amount)
     /\ Fail(Cur)
  \/ /\ CanSend(m.from, m.amount)
     /\ Apply(Transfer(Cur, m.from, m.to, m.amount))
     /\ stack' = rest
     /\ UNCHANGED <<consumed, outcome, snapshot>>

\* handleSdkMessage: every signer of the MsgSend (its FromAddress) must be
\* the contract; the bank route's handler then runs SendCoins
HandleSdkMessage(f, m, rest) ==
  \/ /\ m.from # f.contract
     /\ Fail(Cur)
  \/ /\ m.from = f.contract
     /\ ~CanSend(m.from, m.amount)
     /\ Fail(Cur)
  \/ /\ m.from = f.contract
     /\ CanSend(m.from, m.amount)
     /\ Apply(Transfer(Cur, m.from, m.to, m.amount))
     /\ stack' = rest
     /\ UNCHANGED <<consumed, outcome, snapshot>>

\* a Send message: convertCosmosSendMsg checks both addresses
DispatchSend(f, m, rest) ==
  /\ m.type = "send"
  /\ \/ /\ BadAddr \in {m.from, m.to}
        /\ Fail(Cur)
     \/ /\ BadAddr \notin {m.from, m.to}
        /\ HandleSdkMessage(f, m, rest)

\* a Contract message: Execute on the target with the contract as caller
\* and no coins, on the same gas meter
DispatchContract(f, m, rest) ==
  /\ m.type = "contract"
  /\ \/ /\ m.target = BadAddr
        /\ Fail(Cur)
     \/ /\ m.target # BadAddr
        /\ CallExecute(m.target, f.contract, 0, consumed, rest, snapshot)

\* an Opaque message, or one with no field set, panics
DispatchPanic(f, m, rest) ==
  /\ m.type \in {"opaque", "unknown"}
  /\ Abort("panic_msg", snapshot)

\* (mutant) dispatchMessages handles a message but never moves past it
DispatchNoAdvance ==
  /\ ~Idle
  /\ Top.msgs # << >>
  /\ LET f == Top
         m == Head(f.msgs)
     IN \/ DispatchSend(f, m, stack)
        \/ DispatchContract(f, m, stack)
        \/ DispatchPanic(f, m, stack)
  /\ UNCHANGED signer

Dispatch ==
  /\ ~Idle
  /\ Top.msgs # << >>
  /\ LET f == Top
         m == Head(f.msgs)
         rest == [stack EXCEPT ![Len(stack)].msgs = Tail(f.msgs)]
     IN \/ DispatchSend(f, m, rest)
        \/ DispatchContract(f, m, rest)
        \/ DispatchPanic(f, m, rest)
  /\ UNCHANGED signer

(***************************************************************************)
(* Returns, once a frame's messages are all dispatched.                    *)
(***************************************************************************)

\* Instantiate persists the ContractInfo under the address and returns
ReturnInstantiate ==
  /\ Len(stack) = 1
  /\ Top.kind = "inst" /\ Top.msgs = << >>
  /\ contractInfo' = Put(contractInfo, Top.contract, Top.codeID)
  /\ EndTx("ok")
  /\ UNCHANGED <<nextCodeID, nextInstanceID, codeInfo, balance, accounts,
                 instanceAt, signer>>

\* the transaction's Execute returns its result
ReturnExecute ==
  /\ Len(stack) = 1
  /\ Top.kind = "exec" /\ Top.msgs = << >>
  /\ EndTx("ok")
  /\ UNCHANGED <<persistent, signer>>

\* a nested Execute returns nil to dispatchMessage, whose Contract branch
\* has no return and falls through to panic("Unknown CosmosMsg")
ReturnToDispatcher ==
  /\ Len(stack) > 1
  /\ Top.msgs = << >>
  /\ Abort("panic_unknown", snapshot)
  /\ UNCHANGED signer

(***************************************************************************)
(* Specification.                                                          *)
(***************************************************************************)

\* targets a transaction may name: the instances and an address without one
ExecTargets == DOMAIN contractInfo \cup {0}

Init ==
  /\ nextCodeID = 1
  /\ nextInstanceID = 1
  /\ codeInfo = {}
  /\ contractInfo = << >>
  /\ balance = [a \in Addrs |-> IF a \in Users THEN InitBalance[a] ELSE 0]
  /\ accounts = Users
  /\ consumed = 0
  /\ stack = << >>
  /\ signer \in Users
  /\ outcome = "ok"
  /\ snapshot = "none"
  /\ instanceAt = [a \in ContractAddrs |-> {}]

Next ==
  \/ \E u \in Users : Create(u)
  \/ \E u \in Users, c \in 1 .. MaxCodes, d \in Amounts : Instantiate(u, c, d)
  \/ \E u \in Users, a \in ExecTargets, d \in Amounts : Execute(u, a, d)
  \/ Dispatch
  \/ ReturnInstantiate
  \/ ReturnExecute
  \/ ReturnToDispatcher

Spec == Init /\ [][Next]_vars

\* the steps of a running transaction: once the transaction has started,
\* its handlers run synchronously to the end (spec section 5)
Running ==
  \/ Dispatch
  \/ ReturnInstantiate
  \/ ReturnExecute
  \/ ReturnToDispatcher

FairSpec == Spec /\ WF_vars(Running)

(***************************************************************************)
(* Invariants and properties.                                              *)
(***************************************************************************)
Outcomes == {"ok", "err", "running"} \cup Panics

FrameType ==
  [kind : {"inst", "exec"}, contract : ContractAddrs,
   codeID : 0 .. (Word - 1), msgs : Seq(UNION {Emittable(a) : a \in ContractAddrs})]

TypeOK ==
  /\ nextCodeID \in 0 .. (Word - 1)
  /\ nextInstanceID \in 0 .. (Word - 1)
  /\ codeInfo \subseteq 0 .. (Word - 1)
  /\ DOMAIN contractInfo \subseteq ContractAddrs
  /\ \A a \in DOMAIN contractInfo : contractInfo[a] \in codeInfo
  /\ balance \in [Addrs -> 0 .. Total]
  /\ accounts \subseteq Addrs
  /\ consumed \in Nat
  /\ \A i \in 1 .. Len(stack) : stack[i] \in FrameType
  /\ signer \in Users
  /\ outcome \in Outcomes
  /\ instanceAt \in [ContractAddrs -> SUBSET (1 .. MaxInstances)]

\* The accounts a step may debit: the signer of a transaction that starts,
\* or, while messages are dispatched, the contract that emitted them.
Payers == IF Idle THEN {signer'} ELSE {Top.contract}

\* handleSdkMessage (keeper.go:355-362): a contract can only author
\* messages as itself, so apart from an aborted transaction being undone,
\* no step takes coins from an account other than the signer of the
\* transaction or the contract whose emitted message is dispatched.
NoImpersonation ==
  [][\/ outcome' \in Panics
     \/ \A a \in Addrs : balance'[a] < balance[a] => a \in Payers]_balance

\* Instantiate's AccountExists check (keeper.go:89-93): even when
\* codeID<<32 + instanceID collides after the instance counter passes 32
\* bits, no two instances ever run on the same prefix store, so no
\* contract inherits or shares another's storage.
DistinctInstancePrefixes ==
  \A a \in ContractAddrs : Cardinality(instanceAt[a]) <= 1

\* gasForContract and consumeGas (keeper.go:376-388) agree: a VM that stays
\* within the budget it was given can always be charged for on the SDK
\* meter: consumeGas never pushes the meter past its limit, at any depth
\* of nested calls sharing it.
GasRoundTrip == consumed <= GasLimit

\* Each nested Execute pays for its contractInstance reads on the shared
\* meter, so a chain of contract messages calling contracts is at most
\* MaxNesting frames deep whatever the contracts emit.
MaxNesting == 1 + (GasLimit - ReadCost) \div (2 * ReadCost)
RecursionBoundedByGas == Len(stack) <= MaxNesting

\* Spec 4.5: a Contract message "propagates any failure from the nested
\* Execute"; only opaque and unrecognised messages are fatal.  So when a
\* nested Execute returns successfully, only its frame is popped and the
\* caller goes on with its next message.
CallReturnsToCaller ==
  [][Len(stack) > 1 /\ Top.msgs = << >> => stack' = Front(stack)]_stack

\* While an Instantiate runs, no nested Execute runs the contract being
\* instantiated: Instantiate stores its ContractInfo (keeper.go:136) only
\* after dispatchMessages has handled the init messages (keeper.go:128), so
\* an init message that calls the new contract fails NotFound instead of
\* re-entering a contract whose init has not finished.
InitNotReentered ==
  stack # << >> /\ stack[1].kind = "inst" =>
    \A i \in 2 .. Len(stack) : stack[i].contract # stack[1].contract

\* Every transaction that starts ends (with a result, an error or a
\* panic): dispatchMessages consumes the VM's messages one at a time and
\* each nested Execute is paid for on the shared meter, so no contract can
\* keep a transaction running for ever.
TxEnds == ~Idle ~> Idle

\* The keeper implements the registry of ContractRegistry: its CodeInfo
\* and ContractInfo stores only ever take the steps the abstract registry
\* allows, whatever transactions abort, fail half-way, or derive colliding
\* addresses (keeper.go Create, Instantiate, generateContractAddress).
Registry == INSTANCE ContractRegistry
              WITH Addresses <- ContractAddrs, codes <- codeInfo,
                   contracts <- contractInfo

RegistryRefined == Registry!Spec


=============================================================================

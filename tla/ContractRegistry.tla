-------------------------- MODULE ContractRegistry --------------------------
(***************************************************************************)
(* What the contract keeper promises about its registry (spec sections 3,  *)
(* 4.1 and 4.3), with transactions, gas and the VM left out: code ids are  *)
(* handed out 1, 2, 3, ... and never reused; an instance is registered at  *)
(* a fresh address under a code that exists, and an address, once         *)
(* registered, keeps its code for ever.                                    *)
(***************************************************************************)
EXTENDS Naturals, FiniteSets

CONSTANT Addresses  \* the addresses an instance may be registered at

VARIABLES
  codes,      \* code ids with a CodeInfo
  contracts   \* address -> code id of its ContractInfo

vars == <<codes, contracts>>

Init ==
  /\ codes = {}
  /\ contracts = [a \in {} |-> 0]

\* Create: the next code id
Upload ==
  /\ codes' = codes \cup {Cardinality(codes) + 1}
  /\ UNCHANGED contracts

\* a successful Instantiate: a fresh address bound to an existing code
Register(a, c) ==
  /\ a \notin DOMAIN contracts
  /\ c \in codes
  /\ contracts' = [x \in DOMAIN contracts \cup {a} |->
                     IF x = a THEN c ELSE contracts[x]]
  /\ UNCHANGED codes

Next ==
  \/ Upload
  \/ \E a \in Addresses, c \in codes : Register(a, c)

Spec == Init /\ [][Next]_vars
=============================================================================

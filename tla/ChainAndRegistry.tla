---- MODULE ChainAndRegistry ----
(* What deployment scripts and governance share: a chain and the registry of   *)
(* its contracts. ContractCalls says what a call does to the chain; the names  *)
(* that scripts and proposals use are those of MainnetAddresses, which         *)
(* mainnetAddresses.ts binds to addresses by hand.                             *)
EXTENDS ContractCalls, MainnetAddresses

VARIABLES
    scene,   \* what is deployed and done in this behaviour, and by whom
    chain,   \* the facts on the chain
    book     \* the registry: name |-> address

(* ethers.getSigners()[0], the key that every script signs with. *)
Deployer == <<"deployer", 0>>
====

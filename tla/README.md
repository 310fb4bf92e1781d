# A TLA+ model of the VOLT protocol core

This directory holds a TLA+ model of the contracts under `contracts/` and of the
scripts and proposals under `scripts/` and `proposals/` that deploy and govern
them, the TLC configurations that check it on small instances, and TLAPS proofs
of its main results for every instance. Paths are relative to the repository's root.

## 1. The system

VOLT is a token whose price rises with an interest rate. Anybody can buy it from
and sell it to *peg stability modules* (PSMs), at the price of an oracle. What
the protocol earns, the *protocol controlled value* (PCV), sits in *PCV deposits*
that supply it to lending markets. Roles held in `Core` say who may change what.

| component | state | operations | interacts with |
|---|---|---|---|
| `Permissions`, `Core` | members and admin of each role, VOLT and VCON addresses | create, grant, revoke, renounce a role; `revokeOverride` by guardians | asked by every contract |
| `CoreRef` | pause flag, contract admin role | `pause`, `unpause`, `setContractAdminRole` | base of nearly every contract |
| `RateLimited`, `RateLimitedV2` | rate, cap, stored buffer and its timestamp | deplete, replenish, set rate, set cap | base of the PSMs' minter and of the allocator |
| `VoltSystemOracle`, `OraclePassThrough` | price at the start of the period, start of the period | read, `compoundInterest` | read by the PSMs through `OracleRef` |
| `OracleRef` | oracle, backup, inversion, decimals | read, four setters | base of the PSMs |
| `PegStabilityModule`, `PriceBoundPSM` | fees, threshold, surplus target, floor and ceiling, three pause flags, balances | mint, redeem, allocate the surplus, withdraw, setters, pauses | VOLT token, underlying token, PCV deposits, the allocator |
| `ERC20Allocator` | connected PSMs with targets, deposit-to-PSM links, pause flag | drip, skim, `doAction`, connect, disconnect, edit | PSMs and PCV deposits |
| `MorphoCompoundPCVDeposit` | last recorded balance, PCV oracle, pause flag | deposit, accrue, withdraw, `emergencyAction`, `setPCVOracle` | Morpho, PCV oracle, allocator |
| Compound deposits | pause flag | deposit, withdraw | Compound, guardian |
| `CompoundPCVRouter` | what swaps leave behind: DAI and an allowance | move PCV between the DAI and the USDC deposit | deposits, Maker's PSM |
| `MakerRouter` | leftover DAI | swap FEI for DAI, USDC or both; withdraw | FEI PSM, Maker's PSM |
| `PCVGuardian`, `PCVGuardAdmin` | safe address, whitelist | withdraw to safety, lifting a pause on the way | every PCV deposit |
| `Vcon` | balances, delegates, checkpoints, nonces | transfer, delegate, permit | none |
| registry of addresses (`protocol-configuration/`) | name, address and artifact of every contract | edited by hand after a deployment | read by every script |
| deployment scripts (`scripts/l2deploy.ts`, ...) | their place, contracts made, transactions not mined | deploy, configure, validate | chain, registry |
| proposals (`proposals/vip_*.ts`, `proposals/dao/`) | none | `deploy`, `setup`, commands, `validate` | contracts by name |
| governance (`scripts/simulation/`, `scripts/deploy/`, `checkProposal.ts`) | the timelock's operations | deploy, review on a fork, schedule, cancel, execute | timelock, multisig, chain, registry |

Each external call is a transaction: it happens as a whole or reverts. What is
hard is not locking but *order*: calls of traders, keepers, guardians and
governors interleave freely between blocks, functions that maintain the system
(`compoundInterest`, `doAction`, `accrue`, `allocateSurplus`) are open to anybody
and called late or never, values are kept lazily with a timestamp and caught up
on use, tokens have different decimals and every division truncates, and the
record of a deposit is out of date nearly always.

Scripts are hard in another way. Most send their transactions and wait for
none, so that a suffix may be mined late or be lost; they are broken off and run
again; the addresses they print are entered in the registry by hand. A proposal
is deployed, reviewed, scheduled and executed on different days, other proposals
at any stage in between, and a review speaks of the chain of its day.

`PROJECT.json` lists these places as hazards, each with the properties that
cover it.

What has to be right, component by component:

- roles: whoever lost a role stays without it, and guardians can always take
  roles away but never hand any out;
- limiters: no order of calls gets more through than cap and rate allow;
- oracle: lateness neither loses nor adds interest, and the price never falls;
- PSM: no trade beats the price, no sequence of trades beats the limiter, quotes
  are exact, and emergency settings switch off what they are meant to;
- allocator: tokens are never mixed up, PCV leaves at a limited rate, targets
  are approached and never crossed, and keepers come to rest;
- deposits and guardian: records and reports agree, and rescued PCV goes to the
  safe address only;
- routers: PCV is neither lost nor stuck on the way;
- VCON: votes follow tokens, history stays as it was, signatures work once;
- scripts: somebody governs every core at all times, and what a script has
  validated or verified is so and stays so, whatever was broken off before;
- governance: what a review passed can be executed later and does what it was
  reviewed for, and the order of execution matters only where it is meant to.

## 2. The modules

| module | models | composed of |
|---|---|---|
| `EVMMath`, `Decimal` | OpenZeppelin `Math`, `external/Decimal.sol` | |
| `TokenBucket` | abstract specification of a rate limit | |
| `RateLimitedV2` | `utils/RateLimitedV2.sol` | implements `TokenBucket` |
| `RateLimited` | `utils/RateLimited.sol`, `RateLimitedMinter` | implements `TokenBucket` |
| `VoltSystemOracle` | `oracle/VoltSystemOracle.sol` | |
| `OracleRef` | `refs/OracleRef.sol` | `Decimal` |
| `OraclePassThrough` | `oracle/OraclePassThrough.sol` | `VoltSystemOracle`, `OracleRef` |
| `PegStabilityModule` | `peg/PegStabilityModule.sol`, `peg/PriceBoundPSM.sol`, VOLT supply | `RateLimited`, `OracleRef`, `Decimal` |
| `ERC20Allocator` | `pcv/utils/ERC20Allocator.sol` | `RateLimitedV2` |
| `MorphoCompoundPCVDeposit` | `pcv/morpho/MorphoCompoundPCVDeposit.sol` | |
| `Permissions` | `core/Permissions.sol`, `core/TribeRoles.sol`, `pcv/PCVGuardAdmin.sol` | |
| `PCVGuardian` | `pcv/PCVGuardian.sol`, Compound deposits, `pcv/PCVDeposit.sol` | `Permissions` |
| `MakerPSM` | Maker's DAI-USDC PSM, external | |
| `CompoundPCVRouter`, `MakerRouter` | the files of these names | `MakerPSM` |
| `MakerSwaps` | both routers at one Maker PSM | `CompoundPCVRouter`, `MakerRouter` |
| `Vcon` | `vcon/Vcon.sol` | |
| `ContractCalls` | the contracts as scripts and proposals meet them | |
| `MainnetAddresses` | `protocol-configuration/mainnetAddresses.ts`, `scripts/utils/loadContracts.ts`, `types/types.ts` | |
| `ChainAndRegistry` | a chain and its registry, shared by the next three | `ContractCalls`, `MainnetAddresses` |
| `DeploymentScripts` | `l2deploy`, `l2configuration`, `l2validation`, `grlmNCPSMDeploy`, `timelockDeploy` | `ChainAndRegistry` |
| `Proposals` | fourteen proposals of `proposals/` | |
| `Governance` | `scripts/simulation/`, `scripts/deploy/migrations.ts`, `scripts/utils/checkProposal.ts`, the timelock | `ChainAndRegistry`, `Proposals` |
| `Operations` | scenes of the system's history, with the scripts and proposals of the time | `DeploymentScripts`, `Governance` |
| `RateLimitedV2Proofs`, `VconProofs`, `PCVGuardianProofs`, `MorphoProofs`, `MakerSwapsProofs`, `ERC20AllocatorProofs`, `OraclePassThroughProofs`, `PegStabilityModuleProofs` | proofs, for every value of the constants | the modules of these names |
| `MC...` | values of constants that a `.cfg` cannot write, and in `MCVcon` two kinds of behaviour | |

How a module corresponds to its contract:

- A storage variable is a TLA+ variable of the same name; variables marked
  *history* record what happened for the sake of a property and are read by no
  guard, except where they bound the state space. Balances of tokens are
  variables of the modules that move them.
- An external function is one action of the same name, with everything the
  function calls. A `require`, a modifier, an arithmetic check of Solidity 0.8
  or a revert of a callee is a conjunct of the guard: a transaction that reverts
  is a step that is not taken. View functions are operators.
- Time and block numbers are variables that grow by `Tick` or `NextBlock`; any
  number of transactions fits between two ticks, in any order.
- The surroundings (prices of other oracles, yield and losses of markets,
  tokens somebody sends, trades of others at Maker) are actions that choose.
- Definitions ending in `_` and a word, introduced as *Faulty variant*, are no
  part of the model. Each is a mistake a change to the code might bring in; put
  in the place of the definition below it, it makes a property fail.
- Amounts are small integers in the units of the contract, and divisions
  truncate as in Solidity. 10^18 is `BASE`, 10,000 basis points
  `BASIS_POINTS_GRANULARITY`, and 10^12 between DAI and USDC a small factor.
  `uint96` and `int256` have limits where the code can meet them (`Vcon`,
  `reservesThreshold`).
- `TypeOK` documents the state of a module. The runs check it where it says more
  than the shape of the model, because a missing check of the code would take a
  balance or a buffer below zero, in `rate_limited_v2` and `vcon`; of the
  guardian, the Morpho deposit and the allocator it is proved, and of a PSM and the
  balances around it in `AllTypesCorrect`.

Module by module, what is not obvious:

- **RateLimitedV2, RateLimited, TokenBucket.** The contracts store the buffer
  with a timestamp and catch up on use. `TokenBucket` fills by the second; under
  the mapping of `buffer()` to its level, each contract implements it.
- **VoltSystemOracle, OraclePassThrough, OracleRef.** `deployment` keeps the
  constructor's arguments, from which `PunctualPrice` computes what a caller who
  is never late would have got. `OraclePassThrough` puts the three contracts in
  a row; `feed` of `OracleRef` is an operator over the state of the others.
- **PegStabilityModule.** `config.bounded` says which of the two contracts was
  deployed. `mint` pays from stock first and has the minter mint the rest, as
  `mint()` does; `LimiterCall` and `OracleCall` are what the contract inherits.
- **ERC20Allocator.** One limiter in 18 decimals over tokens of different
  decimals. `doAction` chooses by the conditions of the code between skim and
  drip. `ExternalFlow` stands for everybody else who moves balances.
- **MorphoCompoundPCVDeposit.** A supply or withdrawal may round by up to
  `MaxRounding`, as the comment at line 156 of the contract expects.
- **Permissions, PCVGuardian.** Core holds the governor role itself, which is
  what `revokeOverride` uses. Users are granted roles; contracts have theirs
  from deployment and may lose them.
- **MakerPSM, CompoundPCVRouter, MakerRouter, MakerSwaps.** A swap is one
  action; what it leaves in the routers is their only state.
- **Vcon.** A signature is a record in the set `signed`; anybody may send any
  of them any number of times. `getPriorVotes` is the binary search of the code
  as a recursive function, next to the definition it has to agree with.
- **ContractCalls.** A chain is a set of facts (`<<"role", core, role, who>>`,
  `<<"oracle", psm, oracle>>`, ...). A call maps a chain to the chain it leaves,
  or to none if it reverts; a batch does all its calls or none. An address is a
  name and a generation, so that two deployments of one contract differ.
- **MainnetAddresses, ChainAndRegistry.** The registry, `book`, maps names to
  addresses. Of an entry the model keeps what the code looks at: whether there is
  one, and whether an artifact of its type can be loaded.
- **DeploymentScripts.** A script is a sequence of steps: deploy, send, wait,
  expect. What is sent waits in `pending` until `Mine` takes it, in the order of
  nonces, and is lost by `Drop`; a transaction that reverts when it is mined
  changes nothing. `Stop` breaks a script off at any step. `Register` enters
  what the last deployment printed, whenever no script runs and as often as
  anybody likes; it may overlook a name, and a later edit may correct that.
  `handled` is a history of the contracts configuration was run with.
- **Proposals, Governance.** `Commands`, `Dao` and `Registry` are the proposals
  as data. `Review` is `checkProposal` on a fork, with or without its deployment
  and setup; `vouched` is a history of what passed, with the addresses it was
  about. The timelock's delay is of any length. An operation is identified by
  its calls, as its hash is.
- **Operations.** Six scenes: a new timelock, early and later proposals of
  mainnet, the replacement of the minter, the deployment of Arbitrum, and its
  proposals. In each, deployments, reviews, the multisig's calls, scheduling
  and execution interleave freely.

## 3. The runs

`tlc -config X.cfg M` in this directory. Each passing run is exhaustive.

| run | module, configuration | asks |
|---|---|---|
| rate_limited_v2 | `RateLimitedV2` | is the lazy limiter a token bucket, and does the limit hold while rate and cap change? |
| oracle_chain | `MCOraclePassThrough`, `OraclePassThrough.cfg` | is lateness harmless, and what does a PSM see through three contracts? |
| psm_trading | `MCPegStabilityModule`, `PSMTrading.cfg` | can any sequence of trades beat the price or the limiter; is the quote exact? |
| psm_contracts | `MCPegStabilityModule`, `PSMContracts.cfg` | does the threshold protect the reserves of both contracts while everything is reconfigured and paused? |
| allocator | `MCERC20Allocator`, `ERC20Allocator.cfg` | are links, limit, targets and promises kept over two tokens, and do keepers come to rest? |
| morpho | `MorphoCompoundPCVDeposit`, `Morpho.cfg` | by how much do record and PCV oracle disagree? |
| morpho_oracle_drift | the same, `MorphoDrift.cfg` | do they agree, as a test asserts? (no) |
| vcon | `MCVcon`, `Vcon.cfg` | do votes follow tokens, is history kept, found and never in the way of a transfer; does a signature work once, and is nothing spent that was not approved? |
| pcv_guardian | `PCVGuardian` | who can do what to roles and PCV, in whatever order roles change hands? |
| maker_swaps | `MCMakerSwaps`, `MakerSwaps.cfg` | is PCV conserved by the routers, and what stays in them? |
| maker_swaps_stuck | the same, `MakerSwapsStuck.cfg` | does a swap of DAI always go through, as a test expects? (no) |
| operations | `Operations` | do scripts that wait for nothing, and proposals in any order, leave the system governed, configured and as reviewed? |

Every property is stated in words above its definition. Those that took thought:

- `LatenessLosesNothing` compares the oracle with one that is compounded on
  time, after every order and number of calls that are still owed.
- `NoTradeBeatsThePrice` bounds each trade by the exact price, with integers and
  both directions of inversion, so that no round trip gains a unit.
- `MintingIsLimited` counts VOLT in existence, not calls of the minter: stock
  may be sold and redeemed any number of times.
- `PCVOutflowLimited` counts what left the deposits in 18 decimals over both
  tokens, with skims giving back.
- `AllowedActionsSucceed` relates two computations of the code that have to
  agree, `checkActionAllowed` and `doAction`; `MaxMintIsExact` does so for
  `getMaxMintAmountOut` and `mint`.
- `CheckpointsKeepHistory` compares the checkpoints with a history of the votes
  at the end of each block, `PriorVotesAreHistory` the search with both.
- `UngovernedRolesOnlyShrink` says what is left when the last governor is gone.
- `PCVLeavesOnlyToSafe` compares what each deposit loses with what the safe
  address gains, whoever makes the call.
- `SwapsKeepPCV` and `SwapsPayTheirOwnProceeds` account for every unit through
  two conversions of decimals.
- `ValidatedMeansConfigured` says of `l2validation`, which looks at half of the
  system, what is true of the rest once it has got as far as it does. The
  contracts of the registry, the second PSM included, are of one core and read
  one oracle; the deployer has no role left on that core, and on the timelock
  that governs it has exactly the one that `l2deploy` leaves, its administration.
  The pass-through is the multisig's provided that configuration, when run for
  this core, was run with this pass-through: it was handed over before anything
  that validation looks at. It also speaks of the chain after the transactions
  that are still on their way.
- `VerifiedLeavesOneMinter` holds because the verification counts the members of
  roles: a minter of a run that was broken off shows in the count only.
- `ReviewedStaysExecutable` and `ReviewedMeansValidated` relate the day of the
  review to the day of the execution. `Supersedes` lists the proposals that are
  meant to undo part of an earlier one; `OrderMattersOnlyWhereIntended` says
  that no other two depend on their order.

Bounds, and why they suffice:

- *Time* goes on for a few seconds, enough for a limiter to fill and overflow
  again, and for four periods of the oracle, so that three calls can be owed at
  once. Rates and prices are such that some interest truncates to nothing.
- *Amounts* include one that fits no multiple of the others, zero where the
  code takes it, and one above every balance or limit.
- *Two* tokens, deposits and PSMs in the allocator: links can cross, and one
  buffer is shared. `MaxFlows = 1` outside change of a balance per behaviour;
  governance and keepers are not bounded.
- *Accounts*: two in `Vcon` (plus the zero address), so that self-transfers,
  common and crossed delegations occur; one of each role elsewhere, two users
  who can take any role in `PCVGuardian`.
- *Blocks and signatures*: `vcon` follows two kinds of behaviour. In one tokens
  move over several blocks, up to four checkpoints, where the search turns both
  ways and rounds its middle in both; nothing is signed. In the other there are
  two messages for the same or for different nonces within one block,
  delegation is by signature only, and of the two the holder of the supply alone
  calls `approve` for a finite amount. All of both together is beyond TLC's reach;
  the proofs of `VconProofs` do not make the distinction.
- *Operations*: every script may be started twice (`MaxRuns`), which covers a
  run that was broken off and one that was not needed; the registry is edited
  from what the last deployment printed, an edit overlooking at most one name, so
  that every single entry can be the one of the other deployment, or missing from
  it until after configuration; contracts of a proposal
  are deployed once (`MaxMigrations`), besides those of reviews; all proposals
  of a stage on mainnet together, and any three (`MaxAgenda`) on Arbitrum.
- `MaxRounding`, `MaxReplenished`, `MaxPCV`, `MaxFunds`, `MaxTimesSet` and
  `MaxCredit` bound sums that could grow for ever.

*Deadlock* is checked except in `vcon`, which may stop at the last block with
nothing left to transfer, and `operations`, which ends when every script is done
and every proposal executed.

*Fairness* is assumed in `ERC20Allocator` alone, for `KeepersReachRest`: weak
fairness of `doAction` on each deposit. The function is open to anybody, the
protocol runs keepers that call it, and an enabled call stays possible until
somebody makes it. Nothing is assumed of governance, traders or time.

## 4. What the proofs establish

`tlapm M.tla` checks them for every value of the constants that satisfies the
named assumption of the module. The assumptions give types to the constants and
say that a limit is a natural number, and for `Vcon` and `PegStabilityModule` that
there are finitely many accounts (and deposits); no theorem assumes anything of
behaviour, and four of a constant besides: `UngovernedRoles`, `UngovernedForGood`
and `LockedForGood` that `createRole` leaves the governor role alone, and
`TradesNeverCost` that no PCV deposit trades.

*Functions defined by recursion* (powers of ten, the punctual price, the search
of `getPriorVotes`) are known to the prover only as a CHOOSE. That the function
chosen obeys its equation is proved where it is needed, by the smallest
counterexample: were there an argument up to which no function follows the
equation, there would be a least one, and the function for the argument before
it could be continued by one value (`NatSmallest`, `FollowsExists`,
`ListsPowers`). So that powers of ten are positive is a lemma, `PowersOfTen`.

*"This call goes through"* is a statement about ENABLED, which the prover does
not reason about. Such a property is proved in two parts. A lemma says that the
action is `Requires /\ Leaves`, for every argument: `Requires` speaks of the
present state alone and `Leaves` names the next value of every variable
(`TransferIsRequirements`, `DoActionIsRequirements`, `MintIsRequirements`,
`UsdcSwapIsRequirements`). The theorem says when `Requires` holds. What remains
for TLC is that ENABLED of such a formula is `Requires`.

**RateLimitedV2Proofs.** `TypeCorrect` is inductive as it stands, and with it
`buffer()` never underflows. `Refinement` is a step simulation; its one
arithmetical fact is that a second adds the rate to the reconstructed buffer, up
to the cap (`BufferAfterTick`). `LimitHolds` uses that only time and
replenishment raise the buffer. `AnyWindowIsLimited` is the same for the time from
any moment on: a limit counted from deployment alone would let what was not used
for a year be used in a day. It is a property of pairs of states, `[](now is t
=> [] bound)`, and inductive for each `t`, as a step raises use and buffer together
by no more than a second's rate (`WindowStep`). `NoGovernanceRefill` is an action
property.
`PowersOfTen` is there for the three modules that scale amounts.
`ReplenishExactly`, `RateExactly` and `CapExactly` say to which number a call sets
the reconstructed buffer; `Refinement` and the allocator's bucket rest on them.

**VconProofs.** `TypeCorrect` covers all storage, in particular that balances
and votes fit `uint96`, and that what has been executed was signed.
`SpendingWithinApprovals` needs a stronger invariant: what a spender was approved
less what it spent is at least the present allowance, and exactly keeps pace with
it as long as no approval was unlimited. `NoReplay` rests on `NoncesUsedUp`:
every executed message has a nonce below the account's present one, and no two
have the same. `HistoryIsKept` rests on `HistoryInv`: checkpoints are ordered by
block, none is in the future, and the votes at the end of a past block are those
of the last checkpoint up to it. A write replaces the last checkpoint only if it
is of the present block, so no past block is touched. `PriorVotesAreCorrect`
takes from `HistoryInv` that the checkpoints are in order, and shows that the
range the binary search looks at shrinks and keeps the last checkpoint up to the
block, for any number of checkpoints. `VotesAreTokens` needs besides that the
supply is the sum of all balances, which bounds every sum of votes (`VotesInv`);
the sums are folds over the accounts, of which the lemmas say what one changed
summand does, and each kind of step (a transfer, a new delegation, a mint) moves
votes as it moves tokens. `SupplyIsKept` is a part of it. From both
follows `TransfersNeverRevert`: no requirement of a transfer on votes or on the
recipient can fail, since neither can exceed the supply. `PastVotesAreFinal` is
what a governor contract relies on: the answer of `getPriorVotes` for a past block
never changes afterwards, for any account; no step writes to the history of a past
block (`HistoryOnlyGrows`), and the search reads nothing else. `VotesAreBacked`
turns sums the other way round: the votes of all accounts together are the tokens
of those who have a delegate (`TotalOfGroups`, the accounts grouped by delegate), so
no token votes twice, and the answers for a past block together never exceed the
supply, which never shrinks.

**PCVGuardianProofs.** Each call is reduced to its effect on roles, on pauses or
on money (`RoleSteps`, `RoleCallEffect`), and the properties are proved of the
effects. `UngovernedRoles` rests on `GovernorsGovern`, that the governor role
administers itself. That is an assumption on the roles `createRole` is used for
(`GOVERN_ROLE \notin CreatedRoles`): whom a governor puts in charge of the
governor role could appoint governors after the last has gone. The same invariant
gives `UngovernedForGood`: once nobody is governor nobody will ever be, whatever
guardians, admins and Core's own role do. `RescuedPCVIsSafe` needs no more than
types. `LockedForGood` puts the two together over whole behaviours: once no user
governs or controls PCV, none ever will again, and nothing leaves the deposits and
the safe address any more, although Core and the guardian contract keep their
roles. `TokensAreConserved` says that each call touches one deposit and moves just
what that one pays, so that no token appears or disappears, and that the safe
address gives nothing back.

**MorphoProofs.** `DriftIsJustRounding` adds to `DriftIsRounding` that an oracle
that was never set knows of nothing (`Unset`); together they are inductive. Each
report moves the sum of the oracle as it moves the record, except that of a
deposit, which leaves out what was rounded away. `OnlySettingTheOracleMisleadsIt`
drops the condition that the oracle was set once: roundings apart, how far the
oracle is off changes in no step but `setPCVOracle`, which tells an oracle that is
set again the whole balance a second time.

**MakerSwapsProofs.** `LeftoversStaySmall` and `NoPCVIsLost` rest on
`RouterInvariant`: the router is well typed, no USDC stays approved, and what
stays approved in DAI is less than a unit of USDC is worth and covered by the
router's DAI. The arithmetic is division with remainder by that factor. With
what the Maker PSM holds it is `TypeCorrect`.
`SwapsPayForThemselves` gathers the six swaps in one (`SwapToEffect`) and needs
types only. `UsdcSwapsAlwaysGoThrough` is the content of `UsdcSwapsGoThrough`; it
rests on the part of `RouterInvariant` that no USDC stays approved. The other
direction is `LeftoversBlockDai`, the second finding of section 5 for all
parameters: as long as DAI stay approved no swap of DAI goes through, and nothing
but a swap of nothing, which needs a market that lets nothing be withdrawn,
clears them.

**ERC20AllocatorProofs.** `LinksInv` is stronger than `LinkedTokensMatch`: links
to modules that are disconnected by now are right as well, which is what makes
connecting them again harmless. `OutflowIsLimited` composes: the effects proved
of `RateLimitedV2` (`DepleteEffect`, `ReplenishEffect`, `TickEffect`,
`GovernanceEffect`) are used through INSTANCE for the allocator's limiter, and a
drip takes from the buffer what it adds to the outflow, while a skim gives back
no more than it takes off. `AnyWindowIsLimited` bounds the outflow from any moment
on in the same way (`BufferWithinCap` gives the start). `OneBucketForAllTokens`
says the same as a refinement: drips and skims of all tokens together, with
`netUsed` counting what drips drew less what skims gave back, implement one
`TokenBucket` (`TB`), so that two tokens never have a limit each. `AllowedActionsGoThrough` is the content of
`AllowedActionsSucceed`: the amount `doAction` drips is the least of what is
missing, what the deposit has and what the buffer holds, and converted to 18
decimals the last of these is never above the buffer (`ConversionLosesOnly`).
`OneCallIsEnough` is an action property: after `doAction(d)` neither condition of
`d` holds. A drip leaves the module at its target, or the deposit empty, or so
little in the buffer that it converts to nothing (`RestAfterDrip`); a skim leaves
it at the target (`RestAfterSkim`).

**OraclePassThroughProofs.** The invariant, `ChainInv`, is the types of the three
contracts. `VoltNeverFalls` rests on two facts of the interpolation: it rises
with time (`AccrualRises`), and the price reached at the end of a period is the
price the next one starts from (`PriceStepRises`). `PegMovesOneWay` carries this
through inversion and scaling (`PegIsMonotone`), which are divisions that
truncate, and `InversionKeepsProduct` is the arithmetic of the two of them
(`ScaledReciprocal`). `LatenessOnlyDelays` adds to the types the history: the
start price and start time are those of the punctual schedule after some number
of periods, which have all passed. The calls that are owed lead from there along
the schedule, so that their order and number cannot matter.

**PegStabilityModuleProofs.** `RateLimited` is `RateLimitedV2` without
replenishment, so `LimiterRuns` shows that the limiter of a PSM takes steps of
`RateLimitedV2` only; its theorems, through INSTANCE, then give
`MintingRefinement` and, with what `SupplyIsDrawn` says of the supply,
`SupplyIsLimited`. What has to be known of a mint for that is that the amount is
a natural number within the buffer, which is why prices are part of the invariant
`PSMInv`: a quote is a number only if the price read is. `ReservesAreProtected`
and `TradesPayThePrice` are proved of the effects of a mint, a redemption and
every other step that moves tokens (`MintEffect`, `RedeemEffect`,
`TokenStepEffect`) and of the truncations of a quote (`MintQuote`,
`RedeemQuote`). `MaxMintDecides` is the content of `MaxMintIsExact`: an amount is
minted if and only if it is not above what the contract quotes as the most,
stock and buffer together, for any amount. `BalancesNeverNegative` says of the
ledgers more than their type: no trade, withdrawal, allocation or burn of any
sequence pays out what is not there.

`AnyWindowIsLimited` carries the limiter's theorem of the same name over to the
supply: from any moment on no more VOLT comes into being than the cap of that
moment and the rate allow. `RoundTripsCostBothFees` and `SplittingNeverPays` are
about several trades at one price: buying and paying back, either way round, costs
both fees to the last unit (`PriceCancels`), and two trades never get more than one
of their sum, although fee, price and decimals truncate one after the other
(`QuotientOfParts`).

`TokensAreConserved` is the sum of all balances: the underlying token is only moved,
and the VOLT of all holders together is the supply, through every mint, redemption,
allocation, donation and burn (`LedgersStep`). The sums are folds over a finite set
of holders; the lemmas on them are proved here a second time, as this module and
`VconProofs` have nothing in common that could hold them. `TradesNeverCost` is the
economic sense of the module: what backs VOLT (the module, the deposits and their
market) at the oracle's price, less the VOLT in circulation, never falls in a step
in which the price stays and no PCV controller takes anything out. It rests on
`LedgersStep` for what a step moves in and out of the backing and on `MintQuote` and
`RedeemQuote` for what is paid for it. It assumes that no deposit is an account that
trades (`Apart`), since such a deposit would count as backing and as a trader at
once. `AllTypesCorrect` is `TypeOK`; that the supply is a natural number is a
consequence of conservation, which is why the type invariant is the last theorem.

A transfer is written as two updates, the sender's and then the recipient's,
because the modules allow both to be one party and tlapm reads two updates of
one index in a single EXCEPT otherwise than TLC does.

**Model-checked only.**

- `KeepersReachRest`, which is liveness under fairness. Its content short of
  fairness is proved: an allowed call has all it requires
  (`AllowedActionsGoThrough`) and one call brings its deposit to rest
  (`OneCallIsEnough`). What is left is that a call weakly fair is made.
- The forms with ENABLED of `AllowedActionsSucceed`, `MaxMintIsExact`,
  `UsdcSwapsGoThrough` and `TransfersNeverBlocked`, whose contents are proved as
  described above; and `GuardiansCanDismissGuards` and `RescueAlwaysPossible`,
  where the requirements of the one call would be the theorem word for word, and
  what is worth checking is that some call out of several is enabled.
- What scripts and governance promise (`AlwaysGoverned`, `ValidatedMeansConfigured`,
  `VerifiedLeavesOneMinter`, `ReviewedStaysExecutable`, `ReviewedMeansValidated`,
  `OrderMattersOnlyWhereIntended`). They are statements about the programs of
  the repository, lists of calls on named contracts folded over a chain; the
  constants of these modules bound only how often something is started or
  changed from outside, so that a theorem would say what TLC finds, for more
  repetitions.

## 5. Where code and expectation differ

1. *The PCV oracle drifts* (`morpho_oracle_drift`). When Morpho rounds a supply
   down, the deposit's record is above its position; `deposit()` reports the
   position, the next accrual reports the same difference as a loss again. A
   test asserts that record and oracle are equal, with a venue that does not
   round. `DriftIsRounding` says how far apart they are: by the roundings.
2. *A swap of DAI can block the next* (`maker_swaps_stuck`).
   `CompoundPCVRouter.swapDaiForUsdc` approves an amount of which Maker's PSM
   takes whole units of USDC. The allowance that stays makes the next
   `safeApprove` revert. `UsdcSwapsGoThrough` shows that the other direction is
   not affected.

Observations that are not settled by a line of the repository: the comment above
`compoundInterest` speaks of a period that has passed, while calls may be owed
for several; once `createRole` has made `PCV_GUARD_ADMIN` the admin of PCV
guards, `revokeOverride` of a PCV guard reverts and guardians depend on
`PCVGuardAdmin`, which `GuardiansCanDismissGuards` confirms they can use;
`MakerRouter` does not look at Maker's fee, and with one it would pay out of what
earlier swaps left.

Of scripts and proposals:

- `l2validation` always throws at line 148: it expects the surplus target of an
  earlier plan, while `l2deploy` sets `ADDRESS_ONE` (lines 92 and 119). What it
  would check after that, the second PSM and the pass-through, is never looked
  at. `ValidatedMeansConfigured` shows that the second PSM needs no look, and
  what the owner of the pass-through depends on. If its entry in the registry was
  overlooked, and is corrected only when validation has stopped at line 136,
  configuration has handed over the pass-through of an earlier deployment, and
  validation now gets to line 148 although the deployer owns the one in use. The
  line that would notice is 204.
- `l2deploy` leaves the deployer admin of the `OptimisticTimelock`, which governs
  Core: validation does not look at that role, and `ValidatedMeansConfigured`
  says that it is there. `timelockDeploy` renounces it on its timelock.
- Scripts import `./config` and `./l2config`; the files are `Config.ts` and
  `L2Config.ts`, which makes a difference where names of files have cases.
- VIPs 2, 4 and 7 use names the registry no longer has
  (`voltSystemOraclePassThrough`, `nonCustodialFusePSM`); a review of them would
  encode empty addresses. There is no validation for VIP 4 of either chain.
- The names `deploy` returns are not always those the commands use:
  `vip_2_arbitrum` returns `oraclePassThroughArbitrum` for
  `arbitrumOraclePassThrough`, and `vip_14_arbitrum` returns
  `voltSystemOracle0Bips` for the registry's
  `arbitrumVoltSystemOracle0BasisPoints` and looks for `arbitrumVoltSystemOracle`,
  now `deprecatedArbitrumVoltSystemOracle`.
- `vip_7.ts` misspells `connect` in `setup` and reads `decimalNormalizer` in
  `validate`; both throw.
- The calldata that is printed schedules with a delay of 86,400 seconds; the
  simulation uses the timelock's own.
- A review with `DO_DEPLOY` is about contracts that go with the fork; only one
  without it vouches for what will be executed.
- A deposit that is paused since the review blocks VIP-14 as a whole.

## 6. What is not modelled

- `Timed`, `Deviation`: no modelled contract uses them. `OtcEscrow` stands alone.
- `sweep` of the allocator, `harvest` of the Morpho deposit, `withdrawETH`,
  `setContractAdminRole`, `Volt.permit`, ownership transfers: they change no
  state the properties are about.
- Reentrancy: an external call is part of its transaction. The contracts that
  call out with state half written take a lock.
- Interest, liquidity and exchange rates of Compound in the guardian's deposits.
- VIP-3, VIP-5 and VIP-8, which move amounts of tokens, and the template
  `vip_x`; numbers given to constructors and to commands, other than fees; the
  length of the timelock's delay.
- Scripts that deploy one contract and read its parameters back
  (`pcvGuardianDeploy`, `priceBoundPSMDeploy`, `oracleDeploy` and others), publish
  source code, or are called by nothing (`systemDeploy.ts`); `hardhat.config.ts`.
- The VOLT of the PSM that `grlmNCPSMDeploy` replaces; contracts that a broken-off
  run leaves and nobody registers, except for the roles they were given.
- Tests and mocks, which were read for what the code is meant to do.

## 7. Plan

1. *Model next*: the reentrancy lock of the Morpho deposit step by step, with
   Morpho and the PCV oracle as parties that may call back; hand-overs between
   two VoltSystemOracles, as proposals 11 and 14 make them; the allocator, its
   deposits and `PriceBoundPSM` as one composition; contract admin roles;
   `OtcEscrow` and `Timed`.
2. *Prove next*: what the new compositions promise; the sums of `VconProofs` and
   `PegStabilityModuleProofs` from one module of lemmas.

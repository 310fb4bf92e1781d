------------------------- MODULE PegStabilityModule --------------------------
(***************************************************************************)
(* contracts/peg/PegStabilityModule.sol and PriceBoundPSM.sol: the         *)
(* contract where anybody sells the underlying token for VOLT (mint) and   *)
(* VOLT for the underlying token (redeem) at the oracle's price less a     *)
(* fee.  VOLT that was redeemed stays in the contract and is sold again    *)
(* before any is minted; what has to be minted is rate limited.            *)
(*                                                                         *)
(* The contract inherits RateLimitedMinter and OracleRef, whose modules    *)
(* are instantiated here over the same variables.  config.bounded says     *)
(* which of the two contracts is deployed: PriceBoundPSM adds a price      *)
(* range and replaces _allocate.  The VOLT token (contracts/volt/Volt.sol) and the   *)
(* underlying token are ledgers of balances; traders are taken to have     *)
(* approved what they trade.  Who holds which role is a constant.          *)
(***************************************************************************)
EXTENDS Integers, FiniteSetsExt, EVMMath, Decimal

CONSTANTS
    Deployments,              \* which contracts to look at: PriceBoundPSM
                              \*   (TRUE), PegStabilityModule (FALSE)
    Accounts,                 \* accounts that send transactions
    Governors, Guardians, Admins, PCVControllers,     \* role holders
    PSM,                      \* this contract
    Targets,                  \* PCV deposits that may receive the surplus
    Venue,                    \* the market those deposits supply to
    BASIS_POINTS_GRANULARITY, \* 10,000
    MAX_FEE,                  \* 300 basis points
    MAX_INT256,               \* the largest int256
    Oracles, ZeroAddress, FeedValues, Normalizers, Inversions,  \* OracleRef
    MAX_RATE_LIMIT_PER_SECOND, InitialRate, InitialCap, Rates, Caps,
    Fees, Thresholds, Bounds, \* what governance may ask for
    InitialFloor, InitialCeiling,   \* PriceBoundPSM's constructor arguments
    InitialUnderlying,        \* [account -> balance] at deployment
    InitialVolt,              \* [account -> balance] at deployment
    InitialSupply,            \* VOLT in existence at deployment
    Amounts,                  \* amounts of a trade, transfer or withdrawal
    MinAmounts,               \* what a trader may insist on as a minimum
    MaxTime                   \* bound on the clock

Holders == Accounts \cup {PSM, Venue} \cup Targets

ASSUME PegStabilityModuleAssumption ==
    /\ IsFiniteSet(Accounts) /\ IsFiniteSet(Targets)
    /\ Deployments \subseteq BOOLEAN
    /\ Governors \subseteq Accounts /\ Guardians \subseteq Accounts
    /\ Admins \subseteq Accounts /\ PCVControllers \subseteq Accounts
    /\ PSM \notin Accounts /\ Venue \notin Accounts \cup Targets \cup {PSM}
    /\ PSM \notin Targets /\ ZeroAddress \notin Targets \cup Oracles
    /\ BASE \in Nat \ {0} /\ BASIS_POINTS_GRANULARITY \in Nat \ {0}
    /\ MAX_FEE \in 0..(BASIS_POINTS_GRANULARITY - 1)
    /\ MAX_INT256 \in Nat
    /\ Fees \subseteq Nat /\ Thresholds \subseteq Nat /\ Bounds \subseteq Nat
    /\ FeedValues \subseteq Nat /\ Normalizers \subseteq Int
    /\ Inversions \subseteq BOOLEAN
    /\ MAX_RATE_LIMIT_PER_SECOND \in Nat
    /\ InitialRate \in 0..MAX_RATE_LIMIT_PER_SECOND /\ InitialCap \in Nat
    /\ Rates \subseteq Nat /\ Caps \subseteq Nat /\ Amounts \subseteq Nat
    /\ MinAmounts \subseteq Nat
    /\ InitialUnderlying \in [Accounts -> Nat]
    /\ InitialVolt \in [Accounts -> Nat]
    /\ InitialSupply \in Nat
    /\ InitialSupply = MapThenSumSet(LAMBDA a : InitialVolt[a], Accounts)
    /\ TRUE \in Deployments => 0 < InitialFloor /\ InitialFloor < InitialCeiling
    /\ InitialFloor \in Nat /\ InitialCeiling \in Nat
    /\ MaxTime \in Nat

VARIABLES
    \* RateLimited
    now, rateLimitPerSecond, bufferCap, lastBufferUsedTime, bufferStored,
    netUsed,
    \* OracleRef
    oracle, backupOracle, doInvert, decimalsNormalizer, feed,
    config,                   \* the kind of contract, fees, threshold,
                              \*   target; floor and ceiling
    pauses,                   \* the pause flags of the contracts involved
    underlyingBalance, voltBalance,
    voltSupply                \* Volt.totalSupply()

limiterVars == <<now, rateLimitPerSecond, bufferCap, lastBufferUsedTime,
                 bufferStored, netUsed>>
oracleVars  == <<oracle, backupOracle, doInvert, decimalsNormalizer, feed>>
tokenVars   == <<underlyingBalance, voltBalance, voltSupply>>
vars        == <<limiterVars, oracleVars, config, pauses, tokenVars>>

GovernorsOrAdmins == Governors \cup Admins

RL == INSTANCE RateLimited
OR == INSTANCE OracleRef

TypeOK ==
    /\ RL!TypeOK
    /\ OR!TypeOK
    /\ config \in [bounded              : Deployments,
                   mintFeeBasisPoints   : 0..MAX_FEE,
                   redeemFeeBasisPoints : 0..MAX_FEE,
                   reservesThreshold    : Nat \ {0},
                   surplusTarget        : Targets,
                   floor                : Nat,      \* PriceBoundPSM only
                   ceiling              : Nat]      \* PriceBoundPSM only
    /\ pauses \in [paused       : BOOLEAN,          \* Pausable
                   mintPaused   : BOOLEAN,
                   redeemPaused : BOOLEAN,
                   voltPaused   : BOOLEAN,          \* Volt's own Pausable
                   targetPaused : [Targets -> BOOLEAN]]
    /\ underlyingBalance \in [Holders -> Nat]
    /\ voltBalance \in [Holders -> Nat]
    /\ voltSupply \in Nat

------------------------------------------------------------------------------
(* Quotes *)

\* _validPrice(): strictly between floor and ceiling.
validPrice(price) ==
    /\ price > ratio(config.floor, BASIS_POINTS_GRANULARITY)
    /\ price < ratio(config.ceiling, BASIS_POINTS_GRANULARITY)

\* readOracle() and _validatePriceRange() let the quote through.
Quotable == OR!OracleReadable /\ (config.bounded => validPrice(OR!readOracle))

\* _getMintAmountOut()
MintAmountOut(amountIn) ==
    asUint256(divInt(mulInt(mulInt(OR!readOracle, amountIn),
                            BASIS_POINTS_GRANULARITY - config.mintFeeBasisPoints),
                     BASIS_POINTS_GRANULARITY))

\* Faulty variant: the fee is truncated instead of what remains.
RedeemAmountOut_RoundsUp(amountVoltIn) ==
    asUint256(divDec(
        from((amountVoltIn * (BASIS_POINTS_GRANULARITY - config.redeemFeeBasisPoints)
                + BASIS_POINTS_GRANULARITY - 1)
                 \div BASIS_POINTS_GRANULARITY),
        OR!readOracle))

\* _getRedeemAmountOut(): the fee is truncated before the price is applied.
RedeemAmountOut(amountVoltIn) ==
    asUint256(divDec(
        from((amountVoltIn * (BASIS_POINTS_GRANULARITY - config.redeemFeeBasisPoints))
                 \div BASIS_POINTS_GRANULARITY),
        OR!readOracle))

\* getMaxMintAmountOut()
MaxMintAmountOut == voltBalance[PSM] + RL!Buffer

------------------------------------------------------------------------------
(* Trades *)

\* An ERC20 transfer; the sender may be the recipient.
Transfer(balance, from_, to, amount) ==
    [[balance EXCEPT ![from_] = @ - amount] EXCEPT ![to] = @ + amount]

\* Faulty variant: the buffer is not depleted.
mintVolt_Unlimited(amount) ==
    \/ amount = 0 /\ UNCHANGED limiterVars
    \/ amount # 0 /\ ~pauses.voltPaused /\ UNCHANGED limiterVars

\* RateLimitedMinter._mintVolt(): nothing is minted for nothing; otherwise
\* the buffer must allow it and the VOLT token must not be paused.
mintVolt(amount) ==
    \/ amount = 0 /\ UNCHANGED limiterVars
    \/ amount # 0 /\ ~pauses.voltPaused /\ RL!depleteBuffer(amount)

\* Faulty variant: VOLT sold from stock is limited too.
mint_LimitsWholeAmount(caller, to, amountIn, minAmountOut) ==
    LET amountOut == MintAmountOut(amountIn)
        toTransfer == MathMin(voltBalance[PSM], amountOut)
        toMint == amountOut - toTransfer
    IN  /\ ~pauses.paused /\ ~pauses.mintPaused
        /\ Quotable
        /\ amountOut >= minAmountOut
        /\ underlyingBalance[caller] >= amountIn
        /\ underlyingBalance' =
              Transfer(underlyingBalance, caller, PSM, amountIn)
        /\ mintVolt(amountOut)
        /\ voltBalance' =
              [Transfer(voltBalance, PSM, to, toTransfer)
                  EXCEPT ![to] = @ + toMint]
        /\ voltSupply' = voltSupply + toMint
        /\ UNCHANGED <<oracleVars, config, pauses>>

\* mint(): VOLT the contract holds is sold first, the rest is minted.
mint(caller, to, amountIn, minAmountOut) ==
    LET amountOut == MintAmountOut(amountIn)
        toTransfer == MathMin(voltBalance[PSM], amountOut)
        toMint == amountOut - toTransfer
    IN  /\ ~pauses.paused /\ ~pauses.mintPaused
        /\ Quotable
        /\ amountOut >= minAmountOut
        /\ underlyingBalance[caller] >= amountIn
        /\ underlyingBalance' =
              Transfer(underlyingBalance, caller, PSM, amountIn)
        /\ mintVolt(toMint)
        /\ voltBalance' =
              [Transfer(voltBalance, PSM, to, toTransfer)
                  EXCEPT ![to] = @ + toMint]
        /\ voltSupply' = voltSupply + toMint
        /\ UNCHANGED <<oracleVars, config, pauses>>

\* redeem(): the VOLT is kept, not burned.
redeem(caller, to, amountVoltIn, minAmountOut) ==
    LET amountOut == RedeemAmountOut(amountVoltIn)
    IN  /\ ~pauses.paused /\ ~pauses.redeemPaused
        /\ Quotable
        /\ OR!readOracle # 0
        /\ amountOut >= minAmountOut
        /\ voltBalance[caller] >= amountVoltIn
        /\ voltBalance' = Transfer(voltBalance, caller, PSM, amountVoltIn)
        /\ underlyingBalance[PSM] >= amountOut
        /\ underlyingBalance' = Transfer(underlyingBalance, PSM, to, amountOut)
        /\ UNCHANGED <<voltSupply, limiterVars, oracleVars, config, pauses>>

------------------------------------------------------------------------------
(* Reserves *)

\* reservesSurplus() casts both numbers to int256 and reverts on a threshold
\* above the largest one.
SurplusReadable == config.reservesThreshold <= MAX_INT256

\* Faulty variant: the threshold is forgotten.
ReservesSurplus_Total == underlyingBalance[PSM]

ReservesSurplus == underlyingBalance[PSM] - config.reservesThreshold

\* What a PCV deposit does when its deposit() is called: it supplies all it
\* holds to its venue, unless it is paused.
Supplied(balance, t) == Transfer(balance, t, Venue, balance[t])

\* _allocate(): PegStabilityModule also calls deposit() on the target,
\* PriceBoundPSM leaves the tokens lying there.
allocate(amount) ==
    LET sent == Transfer(underlyingBalance, PSM, config.surplusTarget, amount)
    IN  IF config.bounded
        THEN underlyingBalance' = sent
        ELSE /\ ~pauses.targetPaused[config.surplusTarget]
             /\ underlyingBalance' = Supplied(sent, config.surplusTarget)

\* allocateSurplus(): reverts when there is no surplus.
allocateSurplus ==
    /\ SurplusReadable
    /\ ReservesSurplus > 0
    /\ allocate(ReservesSurplus)
    /\ UNCHANGED <<limiterVars, oracleVars, config, pauses, voltBalance,
                   voltSupply>>

\* deposit(): does nothing when there is no surplus.
deposit ==
    /\ SurplusReadable
    /\ \/ ReservesSurplus > 0 /\ allocate(ReservesSurplus)
       \/ ReservesSurplus <= 0 /\ UNCHANGED underlyingBalance
    /\ UNCHANGED <<limiterVars, oracleVars, config, pauses, voltBalance,
                   voltSupply>>

\* withdraw(), and withdrawERC20() of the underlying token.
withdraw(caller, to, amount) ==
    /\ caller \in PCVControllers
    /\ underlyingBalance[PSM] >= amount
    /\ underlyingBalance' = Transfer(underlyingBalance, PSM, to, amount)
    /\ UNCHANGED <<limiterVars, oracleVars, config, pauses, voltBalance,
                   voltSupply>>

\* withdrawERC20() of VOLT.
withdrawVolt(caller, to, amount) ==
    /\ caller \in PCVControllers
    /\ voltBalance[PSM] >= amount
    /\ voltBalance' = Transfer(voltBalance, PSM, to, amount)
    /\ UNCHANGED <<limiterVars, oracleVars, config, pauses, underlyingBalance,
                   voltSupply>>

------------------------------------------------------------------------------
(* Configuration *)

\* An authorised call that rewrites one field of the configuration.
ConfigCall(caller, newConfig) ==
    /\ caller \in GovernorsOrAdmins
    /\ config' = newConfig
    /\ UNCHANGED <<limiterVars, oracleVars, pauses, tokenVars>>

\* setMintFee()
setMintFee(caller, newFee) ==
    /\ newFee <= MAX_FEE
    /\ ConfigCall(caller, [config EXCEPT !.mintFeeBasisPoints = newFee])

\* setRedeemFee()
setRedeemFee(caller, newFee) ==
    /\ newFee <= MAX_FEE
    /\ ConfigCall(caller, [config EXCEPT !.redeemFeeBasisPoints = newFee])

\* setReservesThreshold()
setReservesThreshold(caller, newThreshold) ==
    /\ newThreshold > 0
    /\ ConfigCall(caller, [config EXCEPT !.reservesThreshold = newThreshold])

\* setSurplusTarget()
setSurplusTarget(caller, newTarget) ==
    /\ newTarget # ZeroAddress
    /\ ConfigCall(caller, [config EXCEPT !.surplusTarget = newTarget])

\* setOracleFloorBasisPoints(), of PriceBoundPSM
setOracleFloorBasisPoints(caller, newFloor) ==
    /\ config.bounded
    /\ newFloor # 0
    /\ ratio(newFloor, BASIS_POINTS_GRANULARITY)
          < ratio(config.ceiling, BASIS_POINTS_GRANULARITY)
    /\ ConfigCall(caller, [config EXCEPT !.floor = newFloor])

\* setOracleCeilingBasisPoints(), of PriceBoundPSM
setOracleCeilingBasisPoints(caller, newCeiling) ==
    /\ config.bounded
    /\ newCeiling # 0
    /\ ratio(newCeiling, BASIS_POINTS_GRANULARITY)
          > ratio(config.floor, BASIS_POINTS_GRANULARITY)
    /\ ConfigCall(caller, [config EXCEPT !.ceiling = newCeiling])

\* A call that rewrites one pause flag.
PauseCall(newPauses) ==
    /\ pauses' = newPauses
    /\ UNCHANGED <<limiterVars, oracleVars, config, tokenVars>>

\* pauseMint() and unpauseMint()
setMintPaused(caller, value) ==
    /\ caller \in Governors \cup Guardians \cup Admins
    /\ PauseCall([pauses EXCEPT !.mintPaused = value])

\* pauseRedeem() and unpauseRedeem()
setRedeemPaused(caller, value) ==
    /\ caller \in Governors \cup Guardians \cup Admins
    /\ PauseCall([pauses EXCEPT !.redeemPaused = value])

\* CoreRef's pause() and unpause() revert when it is already so.
setPaused(caller, value) ==
    /\ caller \in Governors \cup Guardians
    /\ pauses.paused # value
    /\ PauseCall([pauses EXCEPT !.paused = value])

\* What the contract inherits from RateLimited and OracleRef.
LimiterCall ==
    /\ \/ RL!Tick
       \/ \E c \in Accounts, r \in Rates : RL!setRateLimitPerSecond(c, r)
       \/ \E c \in Accounts, b \in Caps : RL!setBufferCap(c, b)
    /\ UNCHANGED <<oracleVars, config, pauses, tokenVars>>

OracleCall ==
    /\ OR!OracleRefCall
    /\ UNCHANGED <<limiterVars, config, pauses, tokenVars>>

\* An oracle answers something else from now on.
FeedMoves(o, answer) ==
    /\ feed' = [feed EXCEPT ![o] = answer]
    /\ UNCHANGED <<limiterVars, oracle, backupOracle, doInvert,
                   decimalsNormalizer, config, pauses, tokenVars>>

------------------------------------------------------------------------------
(* The tokens and the deposits, outside this contract *)

\* Somebody sends underlying tokens or VOLT to the contract.
Donate(from_, amount) ==
    /\ \/ /\ underlyingBalance[from_] >= amount
          /\ underlyingBalance' = Transfer(underlyingBalance, from_, PSM, amount)
          /\ UNCHANGED voltBalance
       \/ /\ voltBalance[from_] >= amount
          /\ voltBalance' = Transfer(voltBalance, from_, PSM, amount)
          /\ UNCHANGED underlyingBalance
    /\ UNCHANGED <<limiterVars, oracleVars, config, pauses, voltSupply>>

\* Volt.burn()
burn(caller, amount) ==
    /\ voltBalance[caller] >= amount
    /\ voltBalance' = [voltBalance EXCEPT ![caller] = @ - amount]
    /\ voltSupply' = voltSupply - amount
    /\ UNCHANGED <<limiterVars, oracleVars, config, pauses,
                   underlyingBalance>>

\* The VOLT token is a CoreRef of its own and can be paused.
setVoltPaused(caller, value) ==
    /\ caller \in Governors \cup Guardians
    /\ pauses.voltPaused # value
    /\ PauseCall([pauses EXCEPT !.voltPaused = value])

\* Anybody may call deposit() on a target; guardians may pause it.
TargetDeposit(t) ==
    /\ ~pauses.targetPaused[t]
    /\ underlyingBalance' = Supplied(underlyingBalance, t)
    /\ UNCHANGED <<limiterVars, oracleVars, config, pauses, voltBalance,
                   voltSupply>>

TargetPause(caller, t, value) ==
    /\ caller \in Governors \cup Guardians
    /\ pauses.targetPaused[t] # value
    /\ PauseCall([pauses EXCEPT !.targetPaused[t] = value])

------------------------------------------------------------------------------

\* The constructors.
Init ==
    /\ now = 0
    /\ rateLimitPerSecond = InitialRate
    /\ bufferCap = InitialCap
    /\ lastBufferUsedTime = 0
    /\ bufferStored = InitialCap
    /\ netUsed = 0
    /\ OR!Init
    /\ feed \in [Oracles -> OR!Answers]
    /\ config \in [bounded              : Deployments,
                   mintFeeBasisPoints   : Fees \cap 0..MAX_FEE,
                   redeemFeeBasisPoints : Fees \cap 0..MAX_FEE,
                   reservesThreshold    : Thresholds \ {0},
                   surplusTarget        : Targets,
                   floor                : {InitialFloor},
                   ceiling              : {InitialCeiling}]
    /\ pauses = [paused |-> FALSE, mintPaused |-> FALSE,
                 redeemPaused |-> FALSE, voltPaused |-> FALSE,
                 targetPaused |-> [t \in Targets |-> FALSE]]
    /\ underlyingBalance = [h \in Holders |->
          IF h \in Accounts THEN InitialUnderlying[h] ELSE 0]
    /\ voltBalance = [h \in Holders |->
          IF h \in Accounts THEN InitialVolt[h] ELSE 0]
    /\ voltSupply = InitialSupply

Trade ==
    \E c \in Accounts, to \in Accounts \cup {PSM}, a \in Amounts, m \in MinAmounts :
        mint(c, to, a, m) \/ redeem(c, to, a, m)

PCVWithdrawal ==
    \E c, to \in Accounts, a \in Amounts :
        withdraw(c, to, a) \/ withdrawVolt(c, to, a)

Reserves == allocateSurplus \/ deposit

Configure ==
    \E c \in Accounts :
        \/ \E f \in Fees : setMintFee(c, f) \/ setRedeemFee(c, f)
        \/ \E t \in Thresholds : setReservesThreshold(c, t)
        \/ \E t \in Targets \cup {ZeroAddress} : setSurplusTarget(c, t)
        \/ \E b \in Bounds : \/ setOracleFloorBasisPoints(c, b)
                             \/ setOracleCeilingBasisPoints(c, b)

Pausing ==
    \E c \in Accounts, value \in BOOLEAN :
        \/ setMintPaused(c, value)
        \/ setRedeemPaused(c, value)
        \/ setPaused(c, value)
        \/ setVoltPaused(c, value)
        \/ \E t \in Targets : TargetPause(c, t, value)

Environment ==
    \/ \E o \in Oracles, a \in OR!Answers : FeedMoves(o, a)
    \/ \E c \in Accounts, a \in Amounts : Donate(c, a) \/ burn(c, a)
    \/ \E t \in Targets : TargetDeposit(t)

Next ==
    \/ Trade
    \/ PCVWithdrawal
    \/ Reserves
    \/ Configure
    \/ Pausing
    \/ LimiterCall
    \/ OracleCall
    \/ Environment

Spec == Init /\ [][Next]_vars
------------------------------------------------------------------------------
(***************************************************************************)
(* Properties.                                                             *)
(***************************************************************************)

\* All the VOLT in existence, plus what could be minted at this moment, stays
\* within what was there at deployment, the initial buffer cap and the maximum
\* rate: no sequence of mints, redemptions, burns and limit changes gets
\* around the limiter, although VOLT sold from stock is not limited.
MintingIsLimited ==
    voltSupply + RL!Buffer
        <= InitialSupply + InitialCap + MAX_RATE_LIMIT_PER_SECOND * now

\* The limiter the PSM inherits is the eager token bucket: nothing the PSM does
\* besides minting touches it, and minting draws just what is minted.
MintingIsTokenBucket == RL!ImplementsTokenBucket

\* VOLT outside the contract.
Circulating == voltSupply - voltBalance[PSM]

\* Apart from PCV withdrawals, VOLT enters and leaves circulation only at the
\* oracle's price less the fee or worse for the trader, whatever mint and
\* redeem truncate on the way and whoever receives the tokens: the underlying
\* that comes in pays for the VOLT that goes out, and the reverse.  With no
\* underlying moved, VOLT can only leave circulation.
NoTradeBeatsThePrice ==
    [][Circulating' # Circulating /\ ~PCVWithdrawal =>
        LET in == underlyingBalance'[PSM] - underlyingBalance[PSM]
            out == Circulating' - Circulating
            BP == BASIS_POINTS_GRANULARITY
        IN  /\ in > 0 => out * BASE * BP
                  <= OR!readOracle * in * (BP - config.mintFeeBasisPoints)
            /\ in < 0 => -in * OR!readOracle * BP
                  <= -out * BASE * (BP - config.redeemFeeBasisPoints)
            /\ in = 0 => out < 0]_vars

\* Reserves below the threshold are for redemptions: apart from what a PCV
\* controller withdraws, they only leave against VOLT.  Nobody can push them
\* out with allocateSurplus() or deposit(), also when the threshold is the
\* largest uint256, the value that is meant to keep all reserves in place.
ThresholdProtectsReserves ==
    [][underlyingBalance'[PSM] < MathMin(underlyingBalance[PSM],
                                         config.reservesThreshold)
          => Circulating' < Circulating \/ PCVWithdrawal]_vars

\* getMaxMintAmountOut() is exact: while minting is open, an amount of VOLT
\* can be bought if and only if it is not above the number it returns.
MaxMintIsExact ==
    /\ ~pauses.paused /\ ~pauses.mintPaused /\ ~pauses.voltPaused
    /\ Quotable
    => \A c \in Accounts, a \in Amounts :
          underlyingBalance[c] >= a =>
              (MintAmountOut(a) <= MaxMintAmountOut <=> ENABLED mint(c, c, a, 0))
==============================================================================

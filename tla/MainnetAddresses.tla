--------------------------- MODULE MainnetAddresses ---------------------------
(* protocol-configuration/mainnetAddresses.ts: the registry of named addresses *)
(* that every script and proposal works from, with the artifact under which a  *)
(* script may call the contract behind a name. No two entries share an         *)
(* address, so a name stands for its address.                                  *)
EXTENDS TLC

(* Each part of the file: name |-> artifactName. *)
OracleEntries ==
    [fiewsChainlinkOracle         |-> "unknown",
     arbitrumFiewsChainlinkOracle |-> "unknown",
     scalingPriceOracle           |-> "IScalingPriceOracle",
     voltSystemOracle             |-> "VoltSystemOracle",
     oraclePassThrough            |-> "OraclePassThrough"]

TokenEntries ==
    [core |-> "Core", volt |-> "Volt", arbitrumVolt |-> "ERC20", fei |-> "Volt",
     arbitrumDai |-> "ERC20", arbitrumUsdc |-> "ERC20",
     mplPool |-> "unknown", mplRewards |-> "unknown",
     globalRateLimitedMinter |-> "IGlobalRateLimitedMinter"]

DepositEntries ==
    [daiMorphoCompoundPCVDeposit  |-> "MorphoCompoundPCVDeposit",
     usdcMorphoCompoundPCVDeposit |-> "MorphoCompoundPCVDeposit",
     morphoCompoundPCVRouter      |-> "CompoundPCVRouter",
     morphoCompound               |-> "unknown",
     morphoCompoundLens           |-> "unknown",
     daiCompoundPCVDeposit        |-> "ERC20CompoundPCVDeposit",
     feiCompoundPCVDeposit        |-> "ERC20CompoundPCVDeposit",
     usdcCompoundPCVDeposit       |-> "ERC20CompoundPCVDeposit"]

PegEntries ==
    [feiPriceBoundPSM  |-> "PriceBoundPSM",
     usdcPriceBoundPSM |-> "PriceBoundPSM",
     daiPriceBoundPSM  |-> "PriceBoundPSM",
     makerRouter       |-> "MakerRouter",
     compoundPCVRouter |-> "CompoundPCVRouter",
     erc20Allocator    |-> "ERC20Allocator"]

GovernanceEntries ==
    [multisig |-> "unknown", protocolMultisig |-> "unknown",
     arbitrumProtocolMultisig |-> "unknown",
     timelockController |-> "TimelockController",
     optimisticTimelock |-> "TimelockController"]

ExternalEntries ==
    [makerDaiUsdcPSM |-> "unknown", makerGemJoin |-> "unknown",
     feiDaiFixedPricePSM |-> "unknown", feiDAOTimelock |-> "unknown",
     tribalCouncilTimelock |-> "unknown",
     feiVoltOTCSwap |-> "OtcEscrow", otcEscrowRepayment |-> "OtcEscrow",
     dai |-> "ERC20", usdc |-> "ERC20",
     cDai |-> "unknown", cFei |-> "unknown", cUsdc |-> "unknown",
     pool8Fei |-> "unknown"]

GuardEntries ==
    [pcvGuardian |-> "PCVGuardian", pcvGuardAdmin |-> "PCVGuardAdmin",
     pcvGuardEOA1 |-> "unknown", pcvGuardEOA2 |-> "unknown",
     pcvGuardEOA3 |-> "unknown", pcvGuardRevoked1 |-> "unknown"]

ArbitrumEntries ==
    [arbitrumCore                        |-> "L2Core",
     arbitrumOptimisticTimelock          |-> "TimelockController",
     arbitrumTimelockController          |-> "TimelockController",
     deprecatedArbitrumVoltSystemOracle  |-> "VoltSystemOracle",
     arbitrumVoltSystemOracle0BasisPoints |-> "VoltSystemOracle",
     arbitrumOraclePassThrough           |-> "OraclePassThrough",
     arbitrumPCVGuardAdmin               |-> "PCVGuardAdmin",
     arbitrumPCVGuardian                 |-> "PCVGuardian",
     arbitrumDAIPSM                      |-> "PriceBoundPSM",
     arbitrumUSDCPSM                     |-> "PriceBoundPSM",
     zeroAddress                         |-> "unknown"]

Registry ==
    OracleEntries @@ TokenEntries @@ DepositEntries @@ PegEntries @@
    GovernanceEntries @@ ExternalEntries @@ GuardEntries @@ ArbitrumEntries

-------------------------------------------------------------------------------

(* getAllContractAddresses, getAllContracts: a script sees every name of the   *)
(* registry, but may call only those whose artifact is known.                  *)
AllContractAddresses == DOMAIN Registry

AllContracts == {n \in DOMAIN Registry : Registry[n] # "unknown"}
===============================================================================

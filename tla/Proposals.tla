------------------------------ MODULE Proposals -------------------------------
(* The governance proposals in proposals/: the commands of each, with the      *)
(* names of the registry in place of addresses, and the functions that         *)
(* proposals/dao/ exports for it. Amounts of tokens and the prices and dates   *)
(* of oracles are left out.                                                    *)
EXTENDS ContractCalls

(* ProposalCommand: method do of target to, with arguments that are names of   *)
(* the registry in braces, followed by the ones that are literals.             *)
Command(to, do, names, literals) ==
    [to |-> to, do |-> do, names |-> names, literals |-> literals]

(* UpgradeFuncs: the contracts deploy creates and returns, with other names    *)
(* under which commands know them; the facts their constructors, and calls of  *)
(* deploy, establish; the calls setup makes; what validate expects to hold,    *)
(* and what not to hold. Facts name contracts as commands do.                  *)
UpgradeFuncs(deploys, known, constructs, setup, holds, absent) ==
    [deploys |-> deploys, known |-> known, constructs |-> constructs,
     setup |-> setup, holds |-> holds, absent |-> absent]

(* What facts mention besides names. *)
Literals == {"GOVERN", "GUARDIAN", "PCV_CONTROLLER", "MINTER", "mint", "redeem", "0", "5",
             "decimalNormalizer"}

NamesIn(facts) == UNION {Range(Tail(f)) : f \in facts} \ Literals

-------------------------------------------------------------------------------
(* Mainnet *)

VIP_1 == <<Command("core", "grantPCVController", <<"optimisticTimelock">>, <<>>)>>

Dao_1 ==
    UpgradeFuncs({}, <<>>, {},
        <<Command("core", "grantGovernor", <<"optimisticTimelock">>, <<>>)>>,
        {<<"role", "core", "GOVERN", "optimisticTimelock">>,
         <<"role", "core", "PCV_CONTROLLER", "optimisticTimelock">>}, {})

VIP_2 ==
    <<Command("usdcPriceBoundPSM", "setOracle", <<"voltSystemOraclePassThrough">>, <<>>),
      Command("feiPriceBoundPSM", "setOracle", <<"voltSystemOraclePassThrough">>, <<>>),
      Command("usdcPriceBoundPSM", "setMintFee", <<>>, <<"0">>),
      Command("feiPriceBoundPSM", "setMintFee", <<>>, <<"0">>)>>

Dao_2 ==
    LET linked == {<<"quotes", "voltSystemOracle">>,
                   <<"source", "oraclePassThrough", "voltSystemOracle">>,
                   <<"owner", "oraclePassThrough", "timelockController">>}
    IN  UpgradeFuncs({"voltSystemOracle", "oraclePassThrough"},
            [voltSystemOraclePassThrough |-> "oraclePassThrough"],
            linked, <<>>,
            linked \cup
            UNION {{<<"oracle", psm, "oraclePassThrough">>, <<"mintFee", psm, "0">>} :
                   psm \in {"feiPriceBoundPSM", "usdcPriceBoundPSM"}}, {})

VIP_4 ==
    <<Command("pcvGuardAdmin", "revokePCVGuardRole", <<"pcvGuardRevoked1">>, <<>>),
      Command("core", "revokeGuardian", <<"pcvGuardEOA1">>, <<>>),
      Command("core", "revokeMinter", <<"globalRateLimitedMinter">>, <<>>),
      Command("core", "revokePCVController", <<"nonCustodialFusePSM">>, <<>>),
      Command("core", "revokeGuardian", <<"protocolMultisig">>, <<>>),
      Command("pcvGuardAdmin", "grantPCVGuardRole", <<"pcvGuardEOA1">>, <<>>),
      Command("pcvGuardAdmin", "grantPCVGuardRole", <<"pcvGuardEOA2">>, <<>>),
      Command("pcvGuardAdmin", "grantPCVGuardRole", <<"pcvGuardEOA3">>, <<>>)>>

VIP_7 ==
    <<Command("feiPriceBoundPSM", "pauseMint", <<>>, <<>>),
      Command("pcvGuardian", "addWhitelistAddress", <<"daiPriceBoundPSM">>, <<>>),
      Command("usdcPriceBoundPSM", "unpauseRedeem", <<>>, <<>>),
      Command("daiPriceBoundPSM", "setOracle", <<"voltSystemOraclePassThrough">>, <<>>)>>

(* setup calls connnect, and validate decimalNormalizer; neither is a method.  *)
Dao_7 ==
    UpgradeFuncs({"daiPriceBoundPSM", "makerRouter"}, <<>>,
        {<<"core", "daiPriceBoundPSM", "core">>, <<"token", "daiPriceBoundPSM", "dai">>,
         <<"oracle", "daiPriceBoundPSM", "voltSystemOraclePassThrough">>,
         <<"mintFee", "daiPriceBoundPSM", "0">>, <<"redeemFee", "daiPriceBoundPSM", "0">>,
         <<"core", "makerRouter", "core">>},
        <<Command("volt", "connnect", <<>>, <<>>)>>,
        {<<"oracle", "daiPriceBoundPSM", "voltSystemOraclePassThrough">>,
         <<"token", "daiPriceBoundPSM", "dai">>,
         <<"redeemFee", "daiPriceBoundPSM", "0">>,
         <<"method", "daiPriceBoundPSM", "decimalNormalizer">>,
         <<"mintFee", "daiPriceBoundPSM", "0">>,
         <<"paused", "feiPriceBoundPSM", "mint">>,
         <<"listed", "pcvGuardian", "daiPriceBoundPSM">>,
         <<"core", "makerRouter", "core">>},
        {<<"paused", "usdcPriceBoundPSM", "redeem">>})

VIP_9 ==
    <<Command("pcvGuardian", "addWhitelistAddresses",
              <<"daiCompoundPCVDeposit", "feiCompoundPCVDeposit", "usdcCompoundPCVDeposit">>,
              <<>>)>>

Dao_9 ==
    LET token == [daiCompoundPCVDeposit |-> "dai", feiCompoundPCVDeposit |-> "fei",
                  usdcCompoundPCVDeposit |-> "usdc"]
        built == UNION {{<<"core", d, "core">>, <<"token", d, token[d]>>} : d \in DOMAIN token}
    IN  UpgradeFuncs(DOMAIN token, <<>>, built, <<>>,
            built \cup {<<"listed", "pcvGuardian", d>> : d \in DOMAIN token}, {})

(* Faulty: lists the deposits again that VIP-9 lists. *)
VIP_10_ListsDeposits ==
    <<Command("erc20Allocator", "connectPSM", <<"usdcPriceBoundPSM">>, <<"1e11", "12">>),
      Command("erc20Allocator", "connectPSM", <<"daiPriceBoundPSM">>, <<"1e23", "0">>),
      Command("erc20Allocator", "connectDeposit",
              <<"daiPriceBoundPSM", "daiCompoundPCVDeposit">>, <<>>),
      Command("erc20Allocator", "connectDeposit",
              <<"usdcPriceBoundPSM", "usdcCompoundPCVDeposit">>, <<>>),
      Command("pcvGuardian", "addWhitelistAddresses",
              <<"daiCompoundPCVDeposit", "usdcCompoundPCVDeposit">>, <<>>),
      Command("core", "grantPCVController", <<"erc20Allocator">>, <<>>)>>

VIP_10 ==
    <<Command("erc20Allocator", "connectPSM", <<"usdcPriceBoundPSM">>, <<"1e11", "12">>),
      Command("erc20Allocator", "connectPSM", <<"daiPriceBoundPSM">>, <<"1e23", "0">>),
      Command("erc20Allocator", "connectDeposit",
              <<"daiPriceBoundPSM", "daiCompoundPCVDeposit">>, <<>>),
      Command("erc20Allocator", "connectDeposit",
              <<"usdcPriceBoundPSM", "usdcCompoundPCVDeposit">>, <<>>),
      Command("core", "grantPCVController", <<"erc20Allocator">>, <<>>)>>

Dao_10 ==
    UpgradeFuncs({"erc20Allocator"}, <<>>, {<<"core", "erc20Allocator", "core">>}, <<>>,
        {<<"role", "core", "PCV_CONTROLLER", "erc20Allocator">>,
         <<"core", "erc20Allocator", "core">>,
         <<"psm", "erc20Allocator", "daiPriceBoundPSM">>,
         <<"link", "erc20Allocator", "daiCompoundPCVDeposit", "daiPriceBoundPSM">>,
         <<"psm", "erc20Allocator", "usdcPriceBoundPSM">>,
         <<"link", "erc20Allocator", "usdcCompoundPCVDeposit", "usdcPriceBoundPSM">>}, {})

VIP_11 ==
    <<Command("oraclePassThrough", "updateScalingPriceOracle", <<"voltSystemOracle">>, <<>>)>>

Dao_11 ==
    UpgradeFuncs({"voltSystemOracle"}, <<>>, {<<"quotes", "voltSystemOracle">>}, <<>>,
        {<<"quotes", "voltSystemOracle">>,
         <<"source", "oraclePassThrough", "voltSystemOracle">>,
         <<"owner", "oraclePassThrough", "timelockController">>}, {})

(* Faulty: takes the allocator's role, which the router does not replace. *)
VIP_12_ReplacesAllocator ==
    <<Command("core", "revokePCVController", <<"erc20Allocator">>, <<>>),
      Command("core", "grantPCVController", <<"compoundPCVRouter">>, <<>>)>>

VIP_12 == <<Command("core", "grantPCVController", <<"compoundPCVRouter">>, <<>>)>>

Dao_12 ==
    LET built == {<<"core", "compoundPCVRouter", "core">>,
                  <<"routes", "compoundPCVRouter",
                    "daiCompoundPCVDeposit", "usdcCompoundPCVDeposit">>}
    IN  UpgradeFuncs({"compoundPCVRouter"}, <<>>, built, <<>>,
            built \cup {<<"role", "core", "PCV_CONTROLLER", "compoundPCVRouter">>}, {})

(* Faulty: the router of the old deposits keeps its role. *)
VIP_14_KeepsOldRouter ==
    <<Command("core", "grantPCVController", <<"morphoCompoundPCVRouter">>, <<>>),
      Command("erc20Allocator", "deleteDeposit", <<"daiCompoundPCVDeposit">>, <<>>),
      Command("erc20Allocator", "deleteDeposit", <<"usdcCompoundPCVDeposit">>, <<>>),
      Command("erc20Allocator", "connectDeposit",
              <<"daiPriceBoundPSM", "daiMorphoCompoundPCVDeposit">>, <<>>),
      Command("erc20Allocator", "connectDeposit",
              <<"usdcPriceBoundPSM", "usdcMorphoCompoundPCVDeposit">>, <<>>),
      Command("pcvGuardian", "addWhitelistAddresses",
              <<"daiMorphoCompoundPCVDeposit", "usdcMorphoCompoundPCVDeposit">>, <<>>),
      Command("daiCompoundPCVDeposit", "pause", <<>>, <<>>),
      Command("usdcCompoundPCVDeposit", "pause", <<>>, <<>>)>>

VIP_14 ==
    <<Command("core", "grantPCVController", <<"morphoCompoundPCVRouter">>, <<>>),
      Command("core", "revokePCVController", <<"compoundPCVRouter">>, <<>>),
      Command("erc20Allocator", "deleteDeposit", <<"daiCompoundPCVDeposit">>, <<>>),
      Command("erc20Allocator", "deleteDeposit", <<"usdcCompoundPCVDeposit">>, <<>>),
      Command("erc20Allocator", "connectDeposit",
              <<"daiPriceBoundPSM", "daiMorphoCompoundPCVDeposit">>, <<>>),
      Command("erc20Allocator", "connectDeposit",
              <<"usdcPriceBoundPSM", "usdcMorphoCompoundPCVDeposit">>, <<>>),
      Command("pcvGuardian", "addWhitelistAddresses",
              <<"daiMorphoCompoundPCVDeposit", "usdcMorphoCompoundPCVDeposit">>, <<>>),
      Command("daiCompoundPCVDeposit", "pause", <<>>, <<>>),
      Command("usdcCompoundPCVDeposit", "pause", <<>>, <<>>)>>

Dao_14 ==
    LET deposits == {"daiMorphoCompoundPCVDeposit", "usdcMorphoCompoundPCVDeposit"}
        built ==
            {<<"core", c, "core">> : c \in deposits \cup {"morphoCompoundPCVRouter"}} \cup
            {<<"token", "daiMorphoCompoundPCVDeposit", "dai">>,
             <<"token", "usdcMorphoCompoundPCVDeposit", "usdc">>,
             <<"routes", "morphoCompoundPCVRouter",
               "daiMorphoCompoundPCVDeposit", "usdcMorphoCompoundPCVDeposit">>}
    IN  UpgradeFuncs(deposits \cup {"morphoCompoundPCVRouter"}, <<>>, built, <<>>,
            built \cup
            {<<"listed", "pcvGuardian", d>> :
             d \in deposits \cup {"daiCompoundPCVDeposit", "usdcCompoundPCVDeposit"}} \cup
            {<<"role", "core", "PCV_CONTROLLER", "morphoCompoundPCVRouter">>,
             <<"link", "erc20Allocator", "daiMorphoCompoundPCVDeposit", "daiPriceBoundPSM">>,
             <<"link", "erc20Allocator", "usdcMorphoCompoundPCVDeposit", "usdcPriceBoundPSM">>},
            {<<"role", "core", "PCV_CONTROLLER", "compoundPCVRouter">>,
             <<"link", "erc20Allocator", "daiCompoundPCVDeposit", "daiPriceBoundPSM">>,
             <<"link", "erc20Allocator", "usdcCompoundPCVDeposit", "usdcPriceBoundPSM">>})

-------------------------------------------------------------------------------
(* Arbitrum *)

VIP_2_arbitrum ==
    <<Command("arbitrumDAIPSM", "setOracle", <<"arbitrumOraclePassThrough">>, <<>>),
      Command("arbitrumUSDCPSM", "setOracle", <<"arbitrumOraclePassThrough">>, <<>>),
      Command("arbitrumDAIPSM", "setMintFee", <<>>, <<"5">>),
      Command("arbitrumUSDCPSM", "setMintFee", <<>>, <<"5">>)>>

(* The commands know the new contract by another name than validate does. *)
Dao_2_arbitrum ==
    LET linked == {<<"quotes", "voltSystemOracleArbitrum">>,
                   <<"source", "oraclePassThroughArbitrum", "voltSystemOracleArbitrum">>,
                   <<"owner", "oraclePassThroughArbitrum", "arbitrumTimelockController">>}
    IN  UpgradeFuncs({"voltSystemOracleArbitrum", "oraclePassThroughArbitrum"},
            [arbitrumOraclePassThrough |-> "oraclePassThroughArbitrum"],
            linked, <<>>,
            linked \cup
            UNION {{<<"oracle", psm, "oraclePassThroughArbitrum">>, <<"mintFee", psm, "5">>} :
                   psm \in {"arbitrumDAIPSM", "arbitrumUSDCPSM"}}, {})

VIP_4_arbitrum ==
    <<Command("arbitrumPCVGuardAdmin", "revokePCVGuardRole", <<"pcvGuardRevoked1">>, <<>>),
      Command("arbitrumCore", "revokeGuardian", <<"pcvGuardEOA1">>, <<>>),
      Command("arbitrumCore", "revokePCVController", <<"arbitrumOptimisticTimelock">>, <<>>),
      Command("arbitrumPCVGuardAdmin", "grantPCVGuardRole", <<"pcvGuardEOA1">>, <<>>),
      Command("arbitrumPCVGuardAdmin", "grantPCVGuardRole", <<"pcvGuardEOA2">>, <<>>),
      Command("arbitrumPCVGuardAdmin", "grantPCVGuardRole", <<"pcvGuardEOA3">>, <<>>)>>

VIP_6_arbitrum ==
    <<Command("arbitrumDAIPSM", "setMintFee", <<>>, <<"0">>),
      Command("arbitrumDAIPSM", "setRedeemFee", <<>>, <<"0">>),
      Command("arbitrumUSDCPSM", "setMintFee", <<>>, <<"0">>),
      Command("arbitrumUSDCPSM", "setRedeemFee", <<>>, <<"0">>)>>

Dao_6_arbitrum ==
    UpgradeFuncs({}, <<>>, {}, <<>>,
        {<<fee, psm, "0">> : fee \in {"mintFee", "redeemFee"},
                             psm \in {"arbitrumDAIPSM", "arbitrumUSDCPSM"}}, {})

VIP_11_arbitrum ==
    <<Command("arbitrumOraclePassThrough", "updateScalingPriceOracle",
              <<"arbitrumVoltSystemOracle">>, <<>>)>>

Dao_11_arbitrum ==
    UpgradeFuncs({"arbitrumVoltSystemOracle"}, <<>>, {<<"quotes", "arbitrumVoltSystemOracle">>},
        <<>>,
        {<<"quotes", "arbitrumVoltSystemOracle">>,
         <<"source", "arbitrumOraclePassThrough", "arbitrumVoltSystemOracle">>,
         <<"owner", "arbitrumOraclePassThrough", "arbitrumTimelockController">>}, {})

VIP_14_arbitrum ==
    <<Command("arbitrumOraclePassThrough", "updateScalingPriceOracle",
              <<"voltSystemOracle0Bips">>, <<>>),
      Command("arbitrumUSDCPSM", "pauseMint", <<>>, <<>>),
      Command("arbitrumDAIPSM", "pauseMint", <<>>, <<>>)>>

(* The registry lists the new oracle under another name than deploy's. *)
Dao_14_arbitrum ==
    UpgradeFuncs({"voltSystemOracle0Bips"},
        [arbitrumVoltSystemOracle0BasisPoints |-> "voltSystemOracle0Bips"],
        {<<"quotes", "voltSystemOracle0Bips">>}, <<>>,
        {<<"quotes", "voltSystemOracle0Bips">>, <<"quotes", "arbitrumVoltSystemOracle">>,
         <<"source", "arbitrumOraclePassThrough", "voltSystemOracle0Bips">>,
         <<"paused", "arbitrumDAIPSM", "mint">>, <<"paused", "arbitrumUSDCPSM", "mint">>}, {})

-------------------------------------------------------------------------------
(* By name, as the scripts import them. There is no file in proposals/dao/ for *)
(* VIP-4.                                                                      *)

Commands ==
    [vip_1 |-> VIP_1, vip_2 |-> VIP_2, vip_4 |-> VIP_4, vip_7 |-> VIP_7, vip_9 |-> VIP_9,
     vip_10 |-> VIP_10, vip_11 |-> VIP_11, vip_12 |-> VIP_12, vip_14 |-> VIP_14,
     vip_2_arbitrum |-> VIP_2_arbitrum, vip_4_arbitrum |-> VIP_4_arbitrum,
     vip_6_arbitrum |-> VIP_6_arbitrum, vip_11_arbitrum |-> VIP_11_arbitrum,
     vip_14_arbitrum |-> VIP_14_arbitrum]

Dao ==
    [vip_1 |-> Dao_1, vip_2 |-> Dao_2, vip_7 |-> Dao_7, vip_9 |-> Dao_9, vip_10 |-> Dao_10,
     vip_11 |-> Dao_11, vip_12 |-> Dao_12, vip_14 |-> Dao_14,
     vip_2_arbitrum |-> Dao_2_arbitrum, vip_6_arbitrum |-> Dao_6_arbitrum,
     vip_11_arbitrum |-> Dao_11_arbitrum, vip_14_arbitrum |-> Dao_14_arbitrum]
===============================================================================

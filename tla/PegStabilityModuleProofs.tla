---------------------- MODULE PegStabilityModuleProofs -----------------------
(***************************************************************************)
(* Proofs about PegStabilityModule, for any accounts, prices, fees, rates  *)
(* and amounts, and for both kinds of contract.                            *)
(*                                                                         *)
(* RateLimited is RateLimitedV2 without replenishment, so the limiter of   *)
(* the contract is shown to take only steps of RateLimitedV2, and what is  *)
(* proved of that is used.  PSMInv is the types of prices and balances;    *)
(* with it a quote is a number, and what is minted is neither negative nor *)
(* more than the buffer.                                                   *)
(*                                                                         *)
(* What all holders have together is a sum over a finite set.  Each call   *)
(* is reduced to transfers, which move the sum over any group of holders   *)
(* by what crosses its border (TransferMoves).  Conservation takes all     *)
(* holders for the group, and the theorem on what backs VOLT those who do  *)
(* not trade.                                                              *)
(***************************************************************************)
EXTENDS PegStabilityModule, FiniteSetTheorems, TLAPS

\* What may be minted at once, under any cap.
Mintable == UNION {0..c : c \in Caps \cup {InitialCap}}

RLP == INSTANCE RateLimitedV2Proofs WITH
           Governors <- GovernorsOrAdmins,
           Amounts <- Mintable,
           MaxReplenished <- 0

Scale(n) == OR!Pow10[OR!MathMax(n, -n)]

OracleInv ==
    /\ oracle \in Oracles
    /\ backupOracle \in Oracles \cup {ZeroAddress}
    /\ doInvert \in BOOLEAN
    /\ decimalsNormalizer \in Int
    /\ Scale(decimalsNormalizer) \in Nat \ {0}
    /\ feed \in [Oracles -> OR!Answers]

ConfigInv ==
    config \in [bounded              : Deployments,
                mintFeeBasisPoints   : 0..MAX_FEE,
                redeemFeeBasisPoints : 0..MAX_FEE,
                reservesThreshold    : Nat \ {0},
                surplusTarget        : Targets,
                floor                : Nat,
                ceiling              : Nat]

LedgerInv ==
    /\ underlyingBalance \in [Holders -> Int]
    /\ voltBalance \in [Holders -> Int]
    /\ voltSupply \in Int
    /\ bufferCap \in Caps \cup {InitialCap}

PSMInv == OracleInv /\ ConfigInv /\ LedgerInv

\* The limiter's parameters are those RateLimitedV2 asks for.
LEMMA LimiterAssumption == RLP!RateLimitedV2Assumption
<1>1. GovernorsOrAdmins \subseteq Accounts
    BY PegStabilityModuleAssumption DEF GovernorsOrAdmins
<1>2. Mintable \subseteq Nat
    BY PegStabilityModuleAssumption DEF Mintable
<1> QED BY <1>1, <1>2, PegStabilityModuleAssumption DEF RLP!RateLimitedV2Assumption

------------------------------------------------------------------------------
(* Quotes *)

\* A power of ten is a positive number.
LEMMA PowerNat ==
    ASSUME NEW n \in Int
    PROVE  Scale(n) \in Nat \ {0}
<1>1. OR!Pow10 = RLP!Pow10
    BY DEF OR!Pow10, RLP!Pow10
<1>2. \A k \in Nat : OR!Pow10[k] \in Nat \ {0}
    BY <1>1, RLP!PowersOfTen, LimiterAssumption
<1>3. OR!MathMax(n, -n) \in Nat
    BY DEF OR!MathMax
<1> QED BY <1>2, <1>3 DEF Scale

\* Changing the sign of a normalizer keeps the power.
LEMMA ScaleOfOpposite ==
    ASSUME NEW n \in Int
    PROVE  -n \in Int /\ Scale(-n) = Scale(n)
<1>1. -n \in Int /\ OR!MathMax(-n, -(-n)) = OR!MathMax(n, -n)
    BY DEF OR!MathMax
<1> QED BY <1>1 DEF Scale

\* Division of natural numbers is what remains when the remainder is taken off.
LEMMA Quotient ==
    ASSUME NEW a \in Nat, NEW b \in Nat \ {0}
    PROVE  /\ a \div b \in Nat
           /\ b * (a \div b) <= a
           /\ a < b * (a \div b) + b
OBVIOUS

\* A price that can be read is a natural number.
LEMMA PriceNat ==
    ASSUME PSMInv, OR!OracleReadable
    PROVE  OR!readOracle \in Nat
<1> DEFINE answer == feed[OR!Source].value
           s == Scale(decimalsNormalizer)
           peg == IF doInvert THEN (BASE * BASE) \div answer ELSE answer
<1>1. OR!Source \in Oracles
    BY DEF PSMInv, OracleInv, OR!Source, OR!OracleReadable
<1>2. answer \in Nat /\ (doInvert => answer # 0)
    BY <1>1, PegStabilityModuleAssumption
    DEF PSMInv, OracleInv, OR!Answers, OR!OracleReadable
<1>3. peg \in Nat
    <2>1. BASE * BASE \in Nat
        BY PegStabilityModuleAssumption
    <2> QED BY <1>2, <2>1, Quotient
<1>4. s \in Nat \ {0} /\ decimalsNormalizer \in Int
    BY DEF PSMInv, OracleInv
<1> HIDE DEF s
<1>5. OR!readOracle = IF decimalsNormalizer < 0 THEN peg \div s ELSE peg * s
    <2>1. OR!MathMax(decimalsNormalizer, -decimalsNormalizer)
             = IF decimalsNormalizer < 0 THEN -decimalsNormalizer
                                         ELSE decimalsNormalizer
        BY <1>4 DEF OR!MathMax
    <2> QED BY <1>4, <2>1
            DEF s, Scale, OR!readOracle, OR!normalize, OR!divInt, OR!mulInt,
                OR!invert, OR!divDec, OR!one, OR!getPartial
<1> HIDE DEF peg
<1>6. peg \div s \in Nat /\ peg * s \in Nat
    BY <1>3, <1>4, Quotient
<1> QED BY <1>5, <1>6

\* _getMintAmountOut() truncates: what it answers is paid for at the price less
\* the fee.
LEMMA MintQuote ==
    ASSUME PSMInv, Quotable, NEW a \in Nat
    PROVE  /\ MintAmountOut(a) \in Nat
           /\ MintAmountOut(a) * BASE * BASIS_POINTS_GRANULARITY
                 <= OR!readOracle * a
                       * (BASIS_POINTS_GRANULARITY - config.mintFeeBasisPoints)
           /\ a = 0 => MintAmountOut(a) = 0
<1> DEFINE BP == BASIS_POINTS_GRANULARITY
           net == BP - config.mintFeeBasisPoints
           due == OR!readOracle * a * net
           q == due \div BP
<1>1. BP \in Nat \ {0} /\ BASE \in Nat \ {0}
    BY PegStabilityModuleAssumption
<1>2. net \in Nat
    BY <1>1, PegStabilityModuleAssumption DEF PSMInv, ConfigInv
<1>3. due \in Nat /\ (a = 0 => due = 0)
    <2>1. OR!readOracle \in Nat
        BY PriceNat DEF Quotable
    <2> HIDE DEF net
    <2>2. OR!readOracle * a \in Nat /\ (a = 0 => OR!readOracle * a = 0)
        BY <2>1
    <2>3. (OR!readOracle * a) * net \in Nat /\ 0 * net = 0
        BY <1>2, <2>2
    <2> QED BY <2>2, <2>3
<1>4. MintAmountOut(a) = q \div BASE
    BY DEF MintAmountOut, asUint256, divInt, mulInt
<1> HIDE DEF BP, due
<1>5. q \in Nat /\ BP * q <= due /\ (due = 0 => q = 0)
    BY <1>1, <1>3, Quotient
<1> HIDE DEF q
<1> DEFINE out == q \div BASE
<1>6. out \in Nat /\ BASE * out <= q /\ (q = 0 => out = 0)
    BY <1>1, <1>5, Quotient
<1> HIDE DEF out
<1>7. out * BASE * BP <= due
    <2>1. out * BASE \in Nat /\ out * BASE <= q
        BY <1>1, <1>6
    <2> DEFINE ob == out * BASE
    <2> HIDE DEF ob
    <2>2. ob * BP <= q * BP
        BY <1>1, <1>5, <2>1 DEF ob
    <2> QED BY <1>1, <1>3, <1>5, <2>1, <2>2 DEF ob
<1> QED BY <1>3, <1>4, <1>5, <1>6, <1>7 DEF out, due, BP

\* _getRedeemAmountOut() truncates: what it pays is covered by the VOLT less the
\* fee, at the price.
LEMMA RedeemQuote ==
    ASSUME PSMInv, Quotable, OR!readOracle # 0, NEW v \in Nat
    PROVE  /\ RedeemAmountOut(v) \in Nat
           /\ RedeemAmountOut(v) * OR!readOracle * BASIS_POINTS_GRANULARITY
                 <= v * BASE
                      * (BASIS_POINTS_GRANULARITY - config.redeemFeeBasisPoints)
           /\ v = 0 => RedeemAmountOut(v) = 0
<1> DEFINE BP == BASIS_POINTS_GRANULARITY
           net == BP - config.redeemFeeBasisPoints
           price == OR!readOracle
           f == (v * net) \div BP
           q == (f * BASE * BASE) \div price
           out == q \div BASE
<1>1. BP \in Nat \ {0} /\ BASE \in Nat \ {0}
    BY PegStabilityModuleAssumption
<1>2. net \in Nat
    BY <1>1, PegStabilityModuleAssumption DEF PSMInv, ConfigInv
<1>3. price \in Nat \ {0}
    BY PriceNat DEF Quotable
<1>4. RedeemAmountOut(v) = out
    BY DEF RedeemAmountOut, asUint256, divDec, getPartial, from
<1> HIDE DEF BP, net, price
<1>5. v * net \in Nat /\ (v = 0 => v * net = 0)
    BY <1>2
<1>6. f \in Nat /\ BP * f <= v * net /\ (v = 0 => f = 0)
    BY <1>1, <1>5, Quotient
<1> HIDE DEF f
<1>7. f * BASE * BASE \in Nat /\ (f = 0 => f * BASE * BASE = 0)
    BY <1>1, <1>6
<1>8. q \in Nat /\ price * q <= f * BASE * BASE /\ (f = 0 => q = 0)
    BY <1>3, <1>7, Quotient
<1> HIDE DEF q
<1>9. out \in Nat /\ BASE * out <= q /\ (q = 0 => out = 0)
    BY <1>1, <1>8, Quotient
<1> HIDE DEF out
<1>10. out * price <= f * BASE
    <2> DEFINE x == out * price
               y == f * BASE
    <2>1. x \in Nat /\ y \in Nat
        BY <1>1, <1>3, <1>6, <1>9
    <2>2. x * BASE <= y * BASE
        <3>1. price * (BASE * out) <= price * q /\ price * (BASE * out) = x * BASE
            BY <1>1, <1>3, <1>8, <1>9
        <3> QED BY <1>1, <1>3, <1>7, <1>8, <2>1, <3>1
    <2> HIDE DEF x, y
    <2>3. x <= y
        BY <1>1, <2>1, <2>2
    <2> QED BY <2>3 DEF x, y
<1>11. out * price * BP <= v * BASE * net
    <2>1. (out * price) * BP <= (f * BASE) * BP
        <3> DEFINE x == out * price
                   y == f * BASE
        <3>1. x \in Nat /\ y \in Nat /\ x <= y
            BY <1>1, <1>3, <1>6, <1>9, <1>10
        <3> HIDE DEF x, y
        <3>2. x * BP <= y * BP
            BY <1>1, <3>1
        <3> QED BY <3>2 DEF x, y
    <2>2. (f * BASE) * BP = (BP * f) * BASE /\ (v * net) * BASE = v * BASE * net
        BY <1>1, <1>2, <1>6
    <2>3. (BP * f) * BASE <= (v * net) * BASE
        <3> DEFINE x == BP * f
                   y == v * net
        <3>1. x \in Nat /\ y \in Nat /\ x <= y
            BY <1>1, <1>5, <1>6
        <3> HIDE DEF x, y
        <3>2. x * BASE <= y * BASE
            BY <1>1, <3>1
        <3> QED BY <3>2 DEF x, y
    <2>4. /\ (out * price) * BP \in Nat /\ (f * BASE) * BP \in Nat
          /\ (v * net) * BASE \in Nat
        BY <1>1, <1>2, <1>3, <1>6, <1>9
    <2> QED BY <2>1, <2>2, <2>3, <2>4
<1> QED BY <1>4, <1>6, <1>8, <1>9, <1>11 DEF price, BP, net

\* A quotient does not fall when what is divided rises, and dividing two parts
\* truncates no less than dividing the whole.
LEMMA QuotientOfParts ==
    ASSUME NEW x \in Nat, NEW y \in Nat, NEW d \in Nat \ {0}
    PROVE  /\ (x \div d) + (y \div d) <= (x + y) \div d
           /\ x <= y => x \div d <= y \div d
<1> DEFINE p == x \div d
           q == y \div d
           r == (x + y) \div d
<1>1. /\ p \in Nat /\ d * p <= x /\ x < d * p + d
      /\ q \in Nat /\ d * q <= y /\ y < d * q + d
      /\ r \in Nat /\ d * r <= x + y /\ x + y < d * r + d
    <2>1. x + y \in Nat
        OBVIOUS
    <2> QED BY <2>1, Quotient
<1> HIDE DEF p, q, r
<1>2. ASSUME p + q > r PROVE FALSE
    <2>1. r + 1 <= p + q
        BY <1>1, <1>2
    <2>2. d * (r + 1) <= d * (p + q)
        BY <1>1, <2>1
    <2>3. d * (r + 1) = d * r + d /\ d * (p + q) = d * p + d * q
        BY <1>1
    <2>4. d * p \in Int /\ d * q \in Int /\ d * r \in Int
        BY <1>1
    <2> QED BY <1>1, <2>2, <2>3, <2>4
<1>3. ASSUME x <= y, p > q PROVE FALSE
    <2>1. q + 1 <= p
        BY <1>1, <1>3
    <2>2. d * (q + 1) <= d * p
        BY <1>1, <2>1
    <2>3. d * (q + 1) = d * q + d /\ d * p \in Int /\ d * q \in Int
        BY <1>1
    <2> QED BY <1>1, <1>3, <2>2, <2>3
<1> QED BY <1>1, <1>2, <1>3 DEF p, q, r

\* Two exchanges one after the other, z for y and y for x, at a price that is k
\* to l and taken the other way round the second time: the price cancels out, and
\* what is left of z are the two fees' complements.
LEMMA PriceCancels ==
    ASSUME NEW x \in Nat, NEW y \in Nat, NEW z \in Nat,
           NEW k \in Nat \ {0}, NEW l \in Nat, NEW bp \in Nat,
           NEW n1 \in Nat, NEW n2 \in Nat,
           x * k * bp <= y * l * n1, y * l * bp <= z * k * n2
    PROVE  x * bp * bp <= z * n2 * n1
<1> DEFINE A == x * k * bp
           B == y * l * n1
           C == y * l * bp
           D == z * k * n2
           E == x * bp * bp
           F == z * n2 * n1
<1>1. A \in Nat /\ B \in Nat /\ C \in Nat /\ D \in Nat /\ E \in Nat /\ F \in Nat
    OBVIOUS
<1>2. A <= B /\ C <= D
    OBVIOUS
<1>3. A * bp = k * E /\ D * n1 = k * F /\ B * bp = C * n1
    OBVIOUS
<1> HIDE DEF A, B, C, D, E, F
<1>4. A * bp <= B * bp
    BY <1>1, <1>2
<1>5. C * n1 <= D * n1
    BY <1>1, <1>2
<1>6. k * E <= k * F
    <2>1. k * E \in Int /\ k * F \in Int /\ B * bp \in Int /\ C * n1 \in Int
        BY <1>1
    <2> QED BY <1>3, <1>4, <1>5, <2>1
<1>7. E <= F
    <2> SUFFICES ASSUME F + 1 <= E PROVE FALSE
        BY <1>1
    <2>1. k * (F + 1) <= k * E
        BY <1>1
    <2>2. k * (F + 1) = k * F + k /\ k * F \in Int /\ k * E \in Int
        BY <1>1
    <2> QED BY <1>6, <2>1, <2>2
<1> QED BY <1>7 DEF E, F

------------------------------------------------------------------------------
(* What a step does *)

\* Who holds tokens are different parties.
LEMMA HolderFacts ==
    /\ PSM \in Holders /\ PSM \notin Accounts /\ PSM \notin Targets
    /\ Venue \in Holders /\ Venue # PSM /\ Venue \notin Targets
    /\ Accounts \subseteq Holders /\ Targets \subseteq Holders
BY PegStabilityModuleAssumption DEF Holders

\* A transfer moves the amount, or nothing between a party and itself.
LEMMA TransferEffect ==
    ASSUME NEW balance, balance \in [Holders -> Int], NEW from_ \in Holders,
           NEW to \in Holders, NEW a \in Int
    PROVE  /\ Transfer(balance, from_, to, a) \in [Holders -> Int]
           /\ Transfer(balance, from_, to, a)[PSM] =
                 IF from_ = to THEN balance[PSM]
                 ELSE IF from_ = PSM THEN balance[PSM] - a
                 ELSE IF to = PSM THEN balance[PSM] + a
                 ELSE balance[PSM]
<1>1. PSM \in Holders
    BY HolderFacts
<1>2. Transfer(balance, from_, to, a) \in [Holders -> Int]
    BY DEF Transfer
<1>3. CASE from_ = to
    <2>1. balance[PSM] \in Int /\ (balance[PSM] - a) + a = balance[PSM]
        BY <1>1
    <2>2. CASE from_ = PSM
        <3>1. Transfer(balance, PSM, PSM, a)[PSM] = (balance[PSM] - a) + a
            BY <1>1 DEF Transfer
        <3> QED BY <1>2, <1>3, <2>1, <2>2, <3>1
    <2>3. CASE from_ # PSM
        BY <1>1, <1>2, <1>3, <2>3 DEF Transfer
    <2> QED BY <1>2, <1>3, <2>2, <2>3
<1>4. CASE from_ # to
    BY <1>1, <1>2, <1>4 DEF Transfer
<1> QED BY <1>3, <1>4

\* mint() sells from stock, mints the rest within the buffer, and takes in what
\* the trader pays.
LEMMA MintEffect ==
    ASSUME PSMInv, RLP!TypeOK,
           NEW c \in Accounts, NEW to \in Accounts \cup {PSM}, NEW a \in Amounts,
           NEW m, mint(c, to, a, m)
    PROVE  /\ underlyingBalance' \in [Holders -> Int]
           /\ voltBalance' \in [Holders -> Int]
           /\ underlyingBalance'[PSM] = underlyingBalance[PSM] + a
           /\ \E sold \in Int, minted \in Nat :
                 /\ sold + minted = MintAmountOut(a)
                 /\ voltSupply' = voltSupply + minted
                 /\ voltBalance'[PSM] = IF to = PSM THEN voltBalance[PSM] + minted
                                        ELSE voltBalance[PSM] - sold
                 /\ \/ minted = 0 /\ UNCHANGED limiterVars
                    \/ minted \in Mintable /\ RLP!depleteBuffer(minted)
<1> DEFINE out == MintAmountOut(a)
           sold == MathMin(voltBalance[PSM], out)
           minted == out - sold
<1>1. a \in Nat /\ Quotable
    BY PegStabilityModuleAssumption DEF mint
<1>2. out \in Nat
    BY <1>1, MintQuote
<1>3. voltBalance[PSM] \in Int
    BY HolderFacts DEF PSMInv, LedgerInv
<1>4. sold \in Int /\ minted \in Nat /\ sold + minted = out
    <2> HIDE DEF out
    <2> QED BY <1>2, <1>3 DEF MathMin
<1>5. /\ underlyingBalance' = Transfer(underlyingBalance, c, PSM, a)
      /\ mintVolt(minted)
      /\ voltBalance' = [Transfer(voltBalance, PSM, to, sold)
                            EXCEPT ![to] = @ + minted]
      /\ voltSupply' = voltSupply + minted
    BY DEF mint
<1> HIDE DEF minted, sold
<1>6. /\ underlyingBalance' \in [Holders -> Int]
      /\ underlyingBalance'[PSM] = underlyingBalance[PSM] + a
    <2>1. c \in Holders /\ c # PSM /\ PSM \in Holders
        BY HolderFacts
    <2>2. underlyingBalance \in [Holders -> Int] /\ underlyingBalance[PSM] \in Int
        BY <2>1 DEF PSMInv, LedgerInv
    <2> QED BY <1>1, <1>5, <2>1, <2>2, TransferEffect
<1>7. /\ voltBalance' \in [Holders -> Int]
      /\ voltBalance'[PSM] = IF to = PSM THEN voltBalance[PSM] + minted
                             ELSE voltBalance[PSM] - sold
    <2> DEFINE moved == Transfer(voltBalance, PSM, to, sold)
    <2>1. to \in Holders /\ PSM \in Holders
        BY HolderFacts
    <2>2. /\ moved \in [Holders -> Int]
          /\ moved[PSM] = IF to = PSM THEN voltBalance[PSM] ELSE voltBalance[PSM] - sold
        <3>1. voltBalance \in [Holders -> Int]
            BY DEF PSMInv, LedgerInv
        <3> QED BY <1>4, <2>1, <3>1, TransferEffect
    <2> HIDE DEF moved
    <2>3. voltBalance' = [moved EXCEPT ![to] = @ + minted]
        BY <1>5 DEF moved
    <2> QED BY <1>3, <1>4, <2>1, <2>2, <2>3
<1>8. \/ minted = 0 /\ UNCHANGED limiterVars
      \/ minted \in Mintable /\ RLP!depleteBuffer(minted)
    <2>1. CASE RL!depleteBuffer(minted)
        <3>1. RLP!depleteBuffer(minted)
            BY <2>1 DEF RL!depleteBuffer, RLP!depleteBuffer, RL!Buffer, RLP!Buffer,
                        RL!MathMin, RLP!MathMin
        <3>2. minted <= RLP!Buffer
            BY <3>1 DEF RLP!depleteBuffer
        <3>3. RLP!Buffer \in Nat /\ RLP!Buffer <= bufferCap
            BY LimiterAssumption, RLP!BufferNat
        <3>4. bufferCap \in Caps \cup {InitialCap} /\ bufferCap \in Nat
            BY PegStabilityModuleAssumption DEF PSMInv, LedgerInv
        <3>5. minted \in 0..bufferCap
            BY <1>4, <3>2, <3>3, <3>4
        <3> QED BY <3>1, <3>4, <3>5 DEF Mintable
    <2> QED BY <1>5, <2>1 DEF mintVolt
<1> QED BY <1>4, <1>5, <1>6, <1>7, <1>8

\* redeem() takes in the VOLT and pays for it.
LEMMA RedeemEffect ==
    ASSUME PSMInv,
           NEW c \in Accounts, NEW to \in Accounts \cup {PSM}, NEW v \in Amounts,
           NEW m, redeem(c, to, v, m)
    PROVE  /\ underlyingBalance' \in [Holders -> Int]
           /\ voltBalance' \in [Holders -> Int]
           /\ voltBalance'[PSM] = voltBalance[PSM] + v
           /\ underlyingBalance'[PSM] = IF to = PSM THEN underlyingBalance[PSM]
                 ELSE underlyingBalance[PSM] - RedeemAmountOut(v)
           /\ UNCHANGED <<voltSupply, limiterVars, oracleVars, config, pauses>>
<1>1. v \in Nat /\ Quotable /\ OR!readOracle # 0
    BY PegStabilityModuleAssumption DEF redeem
<1>2. RedeemAmountOut(v) \in Nat
    BY <1>1, RedeemQuote
<1>3. c \in Holders /\ c # PSM /\ PSM \in Holders /\ to \in Holders
    BY HolderFacts
<1>4. underlyingBalance \in [Holders -> Int] /\ voltBalance \in [Holders -> Int]
    BY DEF PSMInv, LedgerInv
<1>5. /\ underlyingBalance' = Transfer(underlyingBalance, PSM, to, RedeemAmountOut(v))
      /\ voltBalance' = Transfer(voltBalance, c, PSM, v)
      /\ UNCHANGED <<voltSupply, limiterVars, oracleVars, config, pauses>>
    BY DEF redeem
<1>6. /\ voltBalance' \in [Holders -> Int]
      /\ voltBalance'[PSM] = voltBalance[PSM] + v
    <2>1. voltBalance' = Transfer(voltBalance, c, PSM, v) /\ v \in Int
        BY <1>1, <1>5
    <2> QED BY <1>3, <1>4, <2>1, TransferEffect
<1>7. /\ underlyingBalance' \in [Holders -> Int]
      /\ underlyingBalance'[PSM] = IF to = PSM THEN underlyingBalance[PSM]
                                   ELSE underlyingBalance[PSM] - RedeemAmountOut(v)
    <2>1. /\ underlyingBalance' = Transfer(underlyingBalance, PSM, to, RedeemAmountOut(v))
          /\ RedeemAmountOut(v) \in Int
        BY <1>2, <1>5
    <2>2. CASE to = PSM
        BY <1>3, <1>4, <2>1, <2>2, TransferEffect
    <2>3. CASE to # PSM
        BY <1>3, <1>4, <2>1, <2>3, TransferEffect
    <2> QED BY <2>2, <2>3
<1> QED BY <1>5, <1>6, <1>7

\* A call on the oracle's settings, or a new answer, keeps prices numbers.
LEMMA OracleStep ==
    ASSUME OracleInv,
           \/ UNCHANGED oracleVars
           \/ OracleCall
           \/ \E o \in Oracles, answer \in OR!Answers : FeedMoves(o, answer)
    PROVE  OracleInv'
<1>1. CASE UNCHANGED oracleVars
    BY <1>1 DEF OracleInv, oracleVars, Scale
<1>2. ASSUME NEW o \in Oracles, NEW answer \in OR!Answers, FeedMoves(o, answer)
      PROVE  OracleInv'
    BY <1>2 DEF OracleInv, FeedMoves, Scale
<1>3. ASSUME NEW c \in Accounts, NEW o \in Oracles \cup {ZeroAddress},
             OR!setOracle(c, o) \/ OR!setBackupOracle(c, o)
      PROVE  OracleInv'
    BY <1>3 DEF OracleInv, OR!setOracle, OR!setBackupOracle, Scale
<1>4. ASSUME NEW c \in Accounts, NEW b \in Inversions, OR!setDoInvert(c, b)
      PROVE  OracleInv'
    <2>1. doInvert' \in BOOLEAN
        <3>1. Inversions \subseteq BOOLEAN
            BY PegStabilityModuleAssumption
        <3> QED BY <1>4, <3>1, Zenon DEF OR!setDoInvert
    <2>2. /\ decimalsNormalizer' \in Int
          /\ Scale(decimalsNormalizer') \in Nat \ {0}
        BY <1>4, ScaleOfOpposite DEF OR!setDoInvert, OracleInv
    <2>3. Scale(decimalsNormalizer)' = Scale(decimalsNormalizer')
        BY DEF Scale
    <2> QED BY <1>4, <2>1, <2>2, <2>3 DEF OracleInv, OR!setDoInvert
<1>5. ASSUME NEW c \in Accounts, NEW n \in Normalizers, OR!setDecimalsNormalizer(c, n)
      PROVE  OracleInv'
    <2>1. Normalizers \subseteq Int
        BY PegStabilityModuleAssumption
    <2> QED BY <1>5, <2>1, PowerNat
            DEF OracleInv, OR!setDecimalsNormalizer, Scale
<1> QED BY <1>1, <1>2, <1>3, <1>4, <1>5 DEF OracleCall, OR!OracleRefCall

\* So does a call on the configuration with fees, threshold and target.
LEMMA ConfigStep ==
    ASSUME ConfigInv, UNCHANGED config \/ Configure
    PROVE  ConfigInv'
<1>1. CASE UNCHANGED config
    BY <1>1 DEF ConfigInv
<1>2. /\ Fees \subseteq Nat /\ Thresholds \subseteq Nat /\ Bounds \subseteq Nat
      /\ MAX_FEE \in Nat
    BY PegStabilityModuleAssumption
<1>3. ASSUME NEW c \in Accounts, NEW f \in Fees, setMintFee(c, f) \/ setRedeemFee(c, f)
      PROVE  ConfigInv'
    BY <1>2, <1>3 DEF ConfigInv, setMintFee, setRedeemFee, ConfigCall
<1>4. ASSUME NEW c \in Accounts, NEW th \in Thresholds, setReservesThreshold(c, th)
      PROVE  ConfigInv'
    BY <1>2, <1>4 DEF ConfigInv, setReservesThreshold, ConfigCall
<1>5. ASSUME NEW c \in Accounts, NEW target \in Targets \cup {ZeroAddress},
             setSurplusTarget(c, target)
      PROVE  ConfigInv'
    BY <1>5 DEF ConfigInv, setSurplusTarget, ConfigCall
<1>6. ASSUME NEW c \in Accounts, NEW b \in Bounds,
             setOracleFloorBasisPoints(c, b) \/ setOracleCeilingBasisPoints(c, b)
      PROVE  ConfigInv'
    BY <1>2, <1>6
    DEF ConfigInv, setOracleFloorBasisPoints, setOracleCeilingBasisPoints, ConfigCall
<1> QED BY <1>1, <1>3, <1>4, <1>5, <1>6 DEF Configure

\* What the limiter does by itself is what RateLimitedV2 does.
LEMMA LimiterStep ==
    ASSUME RLP!TypeOK, bufferCap \in Caps \cup {InitialCap}, LimiterCall
    PROVE  /\ RLP!Next /\ netUsed' = netUsed
           /\ bufferCap' \in Caps \cup {InitialCap}
<1>1. CASE RL!Tick
    BY <1>1 DEF RL!Tick, RLP!Tick, RLP!Next
<1>2. ASSUME NEW c \in Accounts, NEW r \in Rates, RL!setRateLimitPerSecond(c, r)
      PROVE  /\ RLP!setRateLimitPerSecond(c, r) /\ netUsed' = netUsed
             /\ bufferCap' = bufferCap
    BY <1>2 DEF RL!setRateLimitPerSecond, RLP!setRateLimitPerSecond, RL!Buffer,
                RLP!Buffer, RL!MathMin, RLP!MathMin, RL!updateBufferStored,
                RLP!updateBufferStored
<1>3. ASSUME NEW c \in Accounts, NEW b \in Caps, RL!setBufferCap(c, b)
      PROVE  RLP!setBufferCap(c, b) /\ netUsed' = netUsed /\ bufferCap' = b
    BY <1>3 DEF RL!setBufferCap, RLP!setBufferCap, RL!Buffer, RLP!Buffer,
                RL!MathMin, RLP!MathMin, RL!updateBufferStored,
                RLP!updateBufferStored
<1> QED BY <1>1, <1>2, <1>3 DEF LimiterCall, RLP!Next

\* What moves tokens without a trade: PCV controllers, the allocation of the
\* surplus, donors, burners and the deposits.
TokenStep ==
    \/ PCVWithdrawal
    \/ Reserves
    \/ \E c \in Accounts, a \in Amounts : Donate(c, a) \/ burn(c, a)
    \/ \E target \in Targets : TargetDeposit(target)

\* _allocate() leaves the threshold in the contract; a deposit that supplies what
\* it got does not change that.
LEMMA AllocateEffect ==
    ASSUME PSMInv, allocate(ReservesSurplus)
    PROVE  /\ underlyingBalance' \in [Holders -> Int]
           /\ underlyingBalance'[PSM] = config.reservesThreshold
<1> DEFINE target == config.surplusTarget
           sent == Transfer(underlyingBalance, PSM, target, ReservesSurplus)
<1>1. /\ target \in Targets /\ config.reservesThreshold \in Nat
      /\ underlyingBalance \in [Holders -> Int]
    BY DEF PSMInv, ConfigInv, LedgerInv
<1>2. target \in Holders /\ target # PSM /\ PSM \in Holders
    BY <1>1, HolderFacts
<1>3. underlyingBalance[PSM] \in Int /\ ReservesSurplus \in Int
      /\ underlyingBalance[PSM] - ReservesSurplus = config.reservesThreshold
    BY <1>1, <1>2 DEF ReservesSurplus
<1> HIDE DEF target
<1>4. sent \in [Holders -> Int] /\ sent[PSM] = config.reservesThreshold
    BY <1>1, <1>2, <1>3, TransferEffect
<1>5. underlyingBalance' = sent \/ underlyingBalance' = Supplied(sent, target)
    BY DEF allocate, target
<1> HIDE DEF sent
<1>6. /\ Supplied(sent, target) \in [Holders -> Int]
      /\ Supplied(sent, target)[PSM] = sent[PSM]
    <2>1. Supplied(sent, target) = Transfer(sent, target, Venue, sent[target])
        BY DEF Supplied
    <2>2. target # Venue /\ Venue # PSM /\ Venue \in Holders /\ sent[target] \in Int
        BY <1>1, <1>2, <1>4, HolderFacts
    <2> QED BY <1>2, <1>4, <2>1, <2>2 DEF Transfer
<1> QED BY <1>4, <1>5, <1>6

\* Nothing but a trade mints VOLT or touches the buffer.
LEMMA TokenStepEffect ==
    ASSUME PSMInv, TokenStep
    PROVE  /\ underlyingBalance' \in [Holders -> Int]
           /\ voltBalance' \in [Holders -> Int]
           /\ voltSupply' \in Int /\ voltSupply' <= voltSupply
           /\ UNCHANGED <<limiterVars, oracleVars, config>>
           /\ ~PCVWithdrawal =>
                 /\ \/ underlyingBalance'[PSM] >= underlyingBalance[PSM]
                    \/ underlyingBalance'[PSM] = config.reservesThreshold
                 /\ Circulating' # Circulating =>
                       /\ underlyingBalance'[PSM] = underlyingBalance[PSM]
                       /\ Circulating' < Circulating
<1>0. /\ underlyingBalance \in [Holders -> Int] /\ voltBalance \in [Holders -> Int]
      /\ voltSupply \in Int /\ Amounts \subseteq Nat /\ PSM \in Holders
      /\ Accounts \subseteq Holders /\ Targets \subseteq Holders
      /\ Venue \in Holders /\ PSM \notin Accounts /\ PSM \notin Targets
      /\ Venue # PSM /\ Venue \notin Targets
      /\ underlyingBalance[PSM] \in Int /\ voltBalance[PSM] \in Int
    BY HolderFacts, PegStabilityModuleAssumption DEF PSMInv, LedgerInv
<1>1. CASE PCVWithdrawal
    <2>1. ASSUME NEW c \in Accounts, NEW to \in Accounts, NEW a \in Amounts,
                 withdraw(c, to, a)
          PROVE  /\ underlyingBalance' \in [Holders -> Int]
                 /\ UNCHANGED <<voltBalance, voltSupply, limiterVars, oracleVars,
                                config>>
        <3>1. underlyingBalance' = Transfer(underlyingBalance, PSM, to, a)
            BY <2>1 DEF withdraw
        <3>2. underlyingBalance' \in [Holders -> Int]
            BY <1>0, <3>1 DEF Transfer
        <3> QED BY <2>1, <3>2 DEF withdraw
    <2>2. ASSUME NEW c \in Accounts, NEW to \in Accounts, NEW a \in Amounts,
                 withdrawVolt(c, to, a)
          PROVE  /\ voltBalance' \in [Holders -> Int]
                 /\ UNCHANGED <<underlyingBalance, voltSupply, limiterVars,
                                oracleVars, config>>
        <3>1. voltBalance' = Transfer(voltBalance, PSM, to, a)
            BY <2>2 DEF withdrawVolt
        <3>2. voltBalance' \in [Holders -> Int]
            BY <1>0, <3>1 DEF Transfer
        <3> QED BY <2>2, <3>2 DEF withdrawVolt
    <2> QED BY <1>0, <1>1, <2>1, <2>2 DEF PCVWithdrawal
<1>2. CASE Reserves
    <2>1. UNCHANGED <<limiterVars, oracleVars, config, voltBalance, voltSupply>>
        BY <1>2 DEF Reserves, allocateSurplus, deposit
    <2>2. UNCHANGED underlyingBalance \/ allocate(ReservesSurplus)
        BY <1>2 DEF Reserves, allocateSurplus, deposit
    <2>3. Circulating' = Circulating
        BY <2>1 DEF Circulating
    <2> QED BY <1>0, <2>1, <2>2, <2>3, AllocateEffect
<1>3. ASSUME NEW c \in Accounts, NEW a \in Amounts, Donate(c, a)
      PROVE  /\ underlyingBalance' \in [Holders -> Int]
             /\ voltBalance' \in [Holders -> Int]
             /\ UNCHANGED <<voltSupply, limiterVars, oracleVars, config>>
             /\ underlyingBalance'[PSM] >= underlyingBalance[PSM]
             /\ Circulating' # Circulating =>
                   /\ underlyingBalance'[PSM] = underlyingBalance[PSM]
                   /\ Circulating' < Circulating
    <2>1. /\ UNCHANGED <<voltSupply, limiterVars, oracleVars, config>>
          /\ \/ /\ underlyingBalance' = Transfer(underlyingBalance, c, PSM, a)
                /\ UNCHANGED voltBalance
             \/ /\ voltBalance' = Transfer(voltBalance, c, PSM, a)
                /\ UNCHANGED underlyingBalance
        BY <1>3 DEF Donate
    <2>2. /\ Transfer(underlyingBalance, c, PSM, a) \in [Holders -> Int]
          /\ Transfer(underlyingBalance, c, PSM, a)[PSM] = underlyingBalance[PSM] + a
          /\ Transfer(voltBalance, c, PSM, a) \in [Holders -> Int]
          /\ Transfer(voltBalance, c, PSM, a)[PSM] = voltBalance[PSM] + a
        <3>1. c # PSM /\ c \in Holders /\ a \in Nat
            BY <1>0
        <3> QED BY <1>0, <3>1 DEF Transfer
    <2> QED BY <1>0, <2>1, <2>2 DEF Circulating
<1>4. ASSUME NEW c \in Accounts, NEW a \in Amounts, burn(c, a)
      PROVE  /\ voltBalance' \in [Holders -> Int]
             /\ voltSupply' \in Int /\ voltSupply' <= voltSupply
             /\ UNCHANGED <<underlyingBalance, limiterVars, oracleVars, config>>
             /\ Circulating' # Circulating => Circulating' < Circulating
    BY <1>0, <1>4 DEF burn, Circulating
<1>5. ASSUME NEW target \in Targets, TargetDeposit(target)
      PROVE  /\ underlyingBalance' \in [Holders -> Int]
             /\ underlyingBalance'[PSM] = underlyingBalance[PSM]
             /\ UNCHANGED <<voltBalance, voltSupply, limiterVars, oracleVars, config>>
    <2>1. underlyingBalance' =
             Transfer(underlyingBalance, target, Venue, underlyingBalance[target])
        BY <1>5 DEF TargetDeposit, Supplied
    <2>2. target # Venue /\ target # PSM /\ underlyingBalance[target] \in Int
          /\ target \in Holders
        BY <1>0
    <2>3. /\ underlyingBalance' \in [Holders -> Int]
          /\ underlyingBalance'[PSM] = underlyingBalance[PSM]
        BY <1>0, <2>1, <2>2 DEF Transfer
    <2> QED BY <1>5, <2>3 DEF TargetDeposit
<1>6. CASE \E target \in Targets : TargetDeposit(target)
    BY <1>0, <1>5, <1>6 DEF Circulating
<1>7. CASE \E c \in Accounts, a \in Amounts : Donate(c, a)
    BY <1>0, <1>3, <1>7
<1>8. CASE \E c \in Accounts, a \in Amounts : burn(c, a)
    BY <1>0, <1>4, <1>8
<1> QED BY <1>1, <1>2, <1>6, <1>7, <1>8 DEF TokenStep

\* A step is a trade, moves tokens otherwise, sets something, or does nothing.
LEMMA StepKinds ==
    ASSUME [Next]_vars
    PROVE  \/ \E c \in Accounts, to \in Accounts \cup {PSM}, a \in Amounts,
                 m \in MinAmounts : mint(c, to, a, m)
           \/ \E c \in Accounts, to \in Accounts \cup {PSM}, a \in Amounts,
                 m \in MinAmounts : redeem(c, to, a, m)
           \/ TokenStep
           \/ Configure /\ UNCHANGED <<limiterVars, oracleVars, tokenVars>>
           \/ LimiterCall /\ UNCHANGED <<oracleVars, config, tokenVars>>
           \/ /\ \/ OracleCall
                 \/ \E o \in Oracles, answer \in OR!Answers : FeedMoves(o, answer)
              /\ UNCHANGED <<limiterVars, config, tokenVars>>
           \/ UNCHANGED <<limiterVars, oracleVars, config, tokenVars>>
<1>1. Configure => UNCHANGED <<limiterVars, oracleVars, tokenVars>>
    BY DEF Configure, setMintFee, setRedeemFee, setReservesThreshold,
        setSurplusTarget, setOracleFloorBasisPoints, setOracleCeilingBasisPoints,
        ConfigCall
<1>2. Pausing => UNCHANGED <<limiterVars, oracleVars, config, tokenVars>>
    BY DEF Pausing, setMintPaused, setRedeemPaused, setPaused, setVoltPaused,
        TargetPause, PauseCall
<1>3. LimiterCall => UNCHANGED <<oracleVars, config, tokenVars>>
    BY DEF LimiterCall
<1>4. OracleCall => UNCHANGED <<limiterVars, config, tokenVars>>
    BY DEF OracleCall
<1>5. ASSUME NEW o, NEW answer, FeedMoves(o, answer)
      PROVE  UNCHANGED <<limiterVars, config, tokenVars>>
    BY <1>5 DEF FeedMoves
<1>6. CASE Next
    BY <1>1, <1>2, <1>3, <1>4, <1>5, <1>6 DEF Next, Trade, Environment, TokenStep
<1>7. CASE UNCHANGED vars
    BY <1>7 DEF vars
<1> QED BY <1>6, <1>7

\* Every step keeps the types and is one of RateLimitedV2 for the limiter, and
\* VOLT comes into existence only as far as it was drawn from the buffer.
LEMMA StepEffect ==
    ASSUME PSMInv, RLP!TypeOK, [Next]_vars
    PROVE  /\ PSMInv'
           /\ [RLP!Next]_(RLP!vars)
           /\ voltSupply' <= voltSupply + (netUsed' - netUsed)
<1>0. voltSupply \in Int /\ netUsed \in Int /\ voltSupply + (netUsed - netUsed) = voltSupply
    BY DEF PSMInv, LedgerInv, RLP!TypeOK
<1>1. ASSUME NEW c \in Accounts, NEW to \in Accounts \cup {PSM}, NEW a \in Amounts,
             NEW m \in MinAmounts, mint(c, to, a, m)
      PROVE  /\ PSMInv' /\ [RLP!Next]_(RLP!vars)
             /\ voltSupply' <= voltSupply + (netUsed' - netUsed)
    <2>1. UNCHANGED <<oracleVars, config>>
        BY <1>1 DEF mint
    <2>2. PICK minted \in Nat :
             /\ voltSupply' = voltSupply + minted
             /\ \/ minted = 0 /\ UNCHANGED limiterVars
                \/ minted \in Mintable /\ RLP!depleteBuffer(minted)
        BY <1>1, MintEffect
    <2>3. /\ [RLP!Next]_(RLP!vars) /\ bufferCap' = bufferCap
          /\ netUsed' = netUsed + minted
        <3>1. CASE minted = 0 /\ UNCHANGED limiterVars
            BY <1>0, <3>1 DEF limiterVars, RLP!vars
        <3>2. CASE minted \in Mintable /\ RLP!depleteBuffer(minted)
            BY <3>2 DEF RLP!depleteBuffer, RLP!Next
        <3> QED BY <2>2, <3>1, <3>2
    <2>4. LedgerInv'
        BY <1>0, <1>1, <2>2, <2>3, MintEffect DEF PSMInv, LedgerInv
    <2>5. voltSupply' <= voltSupply + (netUsed' - netUsed)
        BY <1>0, <2>2, <2>3
    <2> QED BY <2>1, <2>3, <2>4, <2>5, OracleStep, ConfigStep DEF PSMInv
<1>2. ASSUME NEW c \in Accounts, NEW to \in Accounts \cup {PSM}, NEW a \in Amounts,
             NEW m \in MinAmounts, redeem(c, to, a, m)
      PROVE  /\ PSMInv' /\ UNCHANGED limiterVars /\ voltSupply' <= voltSupply
    <2>1. /\ underlyingBalance' \in [Holders -> Int]
          /\ voltBalance' \in [Holders -> Int]
          /\ UNCHANGED <<voltSupply, limiterVars, oracleVars, config>>
        BY <1>2, RedeemEffect
    <2>2. LedgerInv'
        BY <2>1 DEF PSMInv, LedgerInv, limiterVars
    <2> QED BY <1>0, <2>1, <2>2, OracleStep, ConfigStep DEF PSMInv
<1>3. CASE TokenStep
    <2>1. /\ underlyingBalance' \in [Holders -> Int]
          /\ voltBalance' \in [Holders -> Int]
          /\ voltSupply' \in Int /\ voltSupply' <= voltSupply
          /\ UNCHANGED <<limiterVars, oracleVars, config>>
        BY <1>3, TokenStepEffect
    <2>2. LedgerInv'
        BY <2>1 DEF PSMInv, LedgerInv, limiterVars
    <2>3. UNCHANGED RLP!vars /\ netUsed' = netUsed
        BY <2>1 DEF limiterVars, RLP!vars
    <2> QED BY <1>0, <2>1, <2>2, <2>3, OracleStep, ConfigStep DEF PSMInv
<1>4. CASE LimiterCall /\ UNCHANGED <<oracleVars, config, tokenVars>>
    <2>1. /\ RLP!Next /\ netUsed' = netUsed
          /\ bufferCap' \in Caps \cup {InitialCap}
        BY <1>4, LimiterStep DEF PSMInv, LedgerInv
    <2>2. LedgerInv' /\ voltSupply' = voltSupply
        BY <1>4, <2>1 DEF PSMInv, LedgerInv, tokenVars
    <2> QED BY <1>0, <1>4, <2>1, <2>2, OracleStep, ConfigStep DEF PSMInv
<1>5. CASE /\ UNCHANGED <<limiterVars, tokenVars>>
           /\ \/ UNCHANGED oracleVars
              \/ OracleCall
              \/ \E o \in Oracles, answer \in OR!Answers : FeedMoves(o, answer)
           /\ UNCHANGED config \/ Configure
    <2>1. LedgerInv' /\ voltSupply' = voltSupply /\ netUsed' = netUsed
          /\ UNCHANGED RLP!vars
        BY <1>5 DEF PSMInv, LedgerInv, limiterVars, tokenVars, RLP!vars
    <2>2. OracleInv' /\ ConfigInv'
        BY <1>5, OracleStep, ConfigStep DEF PSMInv
    <2> QED BY <1>0, <2>1, <2>2 DEF PSMInv
<1>6. UNCHANGED limiterVars => UNCHANGED RLP!vars /\ netUsed' = netUsed
    BY DEF limiterVars, RLP!vars
<1>7. CASE \E c \in Accounts, to \in Accounts \cup {PSM}, a \in Amounts,
              m \in MinAmounts : redeem(c, to, a, m)
    BY <1>0, <1>2, <1>6, <1>7
<1> QED BY <1>1, <1>3, <1>4, <1>5, <1>7, StepKinds

\* What deployment leaves.
LEMMA InitEffect ==
    ASSUME Init
    PROVE  PSMInv /\ RLP!Init /\ voltSupply = InitialSupply
<1>1. OracleInv
    <2>1. /\ oracle \in Oracles /\ backupOracle \in Oracles \cup {ZeroAddress}
          /\ decimalsNormalizer \in Normalizers /\ doInvert \in Inversions
          /\ feed \in [Oracles -> OR!Answers]
        BY DEF Init, OR!Init
    <2>2. Inversions \subseteq BOOLEAN /\ Normalizers \subseteq Int
        BY PegStabilityModuleAssumption
    <2>3. doInvert \in BOOLEAN
        BY <2>1, <2>2, Zenon
    <2> QED BY <2>1, <2>2, <2>3, PowerNat DEF OracleInv, Scale
<1>2. ConfigInv
    BY PegStabilityModuleAssumption DEF Init, ConfigInv
<1>3. LedgerInv
    BY PegStabilityModuleAssumption DEF Init, LedgerInv, Holders
<1>4. RLP!Init
    BY DEF Init, RLP!Init
<1> QED BY <1>1, <1>2, <1>3, <1>4 DEF PSMInv, Init

------------------------------------------------------------------------------
(* Theorems *)

\* Prices, configuration and ledgers of every reachable state are of their
\* types, and the buffer cap is one that was asked for.
THEOREM TypeCorrect == Spec => [](PSMInv /\ RLP!TypeOK)
<1>1. Init => PSMInv /\ RLP!TypeOK
    <2>1. RLP!Init => RLP!TypeOK
        BY LimiterAssumption DEF RLP!RateLimitedV2Assumption, RLP!Init, RLP!TypeOK
    <2> QED BY <2>1, InitEffect
<1>2. PSMInv /\ RLP!TypeOK /\ [Next]_vars => PSMInv' /\ RLP!TypeOK'
    <2>1. RLP!TypeOK /\ [RLP!Next]_(RLP!vars) => RLP!TypeOK'
        BY LimiterAssumption, RLP!TypeStep
    <2> QED BY <2>1, StepEffect
<1> QED BY <1>1, <1>2, PTL DEF Spec

\* The limiter of the contract does what RateLimitedV2 may do, and no more.
LEMMA LimiterRuns == Spec => RLP!Spec
<1>1. Init => RLP!Init
    BY InitEffect
<1>2. PSMInv /\ RLP!TypeOK /\ [Next]_vars => [RLP!Next]_(RLP!vars)
    BY StepEffect
<1> QED BY <1>1, <1>2, TypeCorrect, PTL DEF Spec, RLP!Spec

\* What is bounded by a count and grows no faster stays bounded by it.
LEMMA KeepsCovered ==
    ASSUME NEW s \in Int, NEW s2 \in Int, NEW n \in Int, NEW n2 \in Int,
           NEW c \in Int, s <= c + n, s2 <= s + (n2 - n)
    PROVE  s2 <= c + n2
OBVIOUS

\* The VOLT in existence is covered by what deployment left and what was drawn.
SupplyCovered == voltSupply <= InitialSupply + netUsed

LEMMA SupplyIsDrawn == Spec => []SupplyCovered
<1>1. Init => SupplyCovered
    BY InitEffect, PegStabilityModuleAssumption DEF Init, SupplyCovered
<1>2. PSMInv /\ RLP!TypeOK /\ PSMInv' /\ RLP!TypeOK' /\ [Next]_vars /\ SupplyCovered
        => SupplyCovered'
    <2> SUFFICES ASSUME PSMInv, RLP!TypeOK, PSMInv', RLP!TypeOK', [Next]_vars,
                        SupplyCovered
                 PROVE  SupplyCovered'
        OBVIOUS
    <2>1. /\ voltSupply \in Int /\ netUsed \in Int /\ voltSupply' \in Int
          /\ netUsed' \in Int /\ InitialSupply \in Int
        BY PegStabilityModuleAssumption DEF PSMInv, LedgerInv, RLP!TypeOK
    <2>2. voltSupply' <= voltSupply + (netUsed' - netUsed)
        BY StepEffect
    <2>3. voltSupply <= InitialSupply + netUsed
        BY DEF SupplyCovered
    <2>4. voltSupply' <= InitialSupply + netUsed'
        BY <2>1, <2>2, <2>3, KeepsCovered
    <2> QED BY <2>4 DEF SupplyCovered
<1> QED BY <1>1, <1>2, TypeCorrect, PTL DEF Spec

\* No sequence of mints, redemptions, burns and changes of the limit brings more
\* VOLT into existence than the initial cap and the maximum rate over time allow.
THEOREM SupplyIsLimited == Spec => []MintingIsLimited
<1>1. Spec => []RLP!RateLimitBound
    BY LimiterRuns, LimiterAssumption, RLP!LimitHolds, PTL
<1>2. PSMInv /\ RLP!TypeOK /\ RLP!RateLimitBound /\ SupplyCovered
        => MintingIsLimited
    <2> SUFFICES ASSUME PSMInv, RLP!TypeOK, RLP!RateLimitBound, SupplyCovered
                 PROVE  MintingIsLimited
        OBVIOUS
    <2>1. RLP!Buffer = RL!Buffer /\ RLP!Buffer \in Nat
        BY LimiterAssumption, RLP!BufferNat
        DEF RLP!Buffer, RL!Buffer, RLP!MathMin, RL!MathMin
    <2>2. /\ voltSupply \in Int /\ netUsed \in Int /\ InitialSupply \in Int
          /\ InitialCap \in Int /\ MAX_RATE_LIMIT_PER_SECOND * now \in Int
        BY PegStabilityModuleAssumption DEF PSMInv, LedgerInv, RLP!TypeOK
    <2>3. netUsed + RLP!Buffer <= InitialCap + MAX_RATE_LIMIT_PER_SECOND * now
        BY DEF RLP!RateLimitBound
    <2> DEFINE rateTime == MAX_RATE_LIMIT_PER_SECOND * now
    <2> HIDE DEF rateTime
    <2>4. voltSupply + RL!Buffer <= InitialSupply + InitialCap + rateTime
        BY <2>1, <2>2, <2>3 DEF rateTime, SupplyCovered
    <2> QED BY <2>4 DEF MintingIsLimited, rateTime
<1> QED BY <1>1, <1>2, SupplyIsDrawn, TypeCorrect, PTL

\* What rises by no more than a count does keeps, together with a third quantity,
\* to what the count keeps to together with it.
LEMMA MovesTogether ==
    ASSUME NEW s \in Int, NEW s2 \in Int, NEW n \in Int, NEW n2 \in Int,
           NEW b \in Nat, NEW b2 \in Nat, s2 <= s + (n2 - n)
    PROVE  /\ n2 + b2 <= n + b => s2 + b2 <= s + b
           /\ \A r \in Nat : n2 + b2 <= n + b + r => s2 + b2 <= s + b + r
OBVIOUS

\* What exists and what may be drawn are bounded together, as what has been drawn
\* and what may be drawn are.
LEMMA SupplyStepBound ==
    ASSUME PSMInv, RLP!TypeOK, [Next]_vars
    PROVE  \/ voltSupply' + RLP!Buffer' <= voltSupply + RLP!Buffer /\ now' = now
           \/ /\ voltSupply' + RLP!Buffer'
                    <= voltSupply + RLP!Buffer + MAX_RATE_LIMIT_PER_SECOND
              /\ now' = now + 1
<1>1. /\ PSMInv' /\ [RLP!Next]_(RLP!vars)
      /\ voltSupply' <= voltSupply + (netUsed' - netUsed)
    BY StepEffect
<1>2. RLP!TypeOK'
    BY <1>1, LimiterAssumption, RLP!TypeStep
<1>3. RLP!Buffer \in Nat /\ RLP!Buffer' \in Nat
    <2>1. (RLP!TypeOK => RLP!Buffer \in Nat) /\ (RLP!TypeOK => RLP!Buffer \in Nat)'
        BY LimiterAssumption, RLP!BufferNat, PTL
    <2> QED BY <1>2, <2>1
<1>4. /\ voltSupply \in Int /\ voltSupply' \in Int
      /\ netUsed \in Int /\ netUsed' \in Int
      /\ MAX_RATE_LIMIT_PER_SECOND \in Nat
    BY <1>1, <1>2, PegStabilityModuleAssumption DEF PSMInv, LedgerInv, RLP!TypeOK
<1>5. \/ netUsed' + RLP!Buffer' <= netUsed + RLP!Buffer /\ now' = now
      \/ /\ netUsed' + RLP!Buffer'
               <= netUsed + RLP!Buffer + MAX_RATE_LIMIT_PER_SECOND
         /\ now' = now + 1
    BY <1>1, <1>2, LimiterAssumption, RLP!StepBound
<1>6. voltSupply' <= voltSupply + (netUsed' - netUsed)
    BY <1>1
<1>7. CASE netUsed' + RLP!Buffer' <= netUsed + RLP!Buffer /\ now' = now
    BY <1>3, <1>4, <1>6, <1>7, MovesTogether
<1>8. CASE /\ netUsed' + RLP!Buffer'
                 <= netUsed + RLP!Buffer + MAX_RATE_LIMIT_PER_SECOND
           /\ now' = now + 1
    BY <1>3, <1>4, <1>6, <1>8, MovesTogether
<1> QED BY <1>5, <1>7, <1>8

\* The limit on minting from any moment on: what exists later, plus what could be
\* minted then, is within what exists now, the cap of now and the maximum rate for
\* the time in between, whatever was minted before and however governance changes
\* rate and cap, prices, fees and range meanwhile.
THEOREM AnyWindowIsLimited ==
    ASSUME NEW s, NEW c, NEW t
    PROVE  Spec => [](voltSupply = s /\ bufferCap = c /\ now = t
                        => [](voltSupply + RL!Buffer
                                <= s + c + MAX_RATE_LIMIT_PER_SECOND * (now - t)))
<1> DEFINE Start  == voltSupply = s /\ bufferCap = c /\ now = t
           Bound  == voltSupply + RL!Buffer
                        <= s + c + MAX_RATE_LIMIT_PER_SECOND * (now - t)
           Window == s \in Int /\ c \in Nat /\ t \in Nat /\ t <= now /\ Bound
<1>0. RL!Buffer = RLP!Buffer
    BY DEF RL!Buffer, RLP!Buffer, RL!MathMin, RLP!MathMin
<1>1. PSMInv /\ RLP!TypeOK /\ Start => Window
    <2> SUFFICES ASSUME PSMInv, RLP!TypeOK, Start PROVE Window
        OBVIOUS
    <2>1. s \in Int /\ c \in Nat /\ t \in Nat /\ t <= now
        BY DEF PSMInv, LedgerInv, RLP!TypeOK
    <2>2. RL!Buffer <= c /\ RL!Buffer \in Nat
        BY <1>0, LimiterAssumption, RLP!BufferNat
    <2>3. MAX_RATE_LIMIT_PER_SECOND * (now - t) = 0
        BY <2>1, PegStabilityModuleAssumption
    <2> QED BY <2>1, <2>2, <2>3
<1>2. PSMInv /\ RLP!TypeOK /\ PSMInv' /\ RLP!TypeOK' /\ Window /\ [Next]_vars
        => Window'
    <2> SUFFICES ASSUME PSMInv, RLP!TypeOK, PSMInv', RLP!TypeOK', Window, [Next]_vars
                 PROVE  Window'
        OBVIOUS
    <2>1. /\ RLP!Buffer \in Nat /\ voltSupply \in Int /\ now \in Nat
          /\ MAX_RATE_LIMIT_PER_SECOND \in Nat
        BY LimiterAssumption, RLP!BufferNat, PegStabilityModuleAssumption
        DEF PSMInv, LedgerInv, RLP!TypeOK
    <2>2. RLP!Buffer' \in Nat /\ voltSupply' \in Int
        <3>1. (RLP!TypeOK => RLP!Buffer \in Nat)'
            BY LimiterAssumption, RLP!BufferNat, PTL
        <3> QED BY <3>1 DEF PSMInv, LedgerInv
    <2> DEFINE x == voltSupply + RLP!Buffer
               y == voltSupply' + RLP!Buffer'
    <2>3. \/ y <= x /\ now' = now
          \/ y <= x + MAX_RATE_LIMIT_PER_SECOND /\ now' = now + 1
        BY SupplyStepBound
    <2>4. /\ x \in Int /\ y \in Int /\ s + c \in Int
          /\ x <= (s + c) + MAX_RATE_LIMIT_PER_SECOND * (now - t)
        BY <1>0, <2>1, <2>2
    <2>5. t <= now' /\ RL!Buffer' = RLP!Buffer'
        <3>1. (RL!Buffer = RLP!Buffer)'
            BY <1>0, PTL
        <3> QED BY <2>1, <2>3, <3>1
    <2> HIDE DEF x, y
    <2>6. y <= (s + c) + MAX_RATE_LIMIT_PER_SECOND * (now' - t)
        BY <2>1, <2>3, <2>4, LimiterAssumption, RLP!WindowStep
    <2> QED BY <2>5, <2>6 DEF y
<1>3. Window => Bound
    OBVIOUS
<1> HIDE DEF Start, Bound, Window
<1>4. Spec => [](Start => []Bound)
    BY <1>1, <1>2, <1>3, TypeCorrect, PTL DEF Spec
<1> QED BY <1>4 DEF Start, Bound

\* The limiter under the contract is the eager token bucket.
THEOREM MintingRefinement == Spec => MintingIsTokenBucket
<1>1. Spec => RLP!ImplementsTokenBucket
    BY LimiterRuns, LimiterAssumption, RLP!Refinement, PTL
<1>2. RLP!TB!Spec => RL!TB!Spec
    <2>1. RLP!Buffer = RL!Buffer /\ RLP!Buffer' = RL!Buffer'
        BY DEF RLP!Buffer, RL!Buffer, RLP!MathMin, RL!MathMin
    <2>2. RLP!TB!Init => RL!TB!Init
        BY <2>1 DEF RLP!TB!Init, RL!TB!Init
    <2>3. [RLP!TB!Next]_(RLP!TB!vars) => [RL!TB!Next]_(RL!TB!vars)
        BY <2>1 DEF RLP!TB!Next, RL!TB!Next, RLP!TB!vars, RL!TB!vars, Mintable,
            RLP!TB!Tick, RL!TB!Tick, RLP!TB!Draw, RL!TB!Draw, RLP!TB!PutBack,
            RL!TB!PutBack, RLP!TB!ChangeCap, RL!TB!ChangeCap, RLP!TB!ChangeRate,
            RL!TB!ChangeRate, RLP!TB!MathMin, RL!TB!MathMin
    <2> QED BY <2>2, <2>3, PTL DEF RLP!TB!Spec, RL!TB!Spec
<1> QED BY <1>1, <1>2 DEF RLP!ImplementsTokenBucket, MintingIsTokenBucket,
                          RL!ImplementsTokenBucket

\* While no PCV is withdrawn, what is below the threshold leaves against VOLT.
THEOREM ReservesAreProtected == Spec => ThresholdProtectsReserves
<1>1. PSMInv /\ RLP!TypeOK /\ [Next]_vars
        => [underlyingBalance'[PSM] < MathMin(underlyingBalance[PSM],
                                              config.reservesThreshold)
              => Circulating' < Circulating \/ PCVWithdrawal]_vars
    <2> SUFFICES ASSUME PSMInv, RLP!TypeOK, [Next]_vars, ~PCVWithdrawal,
                        underlyingBalance'[PSM] < MathMin(underlyingBalance[PSM],
                                                          config.reservesThreshold)
                 PROVE  Circulating' < Circulating
        OBVIOUS
    <2>0. /\ underlyingBalance[PSM] \in Int /\ voltBalance[PSM] \in Int
          /\ config.reservesThreshold \in Nat /\ voltSupply \in Int
          /\ Amounts \subseteq Nat
        BY HolderFacts, PegStabilityModuleAssumption
        DEF PSMInv, ConfigInv, LedgerInv
    <2>1. /\ underlyingBalance'[PSM] \in Int
          /\ underlyingBalance'[PSM] < underlyingBalance[PSM]
          /\ underlyingBalance'[PSM] < config.reservesThreshold
        <3>1. underlyingBalance'[PSM] \in Int
            <4>1. PSMInv'
                BY StepEffect
            <4> QED BY <4>1, HolderFacts DEF PSMInv, LedgerInv
        <3> QED BY <2>0, <3>1 DEF MathMin
    <2>2. ASSUME NEW c \in Accounts, NEW to \in Accounts \cup {PSM},
                 NEW a \in Amounts, NEW m, mint(c, to, a, m)
          PROVE  FALSE
        BY <2>0, <2>1, <2>2, MintEffect
    <2>3. ASSUME NEW c \in Accounts, NEW to \in Accounts \cup {PSM},
                 NEW v \in Amounts, NEW m, redeem(c, to, v, m)
          PROVE  Circulating' < Circulating
        <3>1. /\ voltBalance'[PSM] = voltBalance[PSM] + v /\ voltSupply' = voltSupply
              /\ underlyingBalance'[PSM] = IF to = PSM THEN underlyingBalance[PSM]
                    ELSE underlyingBalance[PSM] - RedeemAmountOut(v)
            BY <2>3, RedeemEffect
        <3>2. v \in Nat /\ (v = 0 => RedeemAmountOut(v) = 0)
            BY <2>0, <2>3, RedeemQuote DEF redeem
        <3>3. v # 0
            BY <2>0, <2>1, <3>1, <3>2
        <3> QED BY <2>0, <3>1, <3>2, <3>3 DEF Circulating
    <2>4. ~TokenStep
        <3>1. \/ ~TokenStep
              \/ underlyingBalance'[PSM] >= underlyingBalance[PSM]
              \/ underlyingBalance'[PSM] = config.reservesThreshold
            BY TokenStepEffect
        <3> QED BY <2>0, <2>1, <3>1
    <2>5. ~UNCHANGED underlyingBalance
        BY <2>0, <2>1
    <2> QED BY <2>2, <2>3, <2>4, <2>5, StepKinds DEF tokenVars
<1> QED BY <1>1, TypeCorrect, PTL DEF Spec, ThresholdProtectsReserves

\* What is paid for VOLT, in the signs of the changes of the contract's ledgers.
LEMMA SaleIsFair ==
    ASSUME NEW in \in Int, NEW out \in Int, NEW paid \in Nat, NEW v \in Nat,
           NEW price \in Nat, NEW bp \in Nat, NEW base \in Nat, NEW net \in Nat,
           paid * price * bp <= v * base * net,
           out = -v, in = 0 \/ in = -paid
    PROVE  /\ ~(in > 0)
           /\ in < 0 => -in * price * bp <= -out * base * net
           /\ in = 0 /\ out # 0 => out < 0
<1>1. -out = v /\ (in < 0 => -in = paid)
    OBVIOUS
<1>2. in < 0 => -in * price * bp <= -out * base * net
    BY <1>1
<1>3. in <= 0 /\ out <= 0
    OBVIOUS
<1> QED BY <1>2, <1>3

\* Whatever truncates on the way and whoever receives the tokens, no trade gives
\* more than the oracle's price less the fee.
THEOREM TradesPayThePrice == Spec => NoTradeBeatsThePrice
<1> DEFINE in == underlyingBalance'[PSM] - underlyingBalance[PSM]
           out == Circulating' - Circulating
           BP == BASIS_POINTS_GRANULARITY
           mintNet == BP - config.mintFeeBasisPoints
           redeemNet == BP - config.redeemFeeBasisPoints
           Fair == /\ in > 0 => out * BASE * BP <= OR!readOracle * in * mintNet
                   /\ in < 0 => -in * OR!readOracle * BP <= -out * BASE * redeemNet
                   /\ in = 0 => out < 0
<1>1. PSMInv /\ RLP!TypeOK /\ [Next]_vars
        => [Circulating' # Circulating /\ ~PCVWithdrawal => Fair]_vars
    <2> SUFFICES ASSUME PSMInv, RLP!TypeOK, [Next]_vars, ~PCVWithdrawal,
                        Circulating' # Circulating
                 PROVE  Fair
        OBVIOUS
    <2>0. /\ underlyingBalance[PSM] \in Int /\ voltBalance[PSM] \in Int
          /\ voltSupply \in Int /\ Amounts \subseteq Nat
          /\ BASE \in Nat \ {0} /\ BP \in Nat \ {0} /\ redeemNet \in Nat
        BY HolderFacts, PegStabilityModuleAssumption
        DEF PSMInv, ConfigInv, LedgerInv
    <2>1. ASSUME NEW c \in Accounts, NEW to \in Accounts \cup {PSM},
                 NEW a \in Amounts, NEW m, mint(c, to, a, m)
          PROVE  Fair
        <3>1. a \in Nat /\ Quotable
            BY <2>0, <2>1 DEF mint
        <3>2. PICK sold \in Int, minted \in Nat :
                 /\ sold + minted = MintAmountOut(a)
                 /\ voltSupply' = voltSupply + minted
                 /\ voltBalance'[PSM] = IF to = PSM THEN voltBalance[PSM] + minted
                                        ELSE voltBalance[PSM] - sold
            BY <2>1, MintEffect
        <3>3. /\ in = a
              /\ out = IF to = PSM THEN 0 ELSE MintAmountOut(a)
            BY <2>0, <2>1, <3>1, <3>2, MintEffect DEF Circulating
        <3>4. out # 0
            BY <2>0, <3>2 DEF Circulating
        <3>5. a # 0 /\ out = MintAmountOut(a)
            BY <3>1, <3>3, <3>4, MintQuote
        <3> HIDE DEF in, out
        <3> QED BY <3>1, <3>3, <3>5, MintQuote
    <2>2. ASSUME NEW c \in Accounts, NEW to \in Accounts \cup {PSM},
                 NEW v \in Amounts, NEW m, redeem(c, to, v, m)
          PROVE  Fair
        <3> DEFINE paid == RedeemAmountOut(v)
                   price == OR!readOracle
        <3>1. /\ v \in Nat /\ paid \in Nat /\ price \in Nat
              /\ paid * price * BP <= v * BASE * redeemNet
            BY <2>0, <2>2, RedeemQuote, PriceNat DEF redeem, Quotable
        <3>2. /\ out = -v /\ out \in Int /\ out # 0
              /\ in = 0 \/ in = -paid
              /\ in \in Int
            <4>1. /\ voltBalance'[PSM] = voltBalance[PSM] + v
                  /\ voltSupply' = voltSupply
                  /\ underlyingBalance'[PSM] = IF to = PSM THEN underlyingBalance[PSM]
                        ELSE underlyingBalance[PSM] - paid
                BY <2>2, RedeemEffect
            <4> HIDE DEF paid
            <4>2. out = -v /\ out \in Int
                BY <2>0, <3>1, <4>1 DEF Circulating
            <4>3. out # 0
                BY <2>0, <3>1, <4>1 DEF Circulating
            <4>4. (in = 0 \/ in = -paid) /\ in \in Int
                BY <2>0, <3>1, <4>1
            <4> QED BY <4>2, <4>3, <4>4
        <3>3. BP \in Nat /\ BASE \in Nat
            BY <2>0
        <3> HIDE DEF in, out, paid, price, BP, redeemNet
        <3>4. /\ ~(in > 0)
              /\ in < 0 => -in * price * BP <= -out * BASE * redeemNet
              /\ in = 0 /\ out # 0 => out < 0
            BY <2>0, <3>1, <3>2, <3>3, SaleIsFair
        <3> QED BY <3>2, <3>4 DEF price
    <2>3. CASE TokenStep
        <3>1. /\ underlyingBalance'[PSM] = underlyingBalance[PSM]
              /\ Circulating' < Circulating
            BY <2>3, TokenStepEffect
        <3>2. voltBalance'[PSM] \in Int /\ voltSupply' \in Int
            BY <2>3, TokenStepEffect, HolderFacts
        <3>3. in = 0 /\ out < 0
            BY <2>0, <3>1, <3>2 DEF Circulating
        <3> HIDE DEF in, out
        <3> QED BY <3>3
    <2>4. UNCHANGED tokenVars => Circulating' = Circulating
        BY DEF tokenVars, Circulating
    <2> QED BY <2>1, <2>2, <2>3, <2>4, StepKinds
<1> QED BY <1>1, TypeCorrect, PTL DEF Spec, NoTradeBeatsThePrice

------------------------------------------------------------------------------
(* Several trades at one price *)

\* A number bought and paid back, or the other way round, at one price: a round
\* trip costs both fees, to the last unit and whatever the price and the decimals
\* of the token are, for any amount; truncation never pays for a part of them.
THEOREM RoundTripsCostBothFees ==
    Spec => [](Quotable /\ OR!readOracle # 0 =>
        LET BP    == BASIS_POINTS_GRANULARITY
            taken == (BP - config.mintFeeBasisPoints)
                        * (BP - config.redeemFeeBasisPoints)
        IN  \A a \in Nat :
               /\ RedeemAmountOut(MintAmountOut(a)) * BP * BP <= a * taken
               /\ MintAmountOut(RedeemAmountOut(a)) * BP * BP <= a * taken)
<1> DEFINE BP == BASIS_POINTS_GRANULARITY
           mintNet == BP - config.mintFeeBasisPoints
           redeemNet == BP - config.redeemFeeBasisPoints
           Costs(a) ==
               /\ RedeemAmountOut(MintAmountOut(a)) * BP * BP
                     <= a * (mintNet * redeemNet)
               /\ MintAmountOut(RedeemAmountOut(a)) * BP * BP
                     <= a * (mintNet * redeemNet)
<1>1. ASSUME PSMInv, Quotable, OR!readOracle # 0, NEW a \in Nat PROVE Costs(a)
    <2> DEFINE price == OR!readOracle
               v == MintAmountOut(a)
               u == RedeemAmountOut(v)
               w == RedeemAmountOut(a)
               b == MintAmountOut(w)
    <2>1. /\ BP \in Nat \ {0} /\ BASE \in Nat \ {0} /\ price \in Nat \ {0}
          /\ mintNet \in Nat /\ redeemNet \in Nat
        BY <1>1, PriceNat, PegStabilityModuleAssumption
        DEF Quotable, PSMInv, ConfigInv
    <2>2. v \in Nat /\ v * BASE * BP <= price * a * mintNet
        BY <1>1, MintQuote
    <2>3. u \in Nat /\ u * price * BP <= v * BASE * redeemNet
        BY <1>1, <2>2, RedeemQuote
    <2>4. w \in Nat /\ w * price * BP <= a * BASE * redeemNet
        BY <1>1, RedeemQuote
    <2>5. b \in Nat /\ b * BASE * BP <= price * w * mintNet
        BY <1>1, <2>4, MintQuote
    <2> HIDE DEF price, u, v, w, b, BP, mintNet, redeemNet
    <2>6. price * a = a * price /\ price * w = w * price
        BY <1>1, <2>1, <2>4
    <2>7. u * BP * BP <= a * mintNet * redeemNet
        BY <1>1, <2>1, <2>2, <2>3, <2>6, PriceCancels
    <2>8. b * BP * BP <= a * redeemNet * mintNet
        BY <1>1, <2>1, <2>4, <2>5, <2>6, PriceCancels
    <2>9. /\ a * mintNet * redeemNet = a * (mintNet * redeemNet)
          /\ a * redeemNet * mintNet = a * (mintNet * redeemNet)
        BY <1>1, <2>1
    <2> QED BY <2>7, <2>8, <2>9 DEF u, v, w, b
<1>2. PSMInv /\ Quotable /\ OR!readOracle # 0 => \A a \in Nat : Costs(a)
    BY <1>1
<1>3. Spec => [](Quotable /\ OR!readOracle # 0 => \A a \in Nat : Costs(a))
    BY <1>2, TypeCorrect, PTL
<1> QED BY <1>3

\* Nothing is gained by splitting a trade: two amounts sold one by one get no more
\* than their sum gets at once, in either direction, although fee, price and
\* decimals are truncated one after the other.  So the quote for more is never
\* the smaller one.
THEOREM SplittingNeverPays ==
    Spec => [](Quotable => \A a, b \in Nat :
        /\ MintAmountOut(a) + MintAmountOut(b) <= MintAmountOut(a + b)
        /\ OR!readOracle # 0 =>
              RedeemAmountOut(a) + RedeemAmountOut(b) <= RedeemAmountOut(a + b))
<1> DEFINE BP == BASIS_POINTS_GRANULARITY
           price == OR!readOracle
<1>1. ASSUME PSMInv, Quotable, NEW a \in Nat, NEW b \in Nat
      PROVE  MintAmountOut(a) + MintAmountOut(b) <= MintAmountOut(a + b)
    <2> DEFINE net == BP - config.mintFeeBasisPoints
               due(n) == price * n * net
               q(n) == due(n) \div BP
    <2>1. /\ BP \in Nat \ {0} /\ BASE \in Nat \ {0} /\ price \in Nat /\ net \in Nat
        BY <1>1, PriceNat, PegStabilityModuleAssumption
        DEF Quotable, PSMInv, ConfigInv
    <2>2. \A n : MintAmountOut(n) = q(n) \div BASE
        BY DEF MintAmountOut, asUint256, divInt, mulInt
    <2> HIDE DEF BP, price, net
    <2>3. /\ due(a) \in Nat /\ due(b) \in Nat /\ due(a + b) = due(a) + due(b)
        BY <1>1, <2>1
    <2> HIDE DEF due
    <2>4. q(a) + q(b) <= q(a + b) /\ q(a) \in Nat /\ q(b) \in Nat /\ q(a + b) \in Nat
        <3> DEFINE x == due(a)
                   y == due(b)
                   z == due(a + b)
        <3>1. x \in Nat /\ y \in Nat /\ z \in Nat /\ z = x + y
            BY <2>3
        <3> HIDE DEF x, y, z
        <3>2. /\ (x \div BP) + (y \div BP) <= z \div BP
              /\ x \div BP \in Nat /\ y \div BP \in Nat /\ z \div BP \in Nat
            BY <2>1, <3>1, QuotientOfParts, Quotient
        <3> QED BY <3>2 DEF x, y, z
    <2> HIDE DEF q
    <2>5. /\ (q(a) \div BASE) + (q(b) \div BASE) <= (q(a) + q(b)) \div BASE
          /\ (q(a) + q(b)) \div BASE <= q(a + b) \div BASE
        <3>1. q(a) + q(b) \in Nat
            BY <2>4
        <3> QED BY <2>1, <2>4, <3>1, QuotientOfParts
    <2>6. /\ q(a) \div BASE \in Nat /\ q(b) \div BASE \in Nat
          /\ (q(a) + q(b)) \div BASE \in Nat /\ q(a + b) \div BASE \in Nat
        <3>1. q(a) + q(b) \in Nat
            BY <2>4
        <3> QED BY <2>1, <2>4, <3>1, Quotient
    <2> QED BY <2>2, <2>5, <2>6
<1>2. ASSUME PSMInv, Quotable, price # 0, NEW a \in Nat, NEW b \in Nat
      PROVE  RedeemAmountOut(a) + RedeemAmountOut(b) <= RedeemAmountOut(a + b)
    <2> DEFINE net == BP - config.redeemFeeBasisPoints
               f(n) == (n * net) \div BP
               q(n) == (f(n) * BASE * BASE) \div price
    <2>1. /\ BP \in Nat \ {0} /\ BASE \in Nat \ {0} /\ price \in Nat \ {0}
          /\ net \in Nat
        BY <1>2, PriceNat, PegStabilityModuleAssumption
        DEF Quotable, PSMInv, ConfigInv
    <2>2. \A n : RedeemAmountOut(n) = q(n) \div BASE
        BY DEF RedeemAmountOut, asUint256, divDec, getPartial, from
    <2> HIDE DEF BP, price, net
    <2>3. f(a) + f(b) <= f(a + b) /\ f(a) \in Nat /\ f(b) \in Nat /\ f(a + b) \in Nat
        <3>1. a * net \in Nat /\ b * net \in Nat /\ (a + b) * net = a * net + b * net
            BY <1>2, <2>1
        <3>2. (a + b) * net \in Nat
            BY <3>1
        <3> QED BY <2>1, <3>1, <3>2, QuotientOfParts, Quotient
    <2> HIDE DEF f
    <2>4. ASSUME NEW x \in Nat, NEW y \in Nat, NEW z \in Nat, x + y <= z
          PROVE  /\ x * BASE * BASE \in Nat /\ y * BASE * BASE \in Nat
                 /\ z * BASE * BASE \in Nat
                 /\ x * BASE * BASE + y * BASE * BASE <= z * BASE * BASE
        <3> DEFINE s == BASE * BASE
        <3>1. s \in Nat
            BY <2>1
        <3>2. x * BASE * BASE = x * s /\ y * BASE * BASE = y * s
              /\ z * BASE * BASE = z * s
            BY <2>1, <2>4
        <3> HIDE DEF s
        <3>3. x * s \in Nat /\ y * s \in Nat /\ z * s \in Nat
              /\ x * s + y * s = (x + y) * s /\ (x + y) * s <= z * s
            BY <2>4, <3>1
        <3> QED BY <3>2, <3>3
    <2>5. q(a) + q(b) <= q(a + b) /\ q(a) \in Nat /\ q(b) \in Nat /\ q(a + b) \in Nat
        <3> DEFINE x == f(a) * BASE * BASE
                   y == f(b) * BASE * BASE
                   z == f(a + b) * BASE * BASE
        <3>1. x \in Nat /\ y \in Nat /\ z \in Nat /\ x + y <= z
            BY <2>3, <2>4
        <3> HIDE DEF x, y, z
        <3>2. /\ (x \div price) + (y \div price) <= (x + y) \div price
              /\ (x + y) \div price <= z \div price
              /\ x \div price \in Nat /\ y \div price \in Nat
              /\ (x + y) \div price \in Nat /\ z \div price \in Nat
            <4>1. x + y \in Nat
                BY <3>1
            <4> QED BY <2>1, <3>1, <4>1, QuotientOfParts, Quotient
        <3>3. (x \div price) + (y \div price) <= z \div price
            BY <3>2
        <3> QED BY <3>2, <3>3 DEF x, y, z
    <2> HIDE DEF q
    <2>6. /\ (q(a) \div BASE) + (q(b) \div BASE) <= (q(a) + q(b)) \div BASE
          /\ (q(a) + q(b)) \div BASE <= q(a + b) \div BASE
          /\ q(a) \div BASE \in Nat /\ q(b) \div BASE \in Nat
          /\ (q(a) + q(b)) \div BASE \in Nat /\ q(a + b) \div BASE \in Nat
        <3>1. q(a) + q(b) \in Nat
            BY <2>5
        <3> QED BY <2>1, <2>5, <3>1, QuotientOfParts, Quotient
    <2> QED BY <2>2, <2>6
<1> DEFINE Splits ==
        Quotable => \A a, b \in Nat :
            /\ MintAmountOut(a) + MintAmountOut(b) <= MintAmountOut(a + b)
            /\ OR!readOracle # 0 =>
                  RedeemAmountOut(a) + RedeemAmountOut(b) <= RedeemAmountOut(a + b)
<1>3. PSMInv => Splits
    BY <1>1, <1>2
<1> QED BY <1>3, TypeCorrect, PTL

------------------------------------------------------------------------------
(* When mint() goes through *)

\* What mint() takes from stock, and what it has to mint.
FromStock(amountIn) == MathMin(voltBalance[PSM], MintAmountOut(amountIn))

ToMint(amountIn) == MintAmountOut(amountIn) - FromStock(amountIn)

\* What mint() requires on its way: of the contract, of the oracle, of the trader
\* and, if anything has to be minted, of the VOLT token and the buffer.
MintRequires(caller, amountIn, minAmountOut) ==
    /\ ~pauses.paused /\ ~pauses.mintPaused
    /\ Quotable
    /\ MintAmountOut(amountIn) >= minAmountOut
    /\ underlyingBalance[caller] >= amountIn
    /\ ToMint(amountIn) # 0 =>
          /\ ~pauses.voltPaused
          /\ RL!Buffer # 0
          /\ ToMint(amountIn) <= RL!Buffer

\* What mint() leaves behind.
MintLeaves(caller, to, amountIn) ==
    LET sold   == FromStock(amountIn)
        minted == ToMint(amountIn)
    IN  /\ underlyingBalance' = Transfer(underlyingBalance, caller, PSM, amountIn)
        /\ voltBalance' =
              [Transfer(voltBalance, PSM, to, sold) EXCEPT ![to] = @ + minted]
        /\ voltSupply' = voltSupply + minted
        /\ bufferStored' = IF minted = 0 THEN bufferStored ELSE RL!Buffer - minted
        /\ lastBufferUsedTime' = IF minted = 0 THEN lastBufferUsedTime ELSE now
        /\ netUsed' = IF minted = 0 THEN netUsed ELSE netUsed + minted
        /\ UNCHANGED <<now, rateLimitPerSecond, bufferCap, oracleVars, config,
                       pauses>>

\* MintRequires is what decides whether mint() reverts: where it holds, each
\* variable gets the one next value that is written here.
LEMMA MintIsRequirements ==
    ASSUME NEW c, NEW to, NEW a, NEW m
    PROVE  mint(c, to, a, m) <=> MintRequires(c, a, m) /\ MintLeaves(c, to, a)
<1>1. CASE ToMint(a) = 0
    BY <1>1 DEF mint, mintVolt, MintRequires, MintLeaves, FromStock, ToMint,
        limiterVars
<1>2. CASE ToMint(a) # 0
    BY <1>2 DEF mint, mintVolt, MintRequires, MintLeaves, FromStock, ToMint,
        RL!depleteBuffer
<1> QED BY <1>1, <1>2

\* getMaxMintAmountOut() is exact: while minting is open, whoever has the
\* underlying tokens gets an amount of VOLT, whatever it is, if and only if it is
\* not above the number the contract quotes.
THEOREM MaxMintDecides ==
    Spec => [](/\ ~pauses.paused /\ ~pauses.mintPaused /\ ~pauses.voltPaused
               /\ Quotable
               => \A c \in Accounts, a \in Nat :
                     underlyingBalance[c] >= a =>
                        (MintAmountOut(a) <= MaxMintAmountOut
                            <=> MintRequires(c, a, 0)))
<1>1. ASSUME PSMInv, RLP!TypeOK, ~pauses.paused, ~pauses.mintPaused,
             ~pauses.voltPaused, Quotable, NEW c \in Accounts, NEW a \in Nat,
             underlyingBalance[c] >= a
      PROVE  MintAmountOut(a) <= MaxMintAmountOut <=> MintRequires(c, a, 0)
    <2> DEFINE out   == MintAmountOut(a)
               stock == voltBalance[PSM]
    <2>1. out \in Nat
        BY <1>1, MintQuote
    <2>2. stock \in Int
        BY <1>1, HolderFacts DEF PSMInv, LedgerInv
    <2>3. RL!Buffer \in Nat
        <3>1. RL!Buffer = RLP!Buffer
            BY DEF RL!Buffer, RLP!Buffer, RL!MathMin, RLP!MathMin
        <3> QED BY <1>1, <3>1, LimiterAssumption, RLP!BufferNat
    <2>4. ToMint(a) = IF stock <= out THEN out - stock ELSE 0
        <3>1. ToMint(a) = out - MathMin(stock, out)
            BY DEF ToMint, FromStock
        <3> HIDE DEF out, stock
        <3> QED BY <2>1, <2>2, <3>1 DEF MathMin
    <2>5. MaxMintAmountOut = stock + RL!Buffer
        BY DEF MaxMintAmountOut
    <2> HIDE DEF out, stock
    <2>6. out <= stock + RL!Buffer <=>
             (ToMint(a) # 0 => RL!Buffer # 0 /\ ToMint(a) <= RL!Buffer)
        BY <2>1, <2>2, <2>3, <2>4
    <2> QED BY <1>1, <2>1, <2>5, <2>6 DEF MintRequires, out
<1> DEFINE Exact ==
        /\ ~pauses.paused /\ ~pauses.mintPaused /\ ~pauses.voltPaused
        /\ Quotable
        => \A c \in Accounts, a \in Nat :
              underlyingBalance[c] >= a =>
                 (MintAmountOut(a) <= MaxMintAmountOut <=> MintRequires(c, a, 0))
<1>2. PSMInv /\ RLP!TypeOK => Exact
    BY <1>1
<1> QED BY <1>2, TypeCorrect, PTL

------------------------------------------------------------------------------
(* Sums: the community module defines one by recursion over the sets that are *)
(* left, so every fact about them is shown by a smallest counterexample.       *)

Total(f, S) == MapThenSumSet(LAMBDA a : f[a], S)

\* The element that a sum over a set takes next.
Pick(S) == CHOOSE x \in S : TRUE

\* g adds f up, over every set in G.
AddsUp(g, G, f) ==
    g = [s \in G |-> IF s = {} THEN 0 ELSE f[Pick(s)] + g[s \ {Pick(s)}]]

\* The subsets of at most n elements.
Small(S, n) == {s \in SUBSET S : Cardinality(s) <= n}

\* Taking out the element that a sum takes next makes a set smaller by one.
LEMMA SmallerSubset ==
    ASSUME NEW S, IsFiniteSet(S), NEW s \in SUBSET S, s # {}
    PROVE  /\ Pick(s) \in s /\ s \ {Pick(s)} \in SUBSET S
           /\ Cardinality(s) \in Nat \ {0}
           /\ Cardinality(s \ {Pick(s)}) = Cardinality(s) - 1
           /\ IsFiniteSet(s)
<1>1. Pick(s) \in s
    BY DEF Pick
<1>2. IsFiniteSet(s)
    BY FS_Subset
<1>3. Cardinality(s) \in Nat /\ Cardinality(s) # 0
    BY <1>2, FS_CardinalityType, FS_EmptySet
<1> QED BY <1>1, <1>2, <1>3, FS_RemoveElement

\* Some function adds f up over the sets of at most n elements.
LEMMA SmallAddsUp ==
    ASSUME NEW f, NEW S, IsFiniteSet(S), NEW n \in Nat
    PROVE  \E g : AddsUp(g, Small(S, n), f)
<1> DEFINE T == {k \in Nat : ~\E g : AddsUp(g, Small(S, k), f)}
<1> SUFFICES ASSUME T # {} PROVE FALSE
    OBVIOUS
<1>1. PICK m \in T : \A k \in T : m <= k
    BY RLP!NatSmallest, LimiterAssumption
<1>2. CASE m = 0
    <2>1. \A s \in Small(S, 0) : s = {}
        <3>1. ASSUME NEW s \in SUBSET S, s # {} PROVE ~(Cardinality(s) <= 0)
            <4>1. Cardinality(s) \in Nat \ {0}
                BY <3>1, SmallerSubset
            <4> QED BY <4>1
        <3> QED BY <3>1 DEF Small
    <2> DEFINE g == [s \in Small(S, 0) |-> 0]
    <2>2. AddsUp(g, Small(S, 0), f)
        BY <2>1 DEF AddsUp
    <2> QED BY <1>2, <2>2
<1>3. CASE m # 0
    <2>1. m - 1 \in Nat /\ m - 1 \notin T
        BY <1>1, <1>3
    <2>2. PICK g : AddsUp(g, Small(S, m - 1), f)
        BY <2>1
    <2> DEFINE h == [s \in Small(S, m) |->
                       IF s = {} THEN 0 ELSE f[Pick(s)] + g[s \ {Pick(s)}]]
    <2>3. ASSUME NEW s \in Small(S, m), s # {}
          PROVE  /\ s \ {Pick(s)} \in Small(S, m - 1)
                 /\ s \ {Pick(s)} \in Small(S, m)
        BY <2>1, <2>3, SmallerSubset DEF Small
    <2>4. ASSUME NEW s \in Small(S, m - 1) PROVE h[s] = g[s]
        <3>1. s \in Small(S, m)
            <4>1. s \in SUBSET S /\ IsFiniteSet(s) /\ Cardinality(s) \in Nat
                BY FS_Subset, FS_CardinalityType DEF Small
            <4> QED BY <2>1, <4>1 DEF Small
        <3>2. h[s] = IF s = {} THEN 0 ELSE f[Pick(s)] + g[s \ {Pick(s)}]
            BY <3>1
        <3>3. g[s] = IF s = {} THEN 0 ELSE f[Pick(s)] + g[s \ {Pick(s)}]
            BY <2>2, <2>4 DEF AddsUp
        <3> QED BY <3>2, <3>3
    <2>5. ASSUME NEW s \in Small(S, m)
          PROVE  h[s] = IF s = {} THEN 0 ELSE f[Pick(s)] + h[s \ {Pick(s)}]
        <3>1. CASE s = {}
            BY <3>1
        <3>2. CASE s # {}
            <4>1. h[s \ {Pick(s)}] = g[s \ {Pick(s)}]
                BY <2>3, <2>4, <3>2
            <4>2. h[s] = f[Pick(s)] + g[s \ {Pick(s)}]
                BY <3>2
            <4> QED BY <3>2, <4>1, <4>2
        <3> QED BY <3>1, <3>2
    <2>6. h = [s \in Small(S, m) |-> h[s]]
        OBVIOUS
    <2> HIDE DEF h
    <2>7. AddsUp(h, Small(S, m), f)
        BY <2>5, <2>6 DEF AddsUp
    <2> QED BY <2>7
<1> QED BY <1>2, <1>3

\* A sum is what its definition by recursion says.
LEMMA TotalAddsUp ==
    ASSUME NEW f, NEW S, IsFiniteSet(S)
    PROVE  \E g : AddsUp(g, SUBSET S, f) /\ Total(f, S) = g[S]
<1>1. Cardinality(S) \in Nat
    BY FS_CardinalityType
<1>2. Small(S, Cardinality(S)) = SUBSET S
    BY FS_Subset DEF Small
<1>3. \E g : AddsUp(g, SUBSET S, f)
    <2>1. \E g : AddsUp(g, Small(S, Cardinality(S)), f)
        BY <1>1, SmallAddsUp
    <2> QED BY <1>2, <2>1
<1> DEFINE it == CHOOSE g : AddsUp(g, SUBSET S, f)
<1>4. AddsUp(it, SUBSET S, f)
    BY <1>3
<1>5. Total(f, S) = it[S]
    BY DEF Total, MapThenSumSet, MapThenFoldSet, AddsUp, Pick
<1> QED BY <1>4, <1>5

\* Two functions that add f up agree wherever both do.
LEMMA AddsUpOnce ==
    ASSUME NEW f, NEW S, NEW T, IsFiniteSet(S), NEW g, NEW h,
           AddsUp(g, SUBSET S, f), AddsUp(h, SUBSET T, f),
           NEW s \in SUBSET S, s \in SUBSET T
    PROVE  g[s] = h[s]
<1> DEFINE Differ == {t \in SUBSET S : t \in SUBSET T /\ g[t] # h[t]}
           Sizes == {Cardinality(t) : t \in Differ}
<1> SUFFICES ASSUME Differ # {} PROVE FALSE
    OBVIOUS
<1>1. Sizes \subseteq Nat /\ Sizes # {}
    BY FS_Subset, FS_CardinalityType
<1>2. PICK n \in Sizes : \A k \in Sizes : n <= k
    BY <1>1, RLP!NatSmallest, LimiterAssumption
<1>3. PICK t \in Differ : n = Cardinality(t)
    OBVIOUS
<1>4. t # {}
    BY <1>3 DEF AddsUp
<1>5. /\ Pick(t) \in t /\ t \ {Pick(t)} \in SUBSET S
      /\ Cardinality(t) \in Nat \ {0}
      /\ Cardinality(t \ {Pick(t)}) = Cardinality(t) - 1
    BY <1>3, <1>4, SmallerSubset
<1>6. t \ {Pick(t)} \in SUBSET T
    BY <1>3
<1>7. g[t \ {Pick(t)}] = h[t \ {Pick(t)}]
    <2>1. Cardinality(t \ {Pick(t)}) \notin Sizes
        <3> HIDE DEF Sizes, Differ
        <3> QED BY <1>2, <1>3, <1>5
    <2>2. t \ {Pick(t)} \notin Differ
        BY <2>1
    <2> QED BY <1>5, <1>6, <2>2
<1>8. /\ g[t] = f[Pick(t)] + g[t \ {Pick(t)}]
      /\ h[t] = f[Pick(t)] + h[t \ {Pick(t)}]
    BY <1>3, <1>4, <1>5, <1>6 DEF AddsUp
<1> QED BY <1>3, <1>7, <1>8

\* The sum over no element, and the sum over a set that one is taken out of.
LEMMA TotalOfPick ==
    ASSUME NEW f, NEW S, IsFiniteSet(S)
    PROVE  Total(f, S) = IF S = {} THEN 0 ELSE f[Pick(S)] + Total(f, S \ {Pick(S)})
<1>1. PICK g : AddsUp(g, SUBSET S, f) /\ Total(f, S) = g[S]
    BY TotalAddsUp
<1>2. g[S] = IF S = {} THEN 0 ELSE f[Pick(S)] + g[S \ {Pick(S)}]
    BY <1>1 DEF AddsUp
<1>3. CASE S = {}
    BY <1>1, <1>2, <1>3
<1>4. CASE S # {}
    <2> DEFINE R == S \ {Pick(S)}
    <2>1. IsFiniteSet(R) /\ R \in SUBSET S /\ R \in SUBSET R
        BY FS_RemoveElement
    <2>2. PICK h : AddsUp(h, SUBSET R, f) /\ Total(f, R) = h[R]
        BY <2>1, TotalAddsUp
    <2>3. g[R] = h[R]
        <3> HIDE DEF R
        <3> QED BY <1>1, <2>1, <2>2, AddsUpOnce
    <2> QED BY <1>1, <1>2, <1>4, <2>2, <2>3
<1> QED BY <1>3, <1>4

\* Among some subsets of a finite set there is one of smallest cardinality.
LEMMA SmallestSubset ==
    ASSUME NEW S, IsFiniteSet(S), NEW Bad, Bad \subseteq SUBSET S, Bad # {}
    PROVE  \E s \in Bad : \A t \in Bad : Cardinality(s) <= Cardinality(t)
<1> DEFINE Sizes == {Cardinality(t) : t \in Bad}
<1>1. Sizes \subseteq Nat /\ Sizes # {}
    BY FS_Subset, FS_CardinalityType
<1>2. PICK n \in Sizes : \A k \in Sizes : n <= k
    BY <1>1, RLP!NatSmallest, LimiterAssumption
<1> QED BY <1>2

\* A sum of natural numbers is one.
LEMMA TotalNat ==
    ASSUME NEW S, IsFiniteSet(S), NEW f, \A x \in S : f[x] \in Nat
    PROVE  Total(f, S) \in Nat
<1> DEFINE Bad == {s \in SUBSET S : Total(f, s) \notin Nat}
<1> SUFFICES ASSUME Bad # {} PROVE FALSE
    OBVIOUS
<1>1. PICK s \in Bad : \A t \in Bad : Cardinality(s) <= Cardinality(t)
    <2>1. Bad \subseteq SUBSET S
        OBVIOUS
    <2> HIDE DEF Bad
    <2> QED BY <2>1, SmallestSubset
<1>2. IsFiniteSet(s)
    BY FS_Subset
<1>3. s # {}
    <2>1. Total(f, s) \notin Nat
        BY <1>1
    <2>2. Total(f, s) = IF s = {} THEN 0 ELSE f[Pick(s)] + Total(f, s \ {Pick(s)})
        BY <1>2, TotalOfPick
    <2> QED BY <2>1, <2>2
<1>4. /\ Pick(s) \in s /\ s \ {Pick(s)} \in SUBSET S
      /\ Cardinality(s) \in Nat \ {0}
      /\ Cardinality(s \ {Pick(s)}) = Cardinality(s) - 1
    BY <1>3, SmallerSubset
<1>5. ~(Cardinality(s) <= Cardinality(s \ {Pick(s)}))
    BY <1>4
<1>6. Total(f, s \ {Pick(s)}) \in Nat
    BY <1>1, <1>4, <1>5
<1>7. Total(f, s) = f[Pick(s)] + Total(f, s \ {Pick(s)})
    BY <1>2, <1>3, TotalOfPick
<1> QED BY <1>4, <1>6, <1>7

\* The sum only depends on the values at the elements.
LEMMA TotalSame ==
    ASSUME NEW S, IsFiniteSet(S), NEW f, NEW g, \A x \in S : f[x] = g[x]
    PROVE  Total(f, S) = Total(g, S)
<1> DEFINE Bad == {s \in SUBSET S : Total(f, s) # Total(g, s)}
<1> SUFFICES ASSUME Bad # {} PROVE FALSE
    OBVIOUS
<1>1. PICK s \in Bad : \A t \in Bad : Cardinality(s) <= Cardinality(t)
    <2>1. Bad \subseteq SUBSET S
        OBVIOUS
    <2> HIDE DEF Bad
    <2> QED BY <2>1, SmallestSubset
<1>2. IsFiniteSet(s)
    BY FS_Subset
<1>3. s # {}
    BY <1>2, TotalOfPick
<1>4. /\ Pick(s) \in s /\ s \ {Pick(s)} \in SUBSET S
      /\ Cardinality(s) \in Nat \ {0}
      /\ Cardinality(s \ {Pick(s)}) = Cardinality(s) - 1
    BY <1>3, SmallerSubset
<1>5. ~(Cardinality(s) <= Cardinality(s \ {Pick(s)}))
    BY <1>4
<1>6. Total(f, s \ {Pick(s)}) = Total(g, s \ {Pick(s)})
    BY <1>1, <1>4, <1>5
<1>7. /\ Total(f, s) = f[Pick(s)] + Total(f, s \ {Pick(s)})
      /\ Total(g, s) = g[Pick(s)] + Total(g, s \ {Pick(s)})
    BY <1>2, <1>3, TotalOfPick
<1> QED BY <1>4, <1>6, <1>7

\* Any element may be taken out of a sum first.
LEMMA TotalWithout ==
    ASSUME NEW S, IsFiniteSet(S), NEW f, \A a \in S : f[a] \in Nat,
           NEW x \in S
    PROVE  Total(f, S) = f[x] + Total(f, S \ {x})
<1> DEFINE Bad == {s \in SUBSET S :
                     \E y \in s : Total(f, s) # f[y] + Total(f, s \ {y})}
<1> SUFFICES ASSUME Bad # {} PROVE FALSE
    OBVIOUS
<1>1. PICK s \in Bad : \A t \in Bad : Cardinality(s) <= Cardinality(t)
    <2>1. Bad \subseteq SUBSET S
        OBVIOUS
    <2> HIDE DEF Bad
    <2> QED BY <2>1, SmallestSubset
<1>2. PICK y \in s : Total(f, s) # f[y] + Total(f, s \ {y})
    OBVIOUS
<1> DEFINE p == Pick(s)
           R == s \ {p}
           Q == s \ {y}
<1>3. /\ IsFiniteSet(s) /\ p \in s /\ R \in SUBSET S
      /\ Cardinality(s) \in Nat \ {0}
      /\ Cardinality(R) = Cardinality(s) - 1
    BY <1>2, SmallerSubset
<1>4. /\ IsFiniteSet(R) /\ IsFiniteSet(Q) /\ Q \in SUBSET S
      /\ Cardinality(Q) = Cardinality(s) - 1
    BY <1>2, <1>3, FS_RemoveElement
<1>5. R \notin Bad /\ Q \notin Bad
    <2>1. ~(Cardinality(s) <= Cardinality(R)) /\ ~(Cardinality(s) <= Cardinality(Q))
        BY <1>3, <1>4
    <2> QED BY <1>1, <2>1
<1>6. Total(f, s) = f[p] + Total(f, R)
    BY <1>2, <1>3, TotalOfPick
<1>7. p # y
    BY <1>2, <1>6
<1>8. y \in R /\ p \in Q /\ R \ {y} = Q \ {p}
    BY <1>2, <1>3, <1>7
<1>9. /\ Total(f, R) = f[y] + Total(f, R \ {y})
      /\ Total(f, Q) = f[p] + Total(f, Q \ {p})
    BY <1>3, <1>4, <1>5, <1>8
<1>10. /\ IsFiniteSet(R \ {y}) /\ \A a \in R \ {y} : f[a] \in Nat
       /\ f[y] \in Nat /\ f[p] \in Nat
    BY <1>2, <1>3, <1>4, FS_RemoveElement
<1>11. Total(f, R \ {y}) \in Nat
    BY <1>10, TotalNat
<1> QED BY <1>2, <1>6, <1>8, <1>9, <1>10, <1>11

\* Elements that count for nothing may be left out of a sum.
LEMMA TotalOfOthers ==
    ASSUME NEW S, IsFiniteSet(S), NEW f, \A a \in S : f[a] \in Nat,
           NEW T \in SUBSET S, \A a \in S \ T : f[a] = 0
    PROVE  Total(f, S) = Total(f, T)
<1> DEFINE Bad == {s \in SUBSET S : T \subseteq s /\ Total(f, s) # Total(f, T)}
<1> SUFFICES ASSUME Bad # {} PROVE FALSE
    OBVIOUS
<1>1. PICK s \in Bad : \A t \in Bad : Cardinality(s) <= Cardinality(t)
    <2>1. Bad \subseteq SUBSET S
        OBVIOUS
    <2> HIDE DEF Bad
    <2> QED BY <2>1, SmallestSubset
<1>2. PICK x \in s : x \notin T
    OBVIOUS
<1> DEFINE R == s \ {x}
<1>3. /\ IsFiniteSet(s) /\ Cardinality(s) \in Nat
      /\ IsFiniteSet(R) /\ Cardinality(R) = Cardinality(s) - 1
      /\ R \in SUBSET S /\ T \subseteq R
    BY <1>1, <1>2, FS_Subset, FS_CardinalityType, FS_RemoveElement
<1>4. /\ \A a \in s : f[a] \in Nat
      /\ \A a \in R : f[a] \in Nat
      /\ f[x] = 0
    BY <1>1, <1>2
<1>5. Total(f, s) = f[x] + Total(f, R) /\ Total(f, R) \in Nat
    BY <1>2, <1>3, <1>4, TotalWithout, TotalNat
<1>6. R \notin Bad
    <2>1. ~(Cardinality(s) <= Cardinality(R))
        BY <1>3
    <2> QED BY <1>1, <2>1
<1>7. Total(f, R) = Total(f, T) /\ Total(f, s) # Total(f, T)
    BY <1>1, <1>3, <1>6
<1> QED BY <1>4, <1>5, <1>7

\* What a change of one value does to a sum.
LEMMA TotalUpdate ==
    ASSUME NEW D, IsFiniteSet(D), NEW f \in [D -> Nat], NEW x \in D,
           NEW g \in [D -> Nat], \A y \in D \ {x} : g[y] = f[y],
           NEW S \in SUBSET D
    PROVE  /\ Total(f, S) \in Nat /\ Total(g, S) \in Nat
           /\ Total(g, S) = IF x \in S THEN Total(f, S) - f[x] + g[x]
                            ELSE Total(f, S)
<1>1. IsFiniteSet(S) /\ IsFiniteSet(S \ {x})
    BY FS_Subset
<1>2. /\ \A y \in S : f[y] \in Nat /\ g[y] \in Nat
      /\ \A y \in S \ {x} : f[y] = g[y] /\ f[y] \in Nat
      /\ f[x] \in Nat /\ g[x] \in Nat
    OBVIOUS
<1>3. Total(f, S) \in Nat /\ Total(g, S) \in Nat /\ Total(f, S \ {x}) \in Nat
    BY <1>1, <1>2, TotalNat
<1>4. Total(f, S \ {x}) = Total(g, S \ {x})
    BY <1>1, <1>2, TotalSame
<1>5. CASE x \in S
    <2>1. /\ Total(f, S) = f[x] + Total(f, S \ {x})
          /\ Total(g, S) = g[x] + Total(g, S \ {x})
        BY <1>1, <1>2, <1>5, TotalWithout
    <2> QED BY <1>2, <1>3, <1>4, <1>5, <2>1
<1>6. CASE x \notin S
    <2>1. S \ {x} = S
        BY <1>6
    <2> QED BY <1>3, <1>4, <1>6, <2>1
<1> QED BY <1>5, <1>6

------------------------------------------------------------------------------
(* Nobody pays what he does not have, and nothing is lost on the way *)

LedgersNat ==
    /\ underlyingBalance \in [Holders -> Nat]
    /\ voltBalance \in [Holders -> Nat]

\* Holders are finitely many.
LEMMA HoldersFinite == IsFiniteSet(Holders)
<1>1. IsFiniteSet({PSM} \cup {Venue}) /\ {PSM, Venue} = {PSM} \cup {Venue}
    BY FS_Singleton, FS_Union
<1> QED BY <1>1, FS_Union, PegStabilityModuleAssumption DEF Holders

\* Who is no trader: the contract, the deposits and their market.
Backers == Holders \ Accounts

\* What backs VOLT.
Pool == Total(underlyingBalance, Backers)

\* Who pays no more than he has, be it to himself, keeps a natural number.  What
\* some holders have together changes by what comes in and what goes out.
LEMMA TransferMoves ==
    ASSUME NEW balance, balance \in [Holders -> Nat], NEW from_ \in Holders,
           NEW to \in Holders, NEW a \in Nat, a <= balance[from_],
           NEW S \in SUBSET Holders
    PROVE  /\ Transfer(balance, from_, to, a) \in [Holders -> Nat]
           /\ Total(balance, S) \in Nat
           /\ Total(Transfer(balance, from_, to, a), S)
                 = Total(balance, S) - (IF from_ \in S THEN a ELSE 0)
                                     + (IF to \in S THEN a ELSE 0)
<1> DEFINE taken == [balance EXCEPT ![from_] = @ - a]
           given == [taken EXCEPT ![to] = @ + a]
<1>1. /\ taken \in [Holders -> Nat]
      /\ taken[from_] = balance[from_] - a /\ balance[from_] \in Nat
      /\ \A y \in Holders \ {from_} : taken[y] = balance[y]
    BY DEF taken
<1>2. Transfer(balance, from_, to, a) = given
    BY DEF Transfer
<1> HIDE DEF taken
<1>3. /\ given \in [Holders -> Nat]
      /\ given[to] = taken[to] + a /\ taken[to] \in Nat
      /\ \A y \in Holders \ {to} : given[y] = taken[y]
    BY <1>1
<1> HIDE DEF given
<1>4. /\ Total(balance, S) \in Nat /\ Total(taken, S) \in Nat
      /\ Total(taken, S) = IF from_ \in S
                           THEN Total(balance, S) - balance[from_] + taken[from_]
                           ELSE Total(balance, S)
    BY <1>1, HoldersFinite, TotalUpdate
<1>5. Total(given, S) = IF to \in S THEN Total(taken, S) - taken[to] + given[to]
                        ELSE Total(taken, S)
    BY <1>1, <1>3, HoldersFinite, TotalUpdate
<1> QED BY <1>1, <1>2, <1>3, <1>4, <1>5

\* So a transfer keeps what all hold together; between traders and the contract
\* it moves what the backers have as it moves what the contract has, and among
\* backers it keeps what they have.
LEMMA TransferKeeps ==
    ASSUME NEW balance, balance \in [Holders -> Nat], NEW from_ \in Holders,
           NEW to \in Holders, NEW a \in Nat, a <= balance[from_]
    PROVE  /\ Transfer(balance, from_, to, a) \in [Holders -> Nat]
           /\ Total(Transfer(balance, from_, to, a), Holders) = Total(balance, Holders)
           /\ from_ \in Accounts \cup {PSM} /\ to \in Accounts \cup {PSM}
                => Total(Transfer(balance, from_, to, a), Backers)
                         - Total(balance, Backers)
                      = Transfer(balance, from_, to, a)[PSM] - balance[PSM]
           /\ from_ \in Backers /\ to \in Backers
                => Total(Transfer(balance, from_, to, a), Backers)
                      = Total(balance, Backers)
<1> DEFINE after == Transfer(balance, from_, to, a)
<1>1. /\ PSM \in Holders /\ PSM \in Backers /\ Backers \in SUBSET Holders
      /\ \A h \in Accounts : h \notin Backers /\ h # PSM
    BY HolderFacts DEF Backers
<1>2. after \in [Holders -> Nat] /\ Total(after, Holders) = Total(balance, Holders)
    <2>1. Holders \in SUBSET Holders
        OBVIOUS
    <2>2. /\ after \in [Holders -> Nat] /\ Total(balance, Holders) \in Nat
          /\ Total(after, Holders) = Total(balance, Holders)
                - (IF from_ \in Holders THEN a ELSE 0)
                + (IF to \in Holders THEN a ELSE 0)
        BY <2>1, TransferMoves
    <2> QED BY <2>2
<1>3. /\ Total(balance, Backers) \in Nat
      /\ Total(after, Backers) = Total(balance, Backers)
            - (IF from_ \in Backers THEN a ELSE 0) + (IF to \in Backers THEN a ELSE 0)
    BY <1>1, TransferMoves
<1>4. balance \in [Holders -> Int] /\ a \in Int /\ balance[PSM] \in Nat
    BY <1>1
<1>5. ASSUME from_ \in Accounts \cup {PSM}, to \in Accounts \cup {PSM}
      PROVE  Total(after, Backers) - Total(balance, Backers) = after[PSM] - balance[PSM]
    <2>1. CASE from_ \in Accounts /\ to \in Accounts
        <3>1. after[PSM] = balance[PSM]
            BY <1>1, <1>4, <2>1, TransferEffect
        <3> HIDE DEF after
        <3> QED BY <1>1, <1>3, <1>4, <2>1, <3>1
    <2>2. CASE from_ \in Accounts /\ to = PSM
        <3>1. after[PSM] = balance[PSM] + a
            BY <1>1, <1>4, <2>2, TransferEffect
        <3> HIDE DEF after
        <3> QED BY <1>1, <1>3, <1>4, <2>2, <3>1
    <2>3. CASE from_ = PSM /\ to \in Accounts
        <3>1. after[PSM] = balance[PSM] - a
            BY <1>1, <1>4, <2>3, TransferEffect
        <3> HIDE DEF after
        <3> QED BY <1>1, <1>3, <1>4, <2>3, <3>1
    <2>4. CASE from_ = PSM /\ to = PSM
        <3>1. after[PSM] = balance[PSM]
            BY <1>1, <1>4, <2>4, TransferEffect
        <3> HIDE DEF after
        <3> QED BY <1>1, <1>3, <1>4, <2>4, <3>1
    <2> QED BY <1>5, <2>1, <2>2, <2>3, <2>4
<1> HIDE DEF after
<1>6. from_ \in Backers /\ to \in Backers
        => Total(after, Backers) = Total(balance, Backers)
    BY <1>3
<1> QED BY <1>2, <1>5, <1>6 DEF after

\* No deposit trades.
Apart == Accounts \cap Targets = {}

\* A deposit that supplies all it holds has it.
LEMMA SuppliedKeeps ==
    ASSUME NEW balance, balance \in [Holders -> Nat], NEW t \in Targets
    PROVE  /\ Supplied(balance, t) \in [Holders -> Nat]
           /\ Total(Supplied(balance, t), Holders) = Total(balance, Holders)
           /\ Apart => Total(Supplied(balance, t), Backers) = Total(balance, Backers)
<1>1. /\ t \in Holders /\ Venue \in Holders /\ balance[t] \in Nat
      /\ Apart => t \in Backers /\ Venue \in Backers
    BY HolderFacts, PegStabilityModuleAssumption DEF Backers, Apart
<1> QED BY <1>1, TransferKeeps DEF Supplied

\* Underlying tokens only change hands, and VOLT that does not is minted or burned.
LedgersKept ==
    /\ LedgersNat'
    /\ Total(underlyingBalance', Holders) = Total(underlyingBalance, Holders)
    /\ Total(voltBalance', Holders) - voltSupply' = Total(voltBalance, Holders) - voltSupply

\* What the backers have changes with what the contract has, or the contract passes
\* something on to other backers.
PoolKept ==
    \/ Pool' - Pool = underlyingBalance'[PSM] - underlyingBalance[PSM]
    \/ Pool' = Pool /\ Circulating' = Circulating

\* Every call that pays is guarded by what the payer has: mint() by taking from
\* stock no more than there is, the allocation of a surplus by the threshold.
LEMMA LedgersStep ==
    ASSUME PSMInv, RLP!TypeOK, LedgersNat, [Next]_vars
    PROVE  /\ LedgersKept
           /\ Apart /\ ~PCVWithdrawal => PoolKept /\ (TokenStep => Pool' >= Pool)
<1>0. /\ PSM \in Holders /\ Venue \in Holders /\ Accounts \subseteq Holders
      /\ Targets \subseteq Holders /\ Amounts \subseteq Nat
      /\ underlyingBalance \in [Holders -> Nat] /\ voltBalance \in [Holders -> Nat]
      /\ underlyingBalance[PSM] \in Nat /\ voltBalance[PSM] \in Nat
    BY HolderFacts, PegStabilityModuleAssumption DEF LedgersNat
<1>1. Pool \in Nat /\ (UNCHANGED underlyingBalance => PoolKept /\ Pool' >= Pool)
    <2>1. Pool \in Nat
        BY <1>0, HoldersFinite, FS_Subset, TotalNat DEF Pool, Backers
    <2>2. UNCHANGED underlyingBalance => Pool' = Pool
        BY DEF Pool
    <2> QED BY <1>0, <2>1, <2>2 DEF PoolKept
<1>2. ASSUME NEW c \in Accounts, NEW to \in Accounts \cup {PSM}, NEW a \in Amounts,
             NEW m \in MinAmounts, mint(c, to, a, m)
      PROVE  LedgersKept /\ PoolKept
    <2> DEFINE out    == MintAmountOut(a)
               sold   == MathMin(voltBalance[PSM], out)
               minted == out - sold
               moved  == Transfer(voltBalance, PSM, to, sold)
    <2>1. c \in Holders /\ to \in Holders /\ a \in Nat /\ Quotable
          /\ a <= underlyingBalance[c]
        BY <1>0, <1>2 DEF mint
    <2>2. out \in Nat
        BY <2>1, MintQuote
    <2>3. sold \in Nat /\ sold <= voltBalance[PSM] /\ minted \in Nat
        <3> HIDE DEF out
        <3> QED BY <1>0, <2>2 DEF MathMin
    <2>4. /\ underlyingBalance' = Transfer(underlyingBalance, c, PSM, a)
          /\ voltBalance' = [moved EXCEPT ![to] = @ + minted]
          /\ voltSupply' = voltSupply + minted
        BY <1>2 DEF mint
    <2> HIDE DEF minted, sold
    <2>5. moved \in [Holders -> Nat] /\ Total(moved, Holders) = Total(voltBalance, Holders)
        BY <1>0, <2>1, <2>3, TransferKeeps
    <2>6. /\ underlyingBalance' \in [Holders -> Nat]
          /\ Total(underlyingBalance', Holders) = Total(underlyingBalance, Holders)
          /\ PoolKept
        BY <1>0, <2>1, <2>4, TransferKeeps DEF PoolKept, Pool
    <2> HIDE DEF moved
    <2>7. /\ voltBalance' \in [Holders -> Nat]
          /\ moved[to] \in Nat /\ voltBalance'[to] = moved[to] + minted
          /\ \A y \in Holders \ {to} : voltBalance'[y] = moved[y]
        BY <2>1, <2>3, <2>4, <2>5
    <2>8. /\ Total(moved, Holders) \in Nat
          /\ Total(voltBalance', Holders)
                = Total(moved, Holders) - moved[to] + voltBalance'[to]
        BY <2>1, <2>5, <2>7, HoldersFinite, TotalUpdate
    <2>9. voltSupply \in Int
        BY DEF PSMInv, LedgerInv
    <2>10. Total(voltBalance', Holders) - voltSupply'
              = Total(voltBalance, Holders) - voltSupply
        BY <2>3, <2>4, <2>5, <2>7, <2>8, <2>9
    <2> QED BY <2>6, <2>7, <2>10 DEF LedgersNat, LedgersKept
<1>3. ASSUME NEW c \in Accounts, NEW to \in Accounts \cup {PSM}, NEW a \in Amounts,
             NEW m \in MinAmounts, redeem(c, to, a, m)
      PROVE  LedgersKept /\ PoolKept
    <2>1. c \in Holders /\ to \in Holders /\ a \in Nat /\ Quotable
          /\ OR!readOracle # 0 /\ a <= voltBalance[c]
        BY <1>0, <1>3 DEF redeem
    <2>2. RedeemAmountOut(a) \in Nat
        BY <2>1, RedeemQuote
    <2>3. /\ RedeemAmountOut(a) <= underlyingBalance[PSM]
          /\ voltBalance' = Transfer(voltBalance, c, PSM, a)
          /\ underlyingBalance' =
                Transfer(underlyingBalance, PSM, to, RedeemAmountOut(a))
          /\ voltSupply' = voltSupply
        BY <1>0, <1>3, <2>2 DEF redeem
    <2> QED BY <1>0, <2>1, <2>2, <2>3, TransferKeeps
            DEF LedgersNat, LedgersKept, PoolKept, Pool
<1>4. CASE PCVWithdrawal
    <2>1. ASSUME NEW c \in Accounts, NEW to \in Accounts, NEW a \in Amounts,
                 withdraw(c, to, a)
          PROVE  LedgersKept
        <3>1. to \in Holders /\ a \in Nat /\ a <= underlyingBalance[PSM]
              /\ underlyingBalance' = Transfer(underlyingBalance, PSM, to, a)
              /\ voltBalance' = voltBalance /\ voltSupply' = voltSupply
            BY <1>0, <2>1 DEF withdraw
        <3>2. /\ underlyingBalance' \in [Holders -> Nat]
              /\ Total(underlyingBalance', Holders) = Total(underlyingBalance, Holders)
            BY <1>0, <3>1, TransferKeeps
        <3> QED BY <1>0, <3>1, <3>2 DEF LedgersNat, LedgersKept
    <2>2. ASSUME NEW c \in Accounts, NEW to \in Accounts, NEW a \in Amounts,
                 withdrawVolt(c, to, a)
          PROVE  LedgersKept
        <3>1. to \in Holders /\ a \in Nat /\ a <= voltBalance[PSM]
              /\ voltBalance' = Transfer(voltBalance, PSM, to, a)
              /\ underlyingBalance' = underlyingBalance /\ voltSupply' = voltSupply
            BY <1>0, <2>2 DEF withdrawVolt
        <3>2. /\ voltBalance' \in [Holders -> Nat]
              /\ Total(voltBalance', Holders) = Total(voltBalance, Holders)
            <4>1. voltBalance \in [Holders -> Nat] /\ PSM \in Holders
                BY <1>0
            <4> QED BY <3>1, <4>1, TransferKeeps
        <3> QED BY <1>0, <3>1, <3>2 DEF LedgersNat, LedgersKept
    <2> QED BY <1>4, <2>1, <2>2 DEF PCVWithdrawal
<1>5. CASE Reserves
    <2> DEFINE target == config.surplusTarget
               sent == Transfer(underlyingBalance, PSM, target, ReservesSurplus)
    <2>1. voltBalance' = voltBalance /\ voltSupply' = voltSupply
        BY <1>5 DEF Reserves, allocateSurplus, deposit
    <2>2. \/ UNCHANGED underlyingBalance
          \/ ReservesSurplus > 0 /\ allocate(ReservesSurplus)
        BY <1>5 DEF Reserves, allocateSurplus, deposit
    <2>3. ASSUME ReservesSurplus > 0, allocate(ReservesSurplus)
          PROVE  /\ underlyingBalance' \in [Holders -> Nat]
                 /\ Total(underlyingBalance', Holders) = Total(underlyingBalance, Holders)
                 /\ Apart => Pool' = Pool
        <3>1. target \in Targets /\ config.reservesThreshold \in Nat
            BY DEF PSMInv, ConfigInv
        <3>2. ReservesSurplus \in Nat /\ ReservesSurplus <= underlyingBalance[PSM]
            BY <1>0, <2>3, <3>1 DEF ReservesSurplus
        <3>3. underlyingBalance' = sent \/ underlyingBalance' = Supplied(sent, target)
            BY <2>3 DEF allocate
        <3> HIDE DEF target
        <3>4. /\ sent \in [Holders -> Nat]
              /\ Total(sent, Holders) = Total(underlyingBalance, Holders)
              /\ Apart => Total(sent, Backers) = Total(underlyingBalance, Backers)
            <4>1. /\ target \in Holders
                  /\ Apart => PSM \in Backers /\ target \in Backers
                BY <1>0, <3>1, HolderFacts DEF Backers, Apart
            <4> QED BY <1>0, <3>2, <4>1, TransferKeeps
        <3> HIDE DEF sent
        <3> QED BY <3>1, <3>3, <3>4, SuppliedKeeps DEF Pool
    <2>4. Circulating' = Circulating /\ (UNCHANGED underlyingBalance => Pool' = Pool)
        BY <2>1 DEF Circulating, Pool
    <2>5. LedgersKept /\ (Apart => PoolKept)
        BY <1>0, <2>1, <2>2, <2>3, <2>4 DEF LedgersNat, LedgersKept, PoolKept
    <2>6. Apart => Pool' >= Pool
        BY <1>1, <2>2, <2>3, <2>4
    <2> QED BY <2>5, <2>6
<1>6. ASSUME NEW c \in Accounts, NEW a \in Amounts, Donate(c, a)
      PROVE  LedgersKept /\ PoolKept /\ Pool' >= Pool
    <2>1. c \in Holders /\ a \in Nat
        BY <1>0
    <2>2. /\ \/ /\ a <= underlyingBalance[c]
                /\ underlyingBalance' = Transfer(underlyingBalance, c, PSM, a)
                /\ voltBalance' = voltBalance
             \/ /\ a <= voltBalance[c]
                /\ voltBalance' = Transfer(voltBalance, c, PSM, a)
                /\ underlyingBalance' = underlyingBalance
          /\ voltSupply' = voltSupply
        BY <1>0, <1>6, <2>1 DEF Donate
    <2>3. UNCHANGED underlyingBalance => PoolKept /\ Pool' >= Pool
        BY <1>1
    <2>4. LedgersKept /\ PoolKept
        BY <1>0, <2>1, <2>2, <2>3, TransferKeeps
        DEF LedgersNat, LedgersKept, PoolKept, Pool
    <2>5. ASSUME a <= underlyingBalance[c]
          PROVE  Total(Transfer(underlyingBalance, c, PSM, a), Backers) = Pool + a
        <3>1. c \notin Backers /\ PSM \in Backers /\ Backers \in SUBSET Holders
            BY HolderFacts DEF Backers
        <3> QED BY <1>0, <1>1, <2>1, <2>5, <3>1, TransferMoves DEF Pool
    <2>6. Pool' >= Pool
        BY <1>1, <2>1, <2>2, <2>3, <2>5 DEF Pool
    <2> QED BY <2>4, <2>6
<1>7. ASSUME NEW c \in Accounts, NEW a \in Amounts, burn(c, a)
      PROVE  LedgersKept /\ PoolKept /\ Pool' >= Pool
    <2>1. /\ c \in Holders /\ a \in Nat /\ voltSupply \in Int
          /\ voltBalance[c] \in Nat /\ a <= voltBalance[c]
          /\ voltSupply' = voltSupply - a
          /\ underlyingBalance' = underlyingBalance
        BY <1>0, <1>7 DEF burn, PSMInv, LedgerInv
    <2>2. /\ voltBalance' \in [Holders -> Nat]
          /\ voltBalance'[c] = voltBalance[c] - a
          /\ \A y \in Holders \ {c} : voltBalance'[y] = voltBalance[y]
        BY <1>0, <1>7, <2>1 DEF burn
    <2>3. /\ Total(voltBalance, Holders) \in Nat
          /\ Total(voltBalance', Holders)
                = Total(voltBalance, Holders) - voltBalance[c] + voltBalance'[c]
        BY <1>0, <2>1, <2>2, HoldersFinite, TotalUpdate
    <2>4. Total(voltBalance', Holders) - voltSupply'
             = Total(voltBalance, Holders) - voltSupply
        BY <2>1, <2>2, <2>3
    <2> QED BY <1>0, <1>1, <2>1, <2>2, <2>4 DEF LedgersNat, LedgersKept
<1>8. ASSUME NEW t \in Targets, TargetDeposit(t)
      PROVE  LedgersKept /\ (Apart => PoolKept /\ Pool' >= Pool)
    <2>1. LedgersKept /\ (Apart => PoolKept /\ Pool' = Pool)
        BY <1>0, <1>8, SuppliedKeeps
        DEF TargetDeposit, LedgersNat, LedgersKept, PoolKept, Pool, Circulating
    <2> QED BY <1>1, <2>1
<1>9. CASE UNCHANGED tokenVars
    BY <1>0, <1>9, <1>1 DEF tokenVars, LedgersNat, LedgersKept
<1>10. TokenStep
        => LedgersKept /\ (Apart /\ ~PCVWithdrawal => PoolKept /\ Pool' >= Pool)
    BY <1>4, <1>5, <1>6, <1>7, <1>8 DEF TokenStep
<1>11. ~TokenStep => LedgersKept /\ (Apart /\ ~PCVWithdrawal => PoolKept)
    BY <1>2, <1>3, <1>9, StepKinds
<1> QED BY <1>10, <1>11

\* In every reachable state every party's balance of either token is a natural
\* number, the contract's own included: no sequence of trades, withdrawals,
\* allocations and burns pays out what is not there.
THEOREM BalancesNeverNegative ==
    Spec => [](/\ underlyingBalance \in [Holders -> Nat]
               /\ voltBalance \in [Holders -> Nat])
<1>1. Init => LedgersNat
    BY PegStabilityModuleAssumption DEF Init, LedgersNat, Holders
<1>2. PSMInv /\ RLP!TypeOK /\ LedgersNat /\ [Next]_vars => LedgersNat'
    BY LedgersStep DEF LedgersKept
<1>3. LedgersNat <=> /\ underlyingBalance \in [Holders -> Nat]
                     /\ voltBalance \in [Holders -> Nat]
    BY DEF LedgersNat
<1> QED BY <1>1, <1>2, <1>3, TypeCorrect, PTL DEF Spec

Conserved ==
    /\ MapThenSumSet(LAMBDA h : voltBalance[h], Holders) = voltSupply
    /\ MapThenSumSet(LAMBDA h : underlyingBalance[h], Holders)
          = MapThenSumSet(LAMBDA a : InitialUnderlying[a], Accounts)

\* All the VOLT there is belongs to somebody: the supply is the sum of the
\* balances, also after trades whose proceeds go to the contract itself.  And the
\* contract neither creates nor loses underlying tokens: traders, contract,
\* deposits and market together always hold what there was at deployment.
THEOREM TokensAreConserved == Spec => []Conserved
<1> DEFINE Sums == /\ Total(voltBalance, Holders) = voltSupply
                   /\ Total(underlyingBalance, Holders)
                         = Total(InitialUnderlying, Accounts)
<1>1. Sums <=> Conserved
    BY DEF Conserved, Total
<1>2. Init => LedgersNat /\ Sums
    <2> SUFFICES ASSUME Init PROVE LedgersNat /\ Sums
        OBVIOUS
    <2>1. /\ underlyingBalance \in [Holders -> Nat] /\ voltBalance \in [Holders -> Nat]
          /\ \A h \in Holders \ Accounts : underlyingBalance[h] = 0 /\ voltBalance[h] = 0
          /\ \A h \in Accounts : /\ underlyingBalance[h] = InitialUnderlying[h]
                                 /\ voltBalance[h] = InitialVolt[h]
          /\ Accounts \subseteq Holders
        BY HolderFacts, PegStabilityModuleAssumption DEF Init
    <2>2. /\ Total(underlyingBalance, Holders) = Total(underlyingBalance, Accounts)
          /\ Total(voltBalance, Holders) = Total(voltBalance, Accounts)
        BY <2>1, HoldersFinite, TotalOfOthers
    <2>3. /\ Total(underlyingBalance, Accounts) = Total(InitialUnderlying, Accounts)
          /\ Total(voltBalance, Accounts) = Total(InitialVolt, Accounts)
        BY <2>1, PegStabilityModuleAssumption, TotalSame
    <2>4. Total(InitialVolt, Accounts) = voltSupply
        BY PegStabilityModuleAssumption DEF Init, Total
    <2> QED BY <2>1, <2>2, <2>3, <2>4 DEF LedgersNat
<1>3. PSMInv /\ RLP!TypeOK /\ LedgersNat /\ Sums /\ [Next]_vars => LedgersNat' /\ Sums'
    <2> SUFFICES ASSUME PSMInv, RLP!TypeOK, LedgersNat, Sums, [Next]_vars
                 PROVE  LedgersNat' /\ Sums'
        OBVIOUS
    <2>1. LedgersKept
        BY LedgersStep
    <2>2. voltSupply \in Int /\ voltSupply' \in Int
        BY StepEffect DEF PSMInv, LedgerInv
    <2>3. Total(voltBalance', Holders) \in Nat
        BY <2>1, HoldersFinite, TotalNat DEF LedgersKept, LedgersNat
    <2> QED BY <2>1, <2>2, <2>3 DEF LedgersKept
<1> HIDE DEF Sums
<1> QED BY <1>1, <1>2, <1>3, TypeCorrect, PTL DEF Spec

\* What the protocol owns, the VOLT in circulation taken off, both at the price
\* the oracle is read at: one unit of underlying is worth readOracle / BASE VOLT.
Equity == OR!readOracle * Pool - BASE * Circulating

\* A number bought or paid out at a price, less a fee, is covered by the price.
LEMMA CoveredByPrice ==
    ASSUME NEW x \in Nat, NEW y \in Nat, NEW fee \in Nat, NEW bp \in Nat \ {0},
           fee <= bp, x * bp <= y * (bp - fee)
    PROVE  x <= y
<1>1. bp - fee \in Nat /\ bp - fee <= bp
    OBVIOUS
<1>2. y * (bp - fee) <= y * bp
    <2>1. ASSUME NEW n \in Nat, n <= bp PROVE y * n <= y * bp
        BY <2>1
    <2> QED BY <1>1, <2>1
<1>3. x * bp <= y * bp
    <2>1. x * bp \in Nat /\ y * bp \in Nat /\ y * (bp - fee) \in Nat
        BY <1>1
    <2> QED BY <1>2, <2>1
<1> QED BY <1>3

\* What a difference says of its parts.
LEMMA Difference ==
    ASSUME NEW x \in Int, NEW y \in Int
    PROVE  /\ y - x \in Int
           /\ y = x => y - x = 0
           /\ y < x => y - x < 0
           /\ y >= x => y - x >= 0
OBVIOUS

\* The protocol never loses by trading: as long as the price stays and no PCV
\* controller takes anything out, what backs VOLT less what circulates never
\* falls in worth, in whatever order people trade at whatever fees, donate and
\* burn, and wherever surpluses are allocated in between.
THEOREM TradesNeverCost ==
    ASSUME Apart
    PROVE  Spec => [][OR!OracleReadable /\ OR!readOracle' = OR!readOracle
                         /\ ~PCVWithdrawal
                       => Equity' >= Equity]_vars
<1>1. ASSUME PSMInv, RLP!TypeOK, LedgersNat, [Next]_vars, OR!OracleReadable,
             OR!readOracle' = OR!readOracle, ~PCVWithdrawal
      PROVE  Equity' >= Equity
    <2> DEFINE p == OR!readOracle
               in == Pool' - Pool
               out == Circulating' - Circulating
    <2>0. /\ underlyingBalance[PSM] \in Int /\ voltBalance[PSM] \in Int
          /\ voltSupply \in Int /\ Amounts \subseteq Nat /\ p \in Nat
          /\ BASE \in Nat \ {0} /\ BASIS_POINTS_GRANULARITY \in Nat \ {0}
        BY <1>1, HolderFacts, PriceNat, PegStabilityModuleAssumption
        DEF PSMInv, LedgerInv
    <2>1. Pool \in Int /\ Pool' \in Int /\ Circulating \in Int /\ Circulating' \in Int
        <3>1. IsFiniteSet(Backers) /\ Backers \subseteq Holders
            BY HoldersFinite, FS_Subset DEF Backers
        <3>2. /\ LedgersNat /\ LedgersNat'
              /\ voltSupply \in Int /\ voltSupply' \in Int
            BY <1>1, LedgersStep, StepEffect DEF LedgersKept, PSMInv, LedgerInv
        <3>3. Pool \in Nat /\ Pool' \in Nat
            BY <3>1, <3>2, TotalNat DEF Pool, LedgersNat
        <3> QED BY <3>2, <3>3, HolderFacts DEF LedgersNat, Circulating
    <2>2. p * in >= BASE * out
        <3>0. PoolKept
            BY <1>1, LedgersStep
        <3>1. ASSUME NEW c \in Accounts, NEW to \in Accounts \cup {PSM},
                     NEW a \in Amounts, NEW m \in MinAmounts, mint(c, to, a, m)
              PROVE  p * in >= BASE * out
            <4>1. a \in Nat /\ Quotable
                BY <2>0, <3>1 DEF mint
            <4>2. PICK sold \in Int, minted \in Nat :
                     /\ sold + minted = MintAmountOut(a)
                     /\ voltSupply' = voltSupply + minted
                     /\ voltBalance'[PSM] = IF to = PSM THEN voltBalance[PSM] + minted
                                            ELSE voltBalance[PSM] - sold
                BY <1>1, <3>1, MintEffect
            <4>3. underlyingBalance'[PSM] - underlyingBalance[PSM] = a
                BY <1>1, <2>0, <3>1, <4>1, MintEffect
            <4>4. out = IF to = PSM THEN 0 ELSE MintAmountOut(a)
                BY <2>0, <4>2 DEF Circulating
            <4>5. /\ MintAmountOut(a) \in Nat
                  /\ MintAmountOut(a) * BASE * BASIS_POINTS_GRANULARITY
                        <= p * a
                              * (BASIS_POINTS_GRANULARITY - config.mintFeeBasisPoints)
                  /\ a = 0 => MintAmountOut(a) = 0
                BY <1>1, <4>1, MintQuote
            <4>6. out \in Nat /\ BASE * out <= p * a
                <5>1. CASE to = PSM
                    BY <2>0, <4>1, <4>4, <5>1
                <5>2. CASE to # PSM
                    <6> DEFINE bought == MintAmountOut(a)
                               bp == BASIS_POINTS_GRANULARITY
                               fee == config.mintFeeBasisPoints
                    <6>1. bp \in Nat \ {0} /\ fee \in Nat /\ fee <= bp
                        BY <1>1, PegStabilityModuleAssumption DEF PSMInv, ConfigInv
                    <6>2. bought * BASE * bp <= p * a * (bp - fee) /\ bought \in Nat
                        BY <4>5
                    <6>3. out = bought
                        BY <4>4, <5>2
                    <6> HIDE DEF bought, bp, fee, p, out
                    <6>4. bought * BASE \in Nat /\ p * a \in Nat
                        BY <2>0, <4>1, <6>2
                    <6>5. bought * BASE <= p * a
                        BY <6>1, <6>2, <6>4, CoveredByPrice
                    <6> QED BY <2>0, <6>2, <6>3, <6>5
                <5> QED BY <5>1, <5>2
            <4>7. in = a \/ (in = 0 /\ out = 0)
                <5>1. Pool' - Pool = a \/ (Pool' = Pool /\ Circulating' = Circulating)
                    BY <3>0, <4>3 DEF PoolKept
                <5>2. /\ Pool' = Pool => Pool' - Pool = 0
                      /\ Circulating' = Circulating => Circulating' - Circulating = 0
                    BY <2>1, Difference
                <5> QED BY <5>1, <5>2
            <4> HIDE DEF in, out, p
            <4> QED BY <2>0, <4>1, <4>6, <4>7
        <3>2. ASSUME NEW c \in Accounts, NEW to \in Accounts \cup {PSM},
                     NEW v \in Amounts, NEW m \in MinAmounts, redeem(c, to, v, m)
              PROVE  p * in >= BASE * out
            <4> DEFINE paid == RedeemAmountOut(v)
                       bp == BASIS_POINTS_GRANULARITY
                       fee == config.redeemFeeBasisPoints
            <4>1. v \in Nat /\ Quotable /\ p # 0
                BY <2>0, <3>2 DEF redeem
            <4>2. /\ voltBalance'[PSM] = voltBalance[PSM] + v
                  /\ voltSupply' = voltSupply
                  /\ underlyingBalance'[PSM] = IF to = PSM THEN underlyingBalance[PSM]
                        ELSE underlyingBalance[PSM] - paid
                BY <1>1, <3>2, RedeemEffect
            <4>3. /\ paid \in Nat
                  /\ paid * p * bp <= v * BASE * (bp - fee)
                BY <1>1, <4>1, RedeemQuote
            <4>4. bp \in Nat \ {0} /\ fee \in Nat /\ fee <= bp
                BY <1>1, PegStabilityModuleAssumption DEF PSMInv, ConfigInv
            <4> HIDE DEF paid, bp, fee
            <4>5. out = -v
                BY <2>0, <4>1, <4>2 DEF Circulating
            <4>6. underlyingBalance'[PSM] - underlyingBalance[PSM] \in {0, -paid}
                BY <2>0, <4>2, <4>3
            <4>7. in \in {0, -paid}
                <5>1. \/ Pool' - Pool = underlyingBalance'[PSM] - underlyingBalance[PSM]
                      \/ Pool' = Pool
                    BY <3>0 DEF PoolKept
                <5>2. Pool' = Pool => Pool' - Pool = 0
                    BY <2>1, Difference
                <5> QED BY <4>6, <5>1, <5>2
            <4> HIDE DEF p, in, out
            <4>8. paid * p <= v * BASE
                <5>1. paid * p \in Nat /\ v * BASE \in Nat
                    BY <2>0, <4>1, <4>3
                <5> QED BY <4>3, <4>4, <5>1, CoveredByPrice
            <4>9. p * paid <= BASE * v
                BY <2>0, <4>1, <4>3, <4>8
            <4>10. in = 0 => p * in >= BASE * out
                BY <2>0, <4>1, <4>5
            <4>11. in = -paid => p * in >= BASE * out
                BY <2>0, <4>1, <4>3, <4>5, <4>9
            <4> QED BY <4>7, <4>10, <4>11
        <3>3. CASE TokenStep
            <4>1. out <= 0 /\ out \in Int
                <5>1. Circulating' # Circulating => Circulating' < Circulating
                    BY <1>1, <3>3, TokenStepEffect
                <5>2. /\ Circulating' - Circulating \in Int
                      /\ Circulating' = Circulating => Circulating' - Circulating = 0
                      /\ Circulating' < Circulating => Circulating' - Circulating < 0
                    BY <2>1, Difference
                <5> HIDE DEF out
                <5>3. out \in Int /\ (out = 0 \/ out < 0)
                    BY <5>1, <5>2 DEF out
                <5> QED BY <5>3
            <4>2. in >= 0 /\ in \in Int
                <5>1. Pool' >= Pool
                    BY <1>1, <3>3, LedgersStep
                <5> QED BY <2>1, <5>1, Difference
            <4> HIDE DEF p, in, out
            <4> QED BY <2>0, <4>1, <4>2
        <3>4. CASE UNCHANGED tokenVars
            <4>1. in = 0 /\ out = 0
                BY <2>1, <3>4 DEF tokenVars, Pool, Circulating, in, out
            <4> HIDE DEF p, in, out
            <4> QED BY <2>0, <4>1
        <3> QED BY <1>1, <3>1, <3>2, <3>3, <3>4, StepKinds
    <2>3. p * Pool' - p * Pool = p * in /\ BASE * Circulating' - BASE * Circulating = BASE * out
        BY <2>0, <2>1
    <2> QED
        <3>1. p * Pool \in Int /\ p * Pool' \in Int /\ BASE * Circulating \in Int
              /\ BASE * Circulating' \in Int
            BY <2>0, <2>1
        <3>2. Equity = p * Pool - BASE * Circulating
            BY DEF Equity
        <3>3. Equity' = p * Pool' - BASE * Circulating'
            BY <1>1 DEF Equity
        <3> HIDE DEF in, out, p
        <3> QED BY <2>2, <2>3, <3>1, <3>2, <3>3
<1>2. /\ underlyingBalance \in [Holders -> Nat]
      /\ voltBalance \in [Holders -> Nat]
      => LedgersNat
    BY DEF LedgersNat
<1>3. PSMInv /\ RLP!TypeOK /\ LedgersNat /\ [Next]_vars
        => [OR!OracleReadable /\ OR!readOracle' = OR!readOracle /\ ~PCVWithdrawal
              => Equity' >= Equity]_vars
    BY <1>1
<1> QED BY <1>2, <1>3, TypeCorrect, BalancesNeverNegative, PTL DEF Spec

\* More is drawn from the buffer as time goes on, never less: nothing in this
\* contract puts anything back.
LEMMA DrawnOnlyGrows ==
    ASSUME PSMInv, RLP!TypeOK, netUsed \in Nat, [Next]_vars
    PROVE  netUsed' \in Nat /\ netUsed' >= netUsed
<1>1. ASSUME NEW c \in Accounts, NEW to \in Accounts \cup {PSM}, NEW a \in Amounts,
             NEW m \in MinAmounts, mint(c, to, a, m)
      PROVE  netUsed' \in Nat /\ netUsed' >= netUsed
    <2>1. PICK minted \in Nat :
             \/ minted = 0 /\ UNCHANGED limiterVars
             \/ minted \in Mintable /\ RLP!depleteBuffer(minted)
        BY <1>1, MintEffect
    <2> QED BY <2>1 DEF limiterVars, RLP!depleteBuffer
<1>2. ASSUME NEW c \in Accounts, NEW to \in Accounts \cup {PSM}, NEW a \in Amounts,
             NEW m \in MinAmounts, redeem(c, to, a, m)
      PROVE  UNCHANGED netUsed
    BY <1>2 DEF redeem, limiterVars
<1>3. TokenStep => UNCHANGED netUsed
    BY TokenStepEffect DEF limiterVars
<1>4. LimiterCall => UNCHANGED netUsed
    BY LimiterStep DEF PSMInv, LedgerInv
<1>5. UNCHANGED limiterVars => UNCHANGED netUsed
    BY DEF limiterVars
<1>6. CASE UNCHANGED netUsed
    BY <1>6 DEF RLP!TypeOK
<1>7. CASE \E c \in Accounts, to \in Accounts \cup {PSM}, a \in Amounts,
              m \in MinAmounts : redeem(c, to, a, m)
    BY <1>2, <1>6, <1>7
<1>8. CASE \E c \in Accounts, to \in Accounts \cup {PSM}, a \in Amounts,
              m \in MinAmounts : mint(c, to, a, m)
    BY <1>1, <1>8
<1> QED BY <1>3, <1>4, <1>5, <1>6, <1>7, <1>8, StepKinds

PausesOK ==
    pauses \in [paused       : BOOLEAN,
                mintPaused   : BOOLEAN,
                redeemPaused : BOOLEAN,
                voltPaused   : BOOLEAN,
                targetPaused : [Targets -> BOOLEAN]]

\* Only the pausing calls set a flag, each its own.
LEMMA PausesStep ==
    ASSUME PausesOK, [Next]_vars
    PROVE  PausesOK'
<1>1. CASE Trade
    BY <1>1 DEF Trade, mint, redeem, PausesOK
<1>2. CASE PCVWithdrawal
    BY <1>2 DEF PCVWithdrawal, withdraw, withdrawVolt, PausesOK
<1>3. CASE Reserves
    BY <1>3 DEF Reserves, allocateSurplus, deposit, PausesOK
<1>4. CASE Configure
    BY <1>4 DEF Configure, setMintFee, setRedeemFee, setReservesThreshold,
        setSurplusTarget, setOracleFloorBasisPoints, setOracleCeilingBasisPoints,
        ConfigCall, PausesOK
<1>5. ASSUME NEW c \in Accounts, NEW value \in BOOLEAN,
             \/ setMintPaused(c, value) \/ setRedeemPaused(c, value)
             \/ setPaused(c, value) \/ setVoltPaused(c, value)
      PROVE  PausesOK'
    BY <1>5 DEF setMintPaused, setRedeemPaused, setPaused, setVoltPaused, PauseCall,
        PausesOK
<1>6. ASSUME NEW c \in Accounts, NEW value \in BOOLEAN, NEW t \in Targets,
             TargetPause(c, t, value)
      PROVE  PausesOK'
    BY <1>6 DEF TargetPause, PauseCall, PausesOK
<1>7. CASE LimiterCall \/ OracleCall \/ UNCHANGED vars
    BY <1>7 DEF LimiterCall, OracleCall, vars, PausesOK
<1>8. CASE Environment
    BY <1>8 DEF Environment, FeedMoves, Donate, burn, TargetDeposit, PausesOK
<1> QED BY <1>1, <1>2, <1>3, <1>4, <1>5, <1>6, <1>7, <1>8 DEF Next, Pausing

\* The type invariant of the model holds in every reachable state: flags stay
\* flags, and neither what is drawn from the buffer nor the supply of VOLT ever
\* falls below zero.
THEOREM AllTypesCorrect == Spec => []TypeOK
<1>1. Init => netUsed \in Nat /\ PausesOK
    BY DEF Init, PausesOK
<1>2. /\ PSMInv /\ RLP!TypeOK /\ netUsed \in Nat /\ PausesOK /\ [Next]_vars
      => (netUsed \in Nat)' /\ PausesOK'
    BY DrawnOnlyGrows, PausesStep
<1>3. Spec => [](netUsed \in Nat /\ PausesOK)
    BY <1>1, <1>2, TypeCorrect, PTL DEF Spec
<1>4. PSMInv /\ RLP!TypeOK /\ netUsed \in Nat /\ PausesOK /\ LedgersNat /\ Conserved
      => TypeOK
    <2> SUFFICES ASSUME PSMInv, RLP!TypeOK, netUsed \in Nat, PausesOK, LedgersNat,
                        Conserved
                 PROVE  TypeOK
        OBVIOUS
    <2>1. RL!TypeOK
        BY DEF RL!TypeOK, RLP!TypeOK
    <2>2. OR!TypeOK
        BY DEF OR!TypeOK, PSMInv, OracleInv
    <2>3. voltSupply \in Nat
        <3>1. Total(voltBalance, Holders) = voltSupply
            BY DEF Conserved, Total
        <3>2. Total(voltBalance, Holders) \in Nat
            BY HoldersFinite, TotalNat DEF LedgersNat
        <3> QED BY <3>1, <3>2
    <2> QED BY <2>1, <2>2, <2>3 DEF TypeOK, PSMInv, ConfigInv, LedgersNat, PausesOK
<1>5. /\ underlyingBalance \in [Holders -> Nat]
      /\ voltBalance \in [Holders -> Nat]
      => LedgersNat
    BY DEF LedgersNat
<1> QED BY <1>3, <1>4, <1>5, TypeCorrect, BalancesNeverNegative, TokensAreConserved, PTL
==============================================================================

------------------------ MODULE ERC20AllocatorProofs -------------------------
(***************************************************************************)
(* Proofs about ERC20Allocator, for any tokens, modules, deposits, targets *)
(* and rates.                                                              *)
(*                                                                         *)
(* LinksInv says that a link, also one to a module that is disconnected by *)
(* now, is between holders of one token, and that a connected module is    *)
(* recorded with its own token and decimals.  The bound on the outflow     *)
(* adds to it what the limiter guarantees: a drip takes from the buffer    *)
(* just what it adds to the outflow, in 18 decimals, from deployment on    *)
(* and from any later moment on.  For the same reason drips and skims      *)
(* implement one token bucket for all tokens.                              *)
(*                                                                         *)
(* The last two theorems are about keepers: an allowed call has all it     *)
(* requires, and one call brings its deposit to rest.                      *)
(***************************************************************************)
EXTENDS ERC20Allocator, TLAPS

\* The records of modules and links are of their types, and true to the tokens
\* of the holders they name.
LinksInv ==
    /\ allPSMs \in [PSMs -> PSMInfo]
    /\ pcvDepositToPSM \in [Deposits -> PSMs \cup {ZeroAddress}]
    /\ \A p \in PSMs :
          allPSMs[p].token # ZeroAddress =>
              /\ allPSMs[p].token = TokenOf[p]
              /\ allPSMs[p].decimalsNormalizer = NormalizerOf[TokenOf[p]]
    /\ \A d \in Deposits :
          pcvDepositToPSM[d] # ZeroAddress =>
              TokenOf[pcvDepositToPSM[d]] = TokenOf[d]

\* Only these calls of governors write the links.
LEMMA LinkSteps ==
    [Next]_vars =>
        \/ UNCHANGED <<allPSMs, pcvDepositToPSM>>
        \/ \E c \in Accounts, p \in PSMs, t \in TargetBalances :
              \/ connectPSM(c, p, t, NormalizerOf[TokenOf[p]])
              \/ editPSMTargetBalance(c, p, t)
        \/ \E c \in Accounts, p \in PSMs : disconnectPSM(c, p)
        \/ \E c \in Accounts, p \in PSMs, d \in Deposits : connectDeposit(c, p, d)
        \/ \E c \in Accounts, d \in Deposits : deleteDeposit(c, d)
<1> SUFFICES ASSUME [Next]_vars,
                    ~UNCHANGED <<allPSMs, pcvDepositToPSM>>
             PROVE  \/ \E c \in Accounts, p \in PSMs, t \in TargetBalances :
                          \/ connectPSM(c, p, t, NormalizerOf[TokenOf[p]])
                          \/ editPSMTargetBalance(c, p, t)
                    \/ \E c \in Accounts, p \in PSMs : disconnectPSM(c, p)
                    \/ \E c \in Accounts, p \in PSMs, d \in Deposits :
                          connectDeposit(c, p, d)
                    \/ \E c \in Accounts, d \in Deposits : deleteDeposit(c, d)
    OBVIOUS
<1>1. ASSUME NEW p, NEW d
      PROVE  /\ dripStep(p, d) => UNCHANGED <<allPSMs, pcvDepositToPSM>>
             /\ skimStep(p, d) => UNCHANGED <<allPSMs, pcvDepositToPSM>>
    BY DEF dripStep, skimStep, linkVars
<1>2. ~Allocation
    BY <1>1 DEF Allocation, drip, skim, doAction, vars, linkVars
<1>3. ~LimiterCall /\ ~Environment /\ ~UNCHANGED vars
    BY DEF LimiterCall, Environment, ExternalFlow, DepositPause, vars, linkVars
<1>4. ASSUME NEW c \in Accounts, NEW value \in BOOLEAN PROVE ~setPaused(c, value)
    BY DEF setPaused
<1> QED BY <1>2, <1>3, <1>4 DEF Next, Governance

\* At first nothing is connected.
LEMMA LinksInit == Init => LinksInv
BY ERC20AllocatorAssumption DEF Init, LinksInv, NoPSM, PSMInfo

\* Every call that writes a record or a link keeps them true to the tokens.
LEMMA LinksStep == LinksInv /\ [Next]_vars => LinksInv'
<1> SUFFICES ASSUME LinksInv, [Next]_vars PROVE LinksInv'
    OBVIOUS
<1>0. /\ ZeroAddress \notin PSMs \cup Deposits \cup Tokens
      /\ TargetBalances \subseteq Nat
      /\ \A p \in PSMs : /\ TokenOf[p] \in Tokens
                         /\ NormalizerOf[TokenOf[p]] \in Int
    BY ERC20AllocatorAssumption DEF Holders
<1>1. CASE UNCHANGED <<allPSMs, pcvDepositToPSM>>
    BY <1>1 DEF LinksInv
<1>2. ASSUME NEW c \in Accounts, NEW p \in PSMs, NEW t \in TargetBalances,
             connectPSM(c, p, t, NormalizerOf[TokenOf[p]])
      PROVE  LinksInv'
    BY <1>0, <1>2 DEF connectPSM, LinksInv, PSMInfo
<1>3. ASSUME NEW c \in Accounts, NEW p \in PSMs, NEW t \in TargetBalances,
             editPSMTargetBalance(c, p, t)
      PROVE  LinksInv'
    BY <1>0, <1>3 DEF editPSMTargetBalance, LinksInv, PSMInfo
<1>4. ASSUME NEW c \in Accounts, NEW p \in PSMs, disconnectPSM(c, p)
      PROVE  LinksInv'
    BY <1>0, <1>4 DEF disconnectPSM, NoPSM, LinksInv, PSMInfo
<1>5. ASSUME NEW c \in Accounts, NEW p \in PSMs, NEW d \in Deposits,
             connectDeposit(c, p, d)
      PROVE  LinksInv'
    BY <1>0, <1>5 DEF connectDeposit, LinksInv
<1>6. ASSUME NEW c \in Accounts, NEW d \in Deposits, deleteDeposit(c, d)
      PROVE  LinksInv'
    BY <1>0, <1>6 DEF deleteDeposit, LinksInv
<1> QED BY <1>1, <1>2, <1>3, <1>4, <1>5, <1>6, LinkSteps

\* So the links are true to the tokens in every reachable state.
LEMMA LinksInvariant == Spec => []LinksInv
BY LinksInit, LinksStep, PTL DEF Spec

\* In whatever order modules and deposits are connected, edited, disconnected
\* and connected again, no deposit is ever linked to a connected module of
\* another token.
THEOREM LinksAreOfOneToken == Spec => []LinkedTokensMatch
<1>1. LinksInv => LinkedTokensMatch
    BY DEF LinksInv, LinkedTokensMatch, Connected
<1> QED BY <1>1, LinksInvariant, PTL

------------------------------------------------------------------------------
(* The limiter, as proved about RateLimitedV2 *)

RLP == INSTANCE RateLimitedV2Proofs WITH Amounts <- {}, MaxReplenished <- 0

\* The allocator gives the limiter the parameters its proofs assume.
LEMMA LimiterAssumption == RLP!RateLimitedV2Assumption
BY ERC20AllocatorAssumption DEF RLP!RateLimitedV2Assumption

\* The buffer is never below zero.
LEMMA BufferNat == RL!TypeOK => RL!Buffer \in Nat
BY RLP!BufferNat, LimiterAssumption
DEF RL!TypeOK, RLP!TypeOK, RL!Buffer, RLP!Buffer, RL!MathMin, RLP!MathMin

\* ... nor above its cap.
LEMMA BufferWithinCap == RL!TypeOK => RL!Buffer <= bufferCap
BY RLP!BufferNat, LimiterAssumption
DEF RL!TypeOK, RLP!TypeOK, RL!Buffer, RLP!Buffer, RL!MathMin, RLP!MathMin

\* It is a natural number in the next state as well.
LEMMA BufferNatNext == RL!TypeOK' => RL!Buffer' \in Nat
<1>1. (RL!TypeOK => RL!Buffer \in Nat)'
    BY BufferNat, PTL
<1> QED BY <1>1

\* A drip takes from the buffer all that it asks for.
LEMMA DripsDeplete ==
    ASSUME RL!TypeOK, NEW a \in Nat, RL!depleteBuffer(a)
    PROVE  RL!TypeOK' /\ RL!Buffer' = RL!Buffer - a /\ now' = now
BY RLP!DepleteEffect, LimiterAssumption
DEF RL!TypeOK, RLP!TypeOK, RL!Buffer, RLP!Buffer, RL!MathMin, RLP!MathMin,
    RL!depleteBuffer, RLP!depleteBuffer

\* A skim fills the buffer up by no more than it reports.
LEMMA SkimsReplenish ==
    ASSUME RL!TypeOK, NEW a \in Nat, RL!replenishBuffer(a)
    PROVE  RL!TypeOK' /\ RL!Buffer' <= RL!Buffer + a /\ now' = now
BY RLP!ReplenishEffect, LimiterAssumption
DEF RL!TypeOK, RLP!TypeOK, RL!Buffer, RLP!Buffer, RL!MathMin, RLP!MathMin,
    RL!replenishBuffer, RLP!replenishBuffer

\* No change of rate or cap fills the buffer, and a second adds the rate at most.
LEMMA LimiterCalls ==
    ASSUME RL!TypeOK, LimiterCall
    PROVE  /\ RL!TypeOK'
           /\ \/ RL!Buffer' <= RL!Buffer /\ now' = now
              \/ /\ RL!Buffer' <= RL!Buffer + MAX_RATE_LIMIT_PER_SECOND
                 /\ now' = now + 1
<1>1. CASE RL!Tick
    BY <1>1, RLP!TickEffect, LimiterAssumption
    DEF RL!TypeOK, RLP!TypeOK, RL!Buffer, RLP!Buffer, RL!MathMin, RLP!MathMin,
        RL!Tick, RLP!Tick
<1>2. ASSUME NEW c \in Accounts, NEW r \in Rates, RL!setRateLimitPerSecond(c, r)
      PROVE  RL!TypeOK' /\ RL!Buffer' <= RL!Buffer /\ now' = now
    BY <1>2, RLP!GovernanceEffect, LimiterAssumption, ERC20AllocatorAssumption
    DEF RL!TypeOK, RLP!TypeOK, RL!Buffer, RLP!Buffer, RL!MathMin, RLP!MathMin,
        RL!setRateLimitPerSecond, RLP!setRateLimitPerSecond,
        RL!updateBufferStored, RLP!updateBufferStored
<1>3. ASSUME NEW c \in Accounts, NEW b \in Caps, RL!setBufferCap(c, b)
      PROVE  RL!TypeOK' /\ RL!Buffer' <= RL!Buffer /\ now' = now
    BY <1>3, RLP!GovernanceEffect, LimiterAssumption, ERC20AllocatorAssumption
    DEF RL!TypeOK, RLP!TypeOK, RL!Buffer, RLP!Buffer, RL!MathMin, RLP!MathMin,
        RL!setBufferCap, RLP!setBufferCap,
        RL!updateBufferStored, RLP!updateBufferStored
<1> QED BY <1>1, <1>2, <1>3 DEF LimiterCall, RL!Tick

------------------------------------------------------------------------------
(* Balances and the outflow *)

\* Powers of ten are positive, and the zeroth is 1.
LEMMA PowersOfTen ==
    /\ Pow10[0] = 1
    /\ \A n \in Nat : Pow10[n] \in Nat \ {0}
<1>1. Pow10 = RLP!Pow10
    BY DEF Pow10, RLP!Pow10
<1> QED BY <1>1, RLP!PowersOfTen, LimiterAssumption

\* Converting to or from 18 decimals makes natural numbers of natural numbers.
LEMMA AdjustedNat ==
    ASSUME NEW t \in Tokens, NEW a \in Nat
    PROVE  /\ getAdjustedAmount(a, NormalizerOf[t]) \in Nat
           /\ getAdjustedAmount(a, -NormalizerOf[t]) \in Nat
<1> DEFINE n == NormalizerOf[t]
           scale == Pow10[Magnitude(n)]
<1>1. n \in Int /\ scale \in Nat \ {0}
    BY ERC20AllocatorAssumption, PowersOfTen DEF Magnitude
<1>2. Magnitude(-n) = Magnitude(n)
    BY <1>1 DEF Magnitude
<1>3. a * scale \in Nat /\ a \div scale \in Nat
    BY <1>1
<1> HIDE DEF n
<1> QED BY <1>1, <1>2, <1>3 DEF getAdjustedAmount, n

\* The smaller of two amounts is one of them.
LEMMA MathMinNat ==
    ASSUME NEW a \in Nat, NEW b \in Nat
    PROVE  MathMin(a, b) \in Nat /\ MathMin(a, b) <= a /\ MathMin(a, b) <= b
BY DEF MathMin

\* What is true of a linked pair that is connected.
LEMMA ConnectedPair ==
    ASSUME LinksInv, NEW d \in Deposits, Connected(pcvDepositToPSM[d])
    PROVE  LET p == pcvDepositToPSM[d]
           IN  /\ p \in PSMs /\ p # d
               /\ TokenOf[p] \in Tokens
               /\ allPSMs[p].decimalsNormalizer = NormalizerOf[TokenOf[p]]
               /\ allPSMs[p].targetBalance \in Nat
BY ERC20AllocatorAssumption DEF LinksInv, Connected, PSMInfo, Holders

Inv == TypeOK /\ LinksInv

\* A drip or skim is for what it should be: within balances, on the right side
\* of the target, and worth to the limiter what it adds to the outflow.
LEMMA DripEffect ==
    ASSUME Inv, NEW d \in Deposits, Connected(pcvDepositToPSM[d]),
           dripStep(pcvDepositToPSM[d], d)
    PROVE  LET p == pcvDepositToPSM[d]
           IN  \E amount, value \in Nat :
                  /\ RL!depleteBuffer(value)
                  /\ Transfer(d, p, amount)
                  /\ amount <= balance[d]
                  /\ balance[p] + amount <= allPSMs[p].targetBalance
                  /\ netDripped' = netDripped + value
                  /\ UNCHANGED <<linkVars, depositPaused, flows>>
<1> DEFINE p      == pcvDepositToPSM[d]
           amount == AmountToDrip(p, d)
           n      == NormalizerOf[TokenOf[p]]
           value  == getAdjustedAmount(amount, n)
<1>0. /\ p \in PSMs /\ TokenOf[p] \in Tokens
      /\ allPSMs[p].decimalsNormalizer = n
      /\ allPSMs[p].targetBalance \in Nat
      /\ balance[p] \in Nat /\ balance[d] \in Nat
    BY ConnectedPair DEF Inv, TypeOK, Holders
<1>1. allPSMs[p].targetBalance - balance[p] \in Nat
    BY <1>0 DEF dripStep, DripCondition
<1>2. getAdjustedAmount(RL!Buffer, -n) \in Nat
    BY <1>0, BufferNat, AdjustedNat DEF Inv, TypeOK
<1>3. /\ amount \in Nat /\ amount <= balance[d]
      /\ amount <= allPSMs[p].targetBalance - balance[p]
    <2> DEFINE m == MathMin(allPSMs[p].targetBalance - balance[p], balance[d])
    <2>1. /\ m \in Nat /\ m <= balance[d]
          /\ m <= allPSMs[p].targetBalance - balance[p]
        BY <1>0, <1>1, MathMinNat
    <2>2. amount = MathMin(m, getAdjustedAmount(RL!Buffer, -n))
        BY <1>0 DEF AmountToDrip
    <2> HIDE DEF m
    <2>3. amount \in Nat /\ amount <= m
        BY <1>2, <2>1, <2>2, MathMinNat
    <2> QED BY <1>0, <1>1, <2>1, <2>3
<1>4. value \in Nat
    BY <1>0, <1>3, AdjustedNat
<1>5. /\ RL!depleteBuffer(value) /\ Transfer(d, p, amount)
      /\ netDripped' = netDripped + value
      /\ UNCHANGED <<linkVars, depositPaused, flows>>
    BY <1>0 DEF dripStep, InVolt
<1>6. balance[p] + amount <= allPSMs[p].targetBalance
    BY <1>0, <1>3
<1> HIDE DEF amount, value
<1> QED BY <1>3, <1>4, <1>5, <1>6

\* A skim leaves the module just at its target.
LEMMA SkimEffect ==
    ASSUME Inv, NEW d \in Deposits, Connected(pcvDepositToPSM[d]),
           skimStep(pcvDepositToPSM[d], d)
    PROVE  LET p == pcvDepositToPSM[d]
           IN  \E amount, value \in Nat :
                  /\ RL!replenishBuffer(value)
                  /\ Transfer(p, d, amount)
                  /\ balance[p] - amount = allPSMs[p].targetBalance
                  /\ amount # 0
                  /\ netDripped' = netDripped - value
                  /\ UNCHANGED <<linkVars, depositPaused, flows>>
<1> DEFINE p      == pcvDepositToPSM[d]
           amount == AmountToSkim(p)
           n      == NormalizerOf[TokenOf[p]]
           value  == getAdjustedAmount(amount, n)
<1>0. /\ p \in PSMs /\ TokenOf[p] \in Tokens
      /\ allPSMs[p].decimalsNormalizer = n
      /\ allPSMs[p].targetBalance \in Nat
      /\ balance[p] \in Nat /\ balance[d] \in Nat
    BY ConnectedPair DEF Inv, TypeOK, Holders
<1>1. /\ amount \in Nat /\ amount # 0
      /\ balance[p] - amount = allPSMs[p].targetBalance
    BY <1>0 DEF skimStep, SkimCondition, AmountToSkim
<1>2. value \in Nat
    BY <1>0, <1>1, AdjustedNat
<1>3. /\ RL!replenishBuffer(value) /\ Transfer(p, d, amount)
      /\ netDripped' = netDripped - value
      /\ UNCHANGED <<linkVars, depositPaused, flows>>
    BY <1>0 DEF skimStep, InVolt
<1> HIDE DEF amount, value
<1> QED BY <1>1, <1>2, <1>3

\* Whoever calls drip, skim or doAction causes one of these, or nothing.
LEMMA AllocationIsDripOrSkim ==
    Allocation => \/ \E d \in Deposits :
                        /\ Connected(pcvDepositToPSM[d])
                        /\ \/ dripStep(pcvDepositToPSM[d], d)
                           \/ skimStep(pcvDepositToPSM[d], d)
                  \/ UNCHANGED vars
BY DEF Allocation, drip, skim, doAction

\* A transfer of what the sender has leaves no balance below zero.
LEMMA TransferNat ==
    ASSUME balance \in [Holders -> Nat], NEW f \in Holders, NEW to \in Holders,
           f # to, NEW a \in Nat, a <= balance[f], Transfer(f, to, a)
    PROVE  balance' \in [Holders -> Nat]
BY DEF Transfer

\* One step of the whole: types, and what it does to the outflow and buffer.
LEMMA OutflowStep ==
    ASSUME Inv, [Next]_vars
    PROVE  /\ TypeOK'
           /\ \/ /\ netDripped' + RL!Buffer' <= netDripped + RL!Buffer
                 /\ now' = now
              \/ /\ netDripped' + RL!Buffer'
                        <= netDripped + RL!Buffer + MAX_RATE_LIMIT_PER_SECOND
                 /\ now' = now + 1
<1> DEFINE Good ==
           /\ TypeOK'
           /\ \/ /\ netDripped' + RL!Buffer' <= netDripped + RL!Buffer
                 /\ now' = now
              \/ /\ netDripped' + RL!Buffer'
                        <= netDripped + RL!Buffer + MAX_RATE_LIMIT_PER_SECOND
                 /\ now' = now + 1
<1> SUFFICES Good
    OBVIOUS
<1>0. /\ TypeOK /\ RL!TypeOK /\ RL!Buffer \in Nat /\ netDripped \in Int
      /\ MAX_RATE_LIMIT_PER_SECOND \in Nat
    BY BufferNat, ERC20AllocatorAssumption DEF Inv, TypeOK
<1>t. RL!TypeOK' => RL!Buffer' \in Nat
    BY BufferNatNext
<1>l. LinksInv'
    BY LinksStep DEF Inv
<1>1. ASSUME NEW d \in Deposits, Connected(pcvDepositToPSM[d]),
             dripStep(pcvDepositToPSM[d], d)
      PROVE  Good
    <2> DEFINE p == pcvDepositToPSM[d]
    <2>0. p \in Holders /\ d \in Holders /\ p # d
        BY <1>1, ConnectedPair DEF Inv, Holders
    <2>1. PICK amount \in Nat, value \in Nat :
              /\ RL!depleteBuffer(value)
              /\ Transfer(d, p, amount)
              /\ amount <= balance[d]
              /\ netDripped' = netDripped + value
              /\ UNCHANGED <<linkVars, depositPaused, flows>>
        BY <1>1, DripEffect
    <2>2. RL!TypeOK' /\ RL!Buffer' = RL!Buffer - value /\ now' = now
        BY <1>0, <2>1, DripsDeplete
    <2>3. balance' \in [Holders -> Nat]
        BY <2>0, <2>1, TransferNat DEF Inv, TypeOK
    <2>4. TypeOK'
        BY <1>0, <2>1, <2>2, <2>3 DEF TypeOK, linkVars
    <2> QED BY <1>0, <2>1, <2>2, <2>4
<1>2. ASSUME NEW d \in Deposits, Connected(pcvDepositToPSM[d]),
             skimStep(pcvDepositToPSM[d], d)
      PROVE  Good
    <2> DEFINE p == pcvDepositToPSM[d]
    <2>0. p \in Holders /\ d \in Holders /\ p # d /\ balance[p] \in Nat
          /\ allPSMs[p].targetBalance \in Nat
        BY <1>2, ConnectedPair DEF Inv, Holders, TypeOK
    <2>1. PICK amount \in Nat, value \in Nat :
              /\ RL!replenishBuffer(value)
              /\ Transfer(p, d, amount)
              /\ balance[p] - amount = allPSMs[p].targetBalance
              /\ netDripped' = netDripped - value
              /\ UNCHANGED <<linkVars, depositPaused, flows>>
        BY <1>2, SkimEffect
    <2>2. RL!TypeOK' /\ RL!Buffer' <= RL!Buffer + value /\ now' = now
        BY <1>0, <2>1, SkimsReplenish
    <2>3. balance' \in [Holders -> Nat]
        BY <2>0, <2>1, TransferNat DEF Inv, TypeOK
    <2>4. TypeOK'
        BY <1>0, <2>1, <2>2, <2>3 DEF TypeOK, linkVars
    <2> QED BY <1>0, <1>t, <2>1, <2>2, <2>4
<1>3. CASE LimiterCall
    <2>1. UNCHANGED <<linkVars, moneyVars>>
        BY <1>3 DEF LimiterCall
    <2>2. RL!TypeOK'
        BY <1>0, <1>3, LimiterCalls
    <2>3. TypeOK'
        BY <1>0, <2>1, <2>2 DEF TypeOK, linkVars, moneyVars
    <2> QED BY <1>0, <1>t, <1>3, <2>1, <2>2, <2>3, LimiterCalls DEF moneyVars
<1>4. CASE UNCHANGED <<limiterVars, netDripped>> /\ TypeOK'
    <2>1. RL!Buffer' = RL!Buffer /\ now' = now
        BY <1>4 DEF limiterVars, RL!Buffer
    <2> QED BY <1>0, <1>4, <2>1
<1>5. RL!TypeOK' \/ ~UNCHANGED limiterVars
    BY <1>0 DEF limiterVars, RL!TypeOK
<1>6. CASE Governance
    <2>1. UNCHANGED <<limiterVars, moneyVars>> /\ paused' \in BOOLEAN
        BY <1>6, Zenon DEF Governance, connectPSM, editPSMTargetBalance,
            disconnectPSM, connectDeposit, deleteDeposit, setPaused, Inv, TypeOK
    <2>2. TypeOK'
        BY <1>0, <1>5, <1>l, <2>1 DEF TypeOK, LinksInv, moneyVars
    <2> QED BY <1>4, <2>1, <2>2 DEF moneyVars
<1>7. CASE Environment
    <2>1. ASSUME NEW h \in Holders, NEW b \in ExternalBalances, ExternalFlow(h, b)
          PROVE  TypeOK' /\ UNCHANGED <<limiterVars, netDripped>>
        BY <1>0, <1>5, <2>1, ERC20AllocatorAssumption
        DEF ExternalFlow, TypeOK, linkVars
    <2>2. ASSUME NEW c \in Accounts, NEW d \in Deposits, NEW value \in BOOLEAN,
                 DepositPause(c, d, value)
          PROVE  TypeOK' /\ UNCHANGED <<limiterVars, netDripped>>
        BY <1>0, <1>5, <2>2 DEF DepositPause, TypeOK, linkVars
    <2> QED BY <1>4, <1>7, <2>1, <2>2 DEF Environment
<1>8. CASE UNCHANGED vars
    <2>1. TypeOK'
        BY <1>0, <1>5, <1>8 DEF vars, linkVars, moneyVars, TypeOK
    <2> QED BY <1>4, <1>8, <2>1 DEF vars, moneyVars
<1> HIDE DEF Good
<1> QED
    BY <1>1, <1>2, <1>3, <1>6, <1>7, <1>8, AllocationIsDripOrSkim DEF Next

\* Every state of every behaviour is well typed: no module, deposit or buffer
\* ever has less than nothing.
THEOREM TypeCorrect == Spec => []TypeOK
<1>1. Init => TypeOK
    <2> SUFFICES ASSUME Init PROVE TypeOK
        OBVIOUS
    <2>1. RL!TypeOK
        BY ERC20AllocatorAssumption DEF Init, RL!Init, RL!TypeOK
    <2>2. paused \in BOOLEAN /\ depositPaused \in [Deposits -> BOOLEAN]
        BY Zenon DEF Init
    <2>3. LinksInv
        BY LinksInit
    <2> QED BY <2>1, <2>2, <2>3, ERC20AllocatorAssumption
            DEF Init, TypeOK, LinksInv
<1>2. TypeOK /\ LinksInv /\ [Next]_vars => TypeOK'
    BY OutflowStep DEF Inv
<1> QED BY <1>1, <1>2, LinksInvariant, PTL DEF Spec

\* A quantity bounded by c + r * t that grows by at most r in one second.
LEMMA Accumulate ==
    ASSUME NEW x \in Int, NEW y \in Int, NEW c \in Int,
           NEW r \in Nat, NEW t \in Nat,
           x <= c + r * t, y <= x + r
    PROVE  y <= c + r * (t + 1)
BY RLP!Accumulate

\* Over the contract's life no more leaves the deposits, net of what is skimmed
\* back and counted in 18 decimals over all tokens, than the initial cap and the
\* maximum rate allow, for every schedule of keepers, traders and governors.
THEOREM OutflowIsLimited == Spec => []PCVOutflowLimited
<1>1. Init => PCVOutflowLimited
    BY ERC20AllocatorAssumption
    DEF Init, RL!Init, PCVOutflowLimited, RL!Buffer, RL!MathMin, MathMin
<1>2. TypeOK /\ TypeOK' /\ LinksInv /\ PCVOutflowLimited /\ [Next]_vars
        => PCVOutflowLimited'
    <2> SUFFICES ASSUME TypeOK, TypeOK', LinksInv, PCVOutflowLimited, [Next]_vars
                 PROVE  PCVOutflowLimited'
        OBVIOUS
    <2>1. /\ RL!Buffer \in Nat /\ netDripped \in Int /\ now \in Nat
          /\ InitialCap \in Nat /\ MAX_RATE_LIMIT_PER_SECOND \in Nat
        BY BufferNat, ERC20AllocatorAssumption DEF TypeOK, RL!TypeOK
    <2>2. RL!Buffer' \in Nat /\ netDripped' \in Int
        BY BufferNatNext DEF TypeOK
    <2> DEFINE x == netDripped + RL!Buffer
               y == netDripped' + RL!Buffer'
    <2>3. x \in Int /\ y \in Int
        BY <2>1, <2>2
    <2>4. x <= InitialCap + MAX_RATE_LIMIT_PER_SECOND * now
        BY DEF PCVOutflowLimited
    <2>5. \/ y <= x /\ now' = now
          \/ y <= x + MAX_RATE_LIMIT_PER_SECOND /\ now' = now + 1
        BY OutflowStep DEF Inv
    <2>6. MAX_RATE_LIMIT_PER_SECOND * now \in Nat
        BY <2>1
    <2> HIDE DEF x, y
    <2>7. y <= InitialCap + MAX_RATE_LIMIT_PER_SECOND * now'
        <3>1. CASE y <= x /\ now' = now
            BY <2>1, <2>3, <2>4, <2>6, <3>1
        <3>2. CASE y <= x + MAX_RATE_LIMIT_PER_SECOND /\ now' = now + 1
            BY <2>1, <2>3, <2>4, <3>2, Accumulate
        <3> QED BY <2>5, <3>1, <3>2
    <2> QED BY <2>7 DEF y, PCVOutflowLimited
<1> QED BY <1>1, <1>2, TypeCorrect, LinksInvariant, PTL DEF Spec

\* The limit on the outflow from any moment on: what leaves the deposits after it,
\* net of what is skimmed back and counted in 18 decimals, plus what may still
\* leave, is within the cap of that moment and the maximum rate for the time that
\* has passed since, however much was dripped or skimmed before and however
\* governors change rate, cap, targets and links afterwards.
THEOREM AnyWindowIsLimited ==
    ASSUME NEW u, NEW c, NEW t
    PROVE  Spec => [](netDripped = u /\ bufferCap = c /\ now = t
                        => [](netDripped + RL!Buffer
                                <= u + c + MAX_RATE_LIMIT_PER_SECOND * (now - t)))
<1> DEFINE Start  == netDripped = u /\ bufferCap = c /\ now = t
           Bound  == netDripped + RL!Buffer
                        <= u + c + MAX_RATE_LIMIT_PER_SECOND * (now - t)
           Window == u \in Int /\ c \in Nat /\ t \in Nat /\ t <= now /\ Bound
<1>1. TypeOK /\ Start => Window
    <2> SUFFICES ASSUME TypeOK, Start PROVE Window
        OBVIOUS
    <2>1. u \in Int /\ c \in Nat /\ t \in Nat /\ t <= now
        BY DEF TypeOK, RL!TypeOK
    <2>2. RL!Buffer <= c /\ RL!Buffer \in Nat
        BY BufferNat, BufferWithinCap DEF TypeOK
    <2>3. MAX_RATE_LIMIT_PER_SECOND * (now - t) = 0
        BY <2>1, ERC20AllocatorAssumption
    <2> QED BY <2>1, <2>2, <2>3
<1>2. TypeOK /\ TypeOK' /\ LinksInv /\ Window /\ [Next]_vars => Window'
    <2> SUFFICES ASSUME TypeOK, TypeOK', LinksInv, Window, [Next]_vars
                 PROVE  Window'
        OBVIOUS
    <2>1. /\ RL!Buffer \in Nat /\ netDripped \in Int /\ now \in Nat
          /\ MAX_RATE_LIMIT_PER_SECOND \in Nat
        BY BufferNat, ERC20AllocatorAssumption DEF TypeOK, RL!TypeOK
    <2>2. RL!Buffer' \in Nat /\ netDripped' \in Int
        BY BufferNatNext DEF TypeOK
    <2> DEFINE x == netDripped + RL!Buffer
               y == netDripped' + RL!Buffer'
    <2>3. \/ y <= x /\ now' = now
          \/ y <= x + MAX_RATE_LIMIT_PER_SECOND /\ now' = now + 1
        BY OutflowStep DEF Inv
    <2>4. /\ x \in Int /\ y \in Int /\ u + c \in Int
          /\ x <= (u + c) + MAX_RATE_LIMIT_PER_SECOND * (now - t)
        BY <2>1, <2>2
    <2>5. t <= now'
        BY <2>1, <2>3
    <2> HIDE DEF x, y
    <2>6. y <= (u + c) + MAX_RATE_LIMIT_PER_SECOND * (now' - t)
        BY <2>1, <2>3, <2>4, LimiterAssumption, RLP!WindowStep
    <2> QED BY <2>5, <2>6 DEF y
<1>3. Window => Bound
    OBVIOUS
<1> HIDE DEF Start, Bound, Window
<1>4. Spec => [](Start => []Bound)
    BY <1>1, <1>2, <1>3, TypeCorrect, LinksInvariant, PTL DEF Spec
<1> QED BY <1>4 DEF Start, Bound

\* No call of keepers carries a module across its target: a drip stops at it, a
\* skim goes down to it and no further.
THEOREM TargetsAreNotCrossed == Spec => NeverCrossesTarget
<1>1. TypeOK /\ LinksInv /\ [Next]_vars
        => [flows' = flows =>
              \A p \in PSMs :
                  LET target == allPSMs[p].targetBalance
                  IN  /\ balance[p] <= target => balance'[p] <= target
                      /\ balance[p] >= target => balance'[p] >= target]_vars
    <2> SUFFICES ASSUME TypeOK, LinksInv, Next, flows' = flows, NEW q \in PSMs
                 PROVE  /\ balance[q] <= allPSMs[q].targetBalance
                              => balance'[q] <= allPSMs[q].targetBalance
                        /\ balance[q] >= allPSMs[q].targetBalance
                              => balance'[q] >= allPSMs[q].targetBalance
        OBVIOUS
    <2>0. /\ balance[q] \in Nat /\ allPSMs[q].targetBalance \in Nat
          /\ q \notin Deposits /\ Inv /\ flows \in Nat
          /\ balance \in [Holders -> Nat]
        BY ERC20AllocatorAssumption DEF TypeOK, Holders, PSMInfo, Inv
    <2>1. ASSUME NEW d \in Deposits, Connected(pcvDepositToPSM[d]),
                 dripStep(pcvDepositToPSM[d], d)
          PROVE  /\ balance[q] <= allPSMs[q].targetBalance
                              => balance'[q] <= allPSMs[q].targetBalance
                 /\ balance[q] >= allPSMs[q].targetBalance
                              => balance'[q] >= allPSMs[q].targetBalance
        <3> DEFINE p == pcvDepositToPSM[d]
        <3>0. p \in PSMs /\ balance[p] \in Nat /\ d \in Holders /\ p # d /\ q # d
            BY <2>0, <2>1, ConnectedPair DEF Inv, Holders
        <3>1. PICK amount \in Nat, value \in Nat :
                  /\ Transfer(d, p, amount)
                  /\ balance[p] + amount <= allPSMs[p].targetBalance
            BY <2>0, <2>1, DripEffect
        <3>2. q # p => balance'[q] = balance[q]
            BY <2>0, <3>0, <3>1 DEF Transfer, Holders
        <3>3. balance'[p] = balance[p] + amount
            BY <2>0, <3>0, <3>1 DEF Transfer, Holders
        <3> QED BY <2>0, <3>0, <3>1, <3>2, <3>3
    <2>2. ASSUME NEW d \in Deposits, Connected(pcvDepositToPSM[d]),
                 skimStep(pcvDepositToPSM[d], d)
          PROVE  /\ balance[q] <= allPSMs[q].targetBalance
                              => balance'[q] <= allPSMs[q].targetBalance
                 /\ balance[q] >= allPSMs[q].targetBalance
                              => balance'[q] >= allPSMs[q].targetBalance
        <3> DEFINE p == pcvDepositToPSM[d]
        <3>0. p \in PSMs /\ balance[p] \in Nat /\ d \in Holders /\ p # d /\ q # d
            BY <2>0, <2>2, ConnectedPair DEF Inv, Holders
        <3>1. PICK amount \in Nat, value \in Nat :
                  /\ Transfer(p, d, amount)
                  /\ balance[p] - amount = allPSMs[p].targetBalance
            BY <2>0, <2>2, SkimEffect
        <3>2. q # p => balance'[q] = balance[q]
            BY <2>0, <3>0, <3>1 DEF Transfer, Holders
        <3>3. balance'[p] = balance[p] - amount
            BY <2>0, <3>0, <3>1 DEF Transfer, Holders
        <3> QED BY <2>0, <3>0, <3>1, <3>2, <3>3
    <2>3. CASE balance' = balance
        BY <2>3
    <2>4. Governance \/ LimiterCall \/ Environment => balance' = balance
        BY <2>0 DEF Governance, LimiterCall, Environment, ExternalFlow,
            DepositPause, connectPSM, editPSMTargetBalance, disconnectPSM,
            connectDeposit, deleteDeposit, setPaused, moneyVars
    <2> QED
        BY <2>1, <2>2, <2>3, <2>4, AllocationIsDripOrSkim
        DEF Next, vars, moneyVars
<1> QED BY <1>1, TypeCorrect, LinksInvariant, PTL DEF Spec, NeverCrossesTarget

------------------------------------------------------------------------------
(* One bucket for all tokens *)

\* The bucket that drips draw from and skims put back to, in 18 decimals.
TB == INSTANCE TokenBucket WITH
          MaxRate <- MAX_RATE_LIMIT_PER_SECOND,
          Amounts <- Nat,
          rate <- rateLimitPerSecond,
          cap <- bufferCap,
          level <- RL!Buffer,
          netDrawn <- netUsed

\* A drip draws from the bucket, a skim puts back.
LEMMA AllocationSimulation ==
    ASSUME Inv, NEW d \in Deposits, Connected(pcvDepositToPSM[d]),
           \/ dripStep(pcvDepositToPSM[d], d)
           \/ skimStep(pcvDepositToPSM[d], d)
    PROVE  TB!Next
<1>0. RL!TypeOK
    BY DEF Inv, TypeOK
<1>1. ASSUME NEW a \in Nat, RL!depleteBuffer(a) PROVE TB!Next
    <2>1. RL!Buffer' = RL!Buffer - a
        BY <1>0, <1>1, DripsDeplete
    <2>2. TB!Draw(a)
        BY <1>1, <2>1 DEF RL!depleteBuffer, TB!Draw
    <2> QED BY <2>2 DEF TB!Next
<1>2. ASSUME NEW a \in Nat, RL!replenishBuffer(a) PROVE TB!Next
    <2>1. /\ RL!Buffer' = TB!MathMin(RL!Buffer + a, bufferCap)
          /\ netUsed' = netUsed - (RL!Buffer' - RL!Buffer)
        BY <1>0, <1>2, RLP!ReplenishExactly, LimiterAssumption
        DEF RL!TypeOK, RLP!TypeOK, RL!Buffer, RLP!Buffer, RL!MathMin,
            RLP!MathMin, TB!MathMin, RL!replenishBuffer, RLP!replenishBuffer
    <2>2. TB!PutBack(a)
        BY <1>2, <2>1 DEF RL!replenishBuffer, TB!PutBack
    <2> QED BY <2>2 DEF TB!Next
<1> QED BY <1>1, <1>2, DripEffect, SkimEffect

\* The clock and governance do to the bucket what they do to the limiter.
LEMMA LimiterSimulation ==
    ASSUME RL!TypeOK, LimiterCall
    PROVE  TB!Next
<1>1. CASE RL!Tick
    <2>1. RL!Buffer' = TB!MathMin(RL!Buffer + rateLimitPerSecond, bufferCap)
        BY <1>1, RLP!BufferAfterTick, LimiterAssumption
        DEF RL!TypeOK, RLP!TypeOK, RL!Buffer, RLP!Buffer, RL!MathMin,
            RLP!MathMin, TB!MathMin, RL!Tick, RLP!Tick
    <2>2. TB!Tick
        BY <1>1, <2>1 DEF RL!Tick, TB!Tick
    <2> QED BY <2>2 DEF TB!Next
<1>2. ASSUME NEW c \in Accounts, NEW r \in Rates, RL!setRateLimitPerSecond(c, r)
      PROVE  TB!Next
    <2>1. RL!Buffer' = RL!Buffer
        BY <1>2, RLP!RateExactly, LimiterAssumption, ERC20AllocatorAssumption
        DEF RL!TypeOK, RLP!TypeOK, RL!Buffer, RLP!Buffer, RL!MathMin,
            RLP!MathMin, RL!setRateLimitPerSecond, RLP!setRateLimitPerSecond,
            RL!updateBufferStored, RLP!updateBufferStored
    <2>2. TB!ChangeRate(r)
        BY <1>2, <2>1 DEF RL!setRateLimitPerSecond, TB!ChangeRate
    <2> QED BY <2>2 DEF TB!Next
<1>3. ASSUME NEW c \in Accounts, NEW b \in Caps, RL!setBufferCap(c, b)
      PROVE  TB!Next
    <2>1. RL!Buffer' = TB!MathMin(RL!Buffer, b)
        BY <1>3, RLP!CapExactly, LimiterAssumption, ERC20AllocatorAssumption
        DEF RL!TypeOK, RLP!TypeOK, RL!Buffer, RLP!Buffer, RL!MathMin,
            RLP!MathMin, TB!MathMin, RL!setBufferCap, RLP!setBufferCap,
            RL!updateBufferStored, RLP!updateBufferStored
    <2>2. TB!ChangeCap(b)
        BY <1>3, <2>1 DEF RL!setBufferCap, TB!ChangeCap
    <2> QED BY <2>2 DEF TB!Next
<1> QED BY <1>1, <1>2, <1>3 DEF LimiterCall

\* The allocator implements one token bucket: whatever tokens are dripped and
\* skimmed, by whomever and in whatever order, between trades, pauses and changes
\* of links, it draws from a single bucket that is refilled every second.
THEOREM OneBucketForAllTokens == Spec => TB!Spec
<1>1. Init => TB!Init
    <2> SUFFICES ASSUME Init PROVE TB!Init
        OBVIOUS
    <2>1. RL!Buffer = InitialCap
        BY ERC20AllocatorAssumption DEF Init, RL!Init, RL!Buffer, RL!MathMin
    <2> QED BY <2>1 DEF Init, RL!Init, TB!Init
<1>2. Inv /\ [Next]_vars => [TB!Next]_(TB!vars)
    <2> SUFFICES ASSUME Inv, [Next]_vars PROVE [TB!Next]_(TB!vars)
        OBVIOUS
    <2>1. CASE UNCHANGED limiterVars
        BY <2>1 DEF limiterVars, TB!vars, RL!Buffer
    <2>2. Governance \/ Environment \/ UNCHANGED vars => UNCHANGED limiterVars
        BY DEF Governance, Environment, ExternalFlow, DepositPause, connectPSM,
               editPSMTargetBalance, disconnectPSM, connectDeposit,
               deleteDeposit, setPaused, vars
    <2>3. Allocation => TB!Next \/ UNCHANGED vars
        BY AllocationIsDripOrSkim, AllocationSimulation
    <2>4. LimiterCall => TB!Next
        BY LimiterSimulation DEF Inv, TypeOK
    <2> QED BY <2>1, <2>2, <2>3, <2>4 DEF Next
<1>3. Spec => []Inv
    BY TypeCorrect, LinksInvariant, PTL DEF Inv
<1> QED BY <1>1, <1>2, <1>3, PTL DEF Spec, TB!Spec

------------------------------------------------------------------------------
(* When doAction() goes through *)

\* What a drip draws from the buffer, and what a skim gives back, in 18 decimals.
DripValue(p, d) ==
    getAdjustedAmount(AmountToDrip(p, d), allPSMs[p].decimalsNormalizer)

SkimValue(p) ==
    getAdjustedAmount(AmountToSkim(p), allPSMs[p].decimalsNormalizer)

\* What doAction() requires on its way: of the allocator and, if it drips, of the
\* buffer or, if it skims, of the deposit.
DoActionRequires(d) ==
    LET p == pcvDepositToPSM[d]
    IN  /\ ~paused
        /\ Connected(p)
        /\ DripCondition(p, d) => RL!Buffer # 0 /\ DripValue(p, d) <= RL!Buffer
        /\ ~DripCondition(p, d) /\ SkimCondition(p) => ~depositPaused[d]

\* What a drip, or else a skim, leaves behind.
DripLeaves(p, d) ==
    LET amount == AmountToDrip(p, d)
    IN  /\ bufferStored' = RL!Buffer - DripValue(p, d)
        /\ lastBufferUsedTime' = now
        /\ netUsed' = netUsed + DripValue(p, d)
        /\ balance' = [[balance EXCEPT ![d] = @ - amount] EXCEPT ![p] = @ + amount]
        /\ netDripped' = netDripped + InVolt(p, amount)
        /\ UNCHANGED <<now, rateLimitPerSecond, bufferCap, linkVars,
                       depositPaused, flows>>

SkimLeaves(p, d) ==
    LET amount == AmountToSkim(p)
        filled == MathMin(RL!Buffer + SkimValue(p), bufferCap)
        full   == RL!Buffer = bufferCap
    IN  /\ bufferStored' = IF full THEN bufferStored ELSE filled
        /\ lastBufferUsedTime' = IF full THEN lastBufferUsedTime ELSE now
        /\ netUsed' = IF full THEN netUsed ELSE netUsed - (filled - RL!Buffer)
        /\ balance' = [[balance EXCEPT ![p] = @ - amount] EXCEPT ![d] = @ + amount]
        /\ netDripped' = netDripped - InVolt(p, amount)
        /\ UNCHANGED <<now, rateLimitPerSecond, bufferCap, linkVars,
                       depositPaused, flows>>

\* DoActionRequires is what decides whether doAction() reverts: where it holds,
\* each variable gets the one next value that is written here.
LEMMA DoActionIsRequirements ==
    ASSUME NEW d \in Deposits
    PROVE  doAction(d) <=>
              /\ DoActionRequires(d)
              /\ LET p == pcvDepositToPSM[d]
                 IN  IF DripCondition(p, d) THEN DripLeaves(p, d)
                     ELSE IF SkimCondition(p) THEN SkimLeaves(p, d)
                     ELSE UNCHANGED vars
<1> DEFINE p == pcvDepositToPSM[d]
<1>1. ASSUME DripCondition(p, d)
      PROVE  dripStep(p, d) <=>
                /\ RL!Buffer # 0 /\ DripValue(p, d) <= RL!Buffer
                /\ DripLeaves(p, d)
    BY <1>1 DEF dripStep, DripLeaves, DripValue, RL!depleteBuffer, Transfer
<1>2. ASSUME SkimCondition(p)
      PROVE  skimStep(p, d) <=> ~depositPaused[d] /\ SkimLeaves(p, d)
    <2>1. CASE RL!Buffer = bufferCap
        BY <1>2, <2>1
        DEF skimStep, SkimLeaves, SkimValue, RL!replenishBuffer, Transfer
    <2>2. CASE RL!Buffer # bufferCap
        <3>1. RL!MathMin(RL!Buffer + SkimValue(p), bufferCap)
                 = MathMin(RL!Buffer + SkimValue(p), bufferCap)
            BY DEF RL!MathMin, MathMin
        <3> QED BY <1>2, <2>2, <3>1
            DEF skimStep, SkimLeaves, SkimValue, RL!replenishBuffer, Transfer
    <2> QED BY <2>1, <2>2
<1>3. skimStep(p, d) => SkimCondition(p)
    BY DEF skimStep
<1> QED BY <1>1, <1>2, <1>3 DEF doAction, DoActionRequires

\* An amount no larger than the buffer is worth in a token is worth no more than
\* the buffer: what the first conversion cuts off, the second does not bring back.
LEMMA ConversionLosesOnly ==
    ASSUME NEW t \in Tokens, NEW b \in Nat, NEW a \in Nat,
           a <= getAdjustedAmount(b, -NormalizerOf[t])
    PROVE  getAdjustedAmount(a, NormalizerOf[t]) <= b
<1> DEFINE n == NormalizerOf[t]
           s == Pow10[Magnitude(n)]
<1>1. n \in Int /\ Magnitude(n) \in Nat /\ Magnitude(-n) = Magnitude(n)
      /\ (n = 0 => Magnitude(n) = 0)
    BY ERC20AllocatorAssumption DEF Magnitude
<1>2. s \in Nat \ {0} /\ (n = 0 => s = 1)
    BY <1>1, PowersOfTen
<1>3. getAdjustedAmount(a, n) = IF n >= 0 THEN a * s ELSE a \div s
    BY DEF getAdjustedAmount
<1>4. a <= IF -n >= 0 THEN b * s ELSE b \div s
    BY <1>1 DEF getAdjustedAmount
<1> HIDE DEF n, s
<1>5. CASE n > 0
    <2>1. a <= b \div s
        BY <1>1, <1>4, <1>5
    <2>2. a * s <= b
        BY <1>2, <2>1
    <2> QED BY <1>1, <1>3, <1>5, <2>2 DEF n
<1>6. CASE n = 0
    <2>1. a <= b * 1 /\ getAdjustedAmount(a, n) = a * 1
        BY <1>1, <1>2, <1>3, <1>4, <1>6
    <2> QED BY <2>1 DEF n
<1>7. CASE n < 0
    <2>1. a <= b * s
        BY <1>1, <1>4, <1>7
    <2>2. a \div s <= b
        BY <1>2, <2>1
    <2> QED BY <1>1, <1>3, <1>7, <2>2 DEF n
<1> QED BY <1>1, <1>5, <1>6, <1>7 DEF n

\* checkActionAllowed() lures nobody into a revert: where it says yes and the
\* deposit takes funds, doAction() has all that it requires.  The amount to drip
\* never hits the rate limit, whatever the decimals of the token.
THEOREM AllowedActionsGoThrough ==
    Spec => [](\A d \in Deposits :
                  ActionAllowed(d) /\ ~depositPaused[d] => DoActionRequires(d))
<1>1. ASSUME Inv, NEW d \in Deposits, ActionAllowed(d), ~depositPaused[d]
      PROVE  DoActionRequires(d)
    <2> DEFINE p == pcvDepositToPSM[d]
               n == NormalizerOf[TokenOf[p]]
    <2>1. ~paused /\ Connected(p)
        BY <1>1 DEF ActionAllowed
    <2>2. /\ p \in PSMs /\ TokenOf[p] \in Tokens
          /\ allPSMs[p].decimalsNormalizer = n
          /\ allPSMs[p].targetBalance \in Nat
          /\ balance[p] \in Nat /\ balance[d] \in Nat
          /\ RL!Buffer \in Nat
        BY <1>1, <2>1, ConnectedPair, BufferNat DEF Inv, TypeOK, Holders
    <2>3. ASSUME DripCondition(p, d)
          PROVE  RL!Buffer # 0 /\ DripValue(p, d) <= RL!Buffer
        <3>1. ~SkimCondition(p)
            BY <2>2, <2>3 DEF DripCondition, SkimCondition
        <3>2. RL!Buffer # 0
            BY <1>1, <3>1 DEF ActionAllowed
        <3> DEFINE m == MathMin(allPSMs[p].targetBalance - balance[p], balance[d])
                   most == getAdjustedAmount(RL!Buffer, -n)
                   amount == AmountToDrip(p, d)
        <3>3. m \in Nat /\ most \in Nat
            <4>1. allPSMs[p].targetBalance - balance[p] \in Nat
                BY <2>2, <2>3 DEF DripCondition
            <4> QED BY <2>2, <4>1, MathMinNat, AdjustedNat
        <3>4. amount = MathMin(m, most)
            BY <2>2 DEF AmountToDrip
        <3> HIDE DEF m
        <3>5. amount \in Nat /\ amount <= most
            <4> HIDE DEF most, amount
            <4> QED BY <3>3, <3>4, MathMinNat
        <3> HIDE DEF amount
        <3>6. getAdjustedAmount(amount, n) <= RL!Buffer
            BY <2>2, <3>5, ConversionLosesOnly
        <3> QED BY <2>2, <3>2, <3>6 DEF DripValue, amount
    <2> QED BY <1>1, <2>1, <2>3 DEF DoActionRequires
<1>2. Spec => []Inv
    BY TypeCorrect, LinksInvariant, PTL DEF Inv
<1>3. Inv => \A d \in Deposits :
                ActionAllowed(d) /\ ~depositPaused[d] => DoActionRequires(d)
    BY <1>1
<1> QED BY <1>2, <1>3, PTL

------------------------------------------------------------------------------
(* What one call of doAction() achieves *)

\* Who draws all that the buffer is worth in a token leaves in it less than one
\* unit of that token is worth, or nothing.
LEMMA ConversionTakesAll ==
    ASSUME NEW t \in Tokens, NEW b \in Nat
    PROVE  LET n    == NormalizerOf[t]
               rest == b - getAdjustedAmount(getAdjustedAmount(b, -n), n)
           IN  rest = 0 \/ getAdjustedAmount(rest, -n) = 0
<1> DEFINE n == NormalizerOf[t]
           s == Pow10[Magnitude(n)]
           a == getAdjustedAmount(b, -n)
           rest == b - getAdjustedAmount(a, n)
<1>1. n \in Int /\ Magnitude(-n) = Magnitude(n) /\ s \in Nat \ {0}
      /\ (n = 0 => s = 1)
    <2>1. n \in Int /\ Magnitude(n) \in Nat /\ (n = 0 => Magnitude(n) = 0)
        BY ERC20AllocatorAssumption DEF Magnitude
    <2>2. Magnitude(-n) = Magnitude(n)
        BY <2>1 DEF Magnitude
    <2> QED BY <2>1, <2>2, PowersOfTen
<1>2. \A x : /\ getAdjustedAmount(x, n) = IF n >= 0 THEN x * s ELSE x \div s
             /\ getAdjustedAmount(x, -n) = IF -n >= 0 THEN x * s ELSE x \div s
    BY <1>1 DEF getAdjustedAmount
<1> HIDE DEF n, s
<1>3. CASE n > 0
    <2>1. a = b \div s /\ rest = b - (b \div s) * s
        BY <1>1, <1>2, <1>3
    <2>2. rest \in 0..(s - 1)
        BY <1>1, <2>1
    <2> HIDE DEF rest
    <2>3. rest \div s = 0
        BY <1>1, <2>2
    <2>4. getAdjustedAmount(rest, -n) = rest \div s
        BY <1>1, <1>2, <1>3
    <2> QED BY <2>3, <2>4 DEF rest, n
<1>4. CASE n <= 0
    <2>1. a = b * s
        BY <1>1, <1>2, <1>4
    <2>2. getAdjustedAmount(a, n) = b
        <3>1. CASE n = 0
            BY <1>1, <1>2, <2>1, <3>1
        <3>2. CASE n < 0
            <4>1. (b * s) \div s = b
                BY <1>1
            <4> QED BY <1>1, <1>2, <2>1, <3>2, <4>1
        <3> QED BY <1>1, <1>4, <3>1, <3>2
    <2>3. rest = 0
        BY <2>2
    <2> QED BY <2>3 DEF n
<1> QED BY <1>1, <1>3, <1>4

\* A drip stops for one of three reasons, none of which lets it go on.
LEMMA RestAfterDrip ==
    ASSUME Inv, NEW d \in Deposits, Connected(pcvDepositToPSM[d]),
           dripStep(pcvDepositToPSM[d], d)
    PROVE  AtRest(d)'
<1> DEFINE p      == pcvDepositToPSM[d]
           n      == NormalizerOf[TokenOf[p]]
           target == allPSMs[p].targetBalance
           lack   == target - balance[p]
           most   == getAdjustedAmount(RL!Buffer, -n)
           amount == AmountToDrip(p, d)
           value  == getAdjustedAmount(amount, n)
<1>0. /\ p \in PSMs /\ p # d /\ p \in Holders /\ d \in Holders
      /\ TokenOf[p] \in Tokens
      /\ allPSMs[p].decimalsNormalizer = n
      /\ target \in Nat /\ balance[p] \in Nat /\ balance[d] \in Nat
      /\ balance \in [Holders -> Nat] /\ RL!TypeOK /\ RL!Buffer \in Nat
    BY ConnectedPair, BufferNat DEF Inv, TypeOK, Holders
<1>1. /\ UNCHANGED <<allPSMs, pcvDepositToPSM, paused, depositPaused>>
      /\ RL!depleteBuffer(value) /\ Transfer(d, p, amount)
      /\ balance[p] < target
    BY <1>0 DEF dripStep, DripCondition, linkVars
<1>2. lack \in Nat \ {0} /\ most \in Nat
    <2>1. most \in Nat
        BY <1>0, AdjustedNat
    <2>2. lack \in Nat \ {0}
        <3> HIDE DEF target, most
        <3> QED BY <1>0, <1>1
    <2> QED BY <2>1, <2>2
<1>3. amount = MathMin(MathMin(lack, balance[d]), most)
    BY <1>0 DEF AmountToDrip
<1> HIDE DEF lack, most, amount
<1>4. /\ amount \in Nat
      /\ amount <= lack /\ amount <= balance[d]
      /\ amount = lack \/ amount = balance[d] \/ amount = most
    BY <1>0, <1>2, <1>3 DEF MathMin
<1>5. balance'[p] = balance[p] + amount /\ balance'[d] = balance[d] - amount
    BY <1>0, <1>1, <1>4 DEF Transfer
<1>6. balance'[p] \in Nat /\ balance'[d] \in Nat /\ balance'[p] <= target
    BY <1>0, <1>2, <1>4, <1>5 DEF lack
<1>7. ASSUME ActionAllowed(d)'
      PROVE  RL!Buffer' # 0 /\ balance'[p] < target /\ balance'[d] # 0
    BY <1>0, <1>1, <1>6, <1>7
    DEF ActionAllowed, DripCondition, SkimCondition
<1>8. CASE amount = lack \/ amount = balance[d]
    <2>1. balance'[p] = target \/ balance'[d] = 0
        BY <1>0, <1>2, <1>5, <1>8 DEF lack
    <2> QED BY <1>0, <1>6, <1>7, <2>1 DEF AtRest
<1>9. CASE amount = most
    <2>1. value \in Nat
        BY <1>0, <1>4, AdjustedNat
    <2>2. RL!Buffer' = RL!Buffer - value
        <3> HIDE DEF value
        <3> QED BY <1>0, <1>1, <2>1, DripsDeplete
    <2>3. RL!Buffer' = 0 \/ getAdjustedAmount(RL!Buffer', -n) = 0
        BY <1>0, <1>9, <2>2, ConversionTakesAll DEF most
    <2>4. AmountToDrip(p, d)'
             = MathMin(MathMin(target - balance'[p], balance'[d]),
                       getAdjustedAmount(RL!Buffer', -n))
        BY <1>0, <1>1 DEF AmountToDrip
    <2>5. ASSUME ActionAllowed(d)'
          PROVE  DripCondition(p, d)' /\ AmountToDrip(p, d)' = 0
        <3>1. DripCondition(p, d)'
            BY <1>0, <1>1, <1>7, <2>5 DEF DripCondition
        <3>2. AmountToDrip(p, d)'
                 = MathMin(MathMin(target - balance'[p], balance'[d]), 0)
            BY <1>7, <2>3, <2>4, <2>5
        <3>3. MathMin(target - balance'[p], balance'[d]) \in Nat
            BY <1>0, <1>6 DEF MathMin
        <3> QED BY <3>1, <3>2, <3>3 DEF MathMin
    <2>6. pcvDepositToPSM'[d] = p
        BY <1>1
    <2> QED BY <1>1, <2>5, <2>6 DEF AtRest, DripCondition, AmountToDrip
<1> QED BY <1>4, <1>8, <1>9

\* A skim leaves the module at its target, where there is nothing to do.
LEMMA RestAfterSkim ==
    ASSUME Inv, NEW d \in Deposits, Connected(pcvDepositToPSM[d]),
           skimStep(pcvDepositToPSM[d], d)
    PROVE  AtRest(d)'
<1> DEFINE p == pcvDepositToPSM[d]
<1>0. /\ p \in Holders /\ d \in Holders /\ p # d
      /\ balance[p] \in Nat /\ allPSMs[p].targetBalance \in Nat
      /\ balance \in [Holders -> Nat]
    BY ConnectedPair DEF Inv, TypeOK, Holders
<1>1. PICK amount \in Nat :
          /\ Transfer(p, d, amount)
          /\ balance[p] - amount = allPSMs[p].targetBalance
          /\ UNCHANGED linkVars
    BY SkimEffect
<1>2. balance'[p] = allPSMs[p].targetBalance
    BY <1>0, <1>1 DEF Transfer
<1> QED BY <1>0, <1>1, <1>2
        DEF AtRest, ActionAllowed, DripCondition, SkimCondition, linkVars

\* One call of doAction() is enough: after it there is nothing left to do for the
\* deposit, in whatever state it was made, and it never has to be made twice to
\* reach the target, to empty the deposit or to use up the buffer.
THEOREM OneCallIsEnough ==
    Spec => [][\A d \in Deposits : doAction(d) => AtRest(d)']_vars
<1>1. ASSUME Inv, NEW d \in Deposits, doAction(d)
      PROVE  AtRest(d)'
    <2> DEFINE p == pcvDepositToPSM[d]
    <2>1. Connected(p)
        BY <1>1 DEF doAction
    <2>2. CASE dripStep(p, d)
        BY <1>1, <2>1, <2>2, RestAfterDrip
    <2>3. CASE skimStep(p, d)
        BY <1>1, <2>1, <2>3, RestAfterSkim
    <2>4. CASE ~DripCondition(p, d) /\ ~SkimCondition(p) /\ UNCHANGED vars
        BY <2>4 DEF AtRest, ActionAllowed, DripCondition, SkimCondition,
                    vars, linkVars, moneyVars
    <2> QED BY <1>1, <2>2, <2>3, <2>4 DEF doAction
<1>2. Spec => []Inv
    BY TypeCorrect, LinksInvariant, PTL DEF Inv
<1>3. Inv => [\A d \in Deposits : doAction(d) => AtRest(d)']_vars
    BY <1>1
<1> QED BY <1>2, <1>3, PTL DEF Spec
==============================================================================

-------------------------------- MODULE Vcon ---------------------------------
(***************************************************************************)
(* contracts/vcon/Vcon.sol: the governance token.  A holder may delegate   *)
(* the votes of its balance; every change of a delegate's votes is kept as *)
(* a checkpoint, at most one per block, and getPriorVotes searches them    *)
(* for the votes at the end of an earlier block.  Approvals and            *)
(* delegations may also be signed off chain and sent by anybody.           *)
(*                                                                         *)
(* A signature is a member of the set of messages signed so far; what      *)
(* ecrecover makes of anything else is an address nobody controls, which   *)
(* holds nothing, and is left out.  The clock is the block number; a       *)
(* deadline is a block number, too.                                        *)
(***************************************************************************)
EXTENDS Integers, FiniteSets, SequencesExt, FiniteSetsExt

CONSTANTS
    Accounts,
    ZeroAddress,
    InitialHolder,      \* constructor argument account
    InitialMinter,      \* constructor argument minter_
    InitialSupply,      \* one billion VCON
    MaxUint96,          \* 2^96 - 1
    MaxUint256,         \* 2^256 - 1, as an approval: no limit
    Amounts,            \* raw amounts minted and transferred
    Approvals,          \* raw amounts approved
    Minters,            \* what setMinter may be given
    Expiries,           \* deadlines a signer may set
    MaxNonce,           \* bound on the nonces a signer signs for
    MaxSigned,          \* bound on the messages signed
    MaxCredit,          \* bound on the sum of one spender's approvals (history)
    MaxBlock            \* bound on the clock

ASSUME VconAssumption ==
    /\ IsFiniteSet(Accounts) /\ ZeroAddress \notin Accounts
    /\ InitialHolder \in Accounts
    /\ InitialMinter \in Accounts \cup {ZeroAddress}
    /\ MaxUint96 \in Nat /\ MaxUint256 \in Nat /\ MaxUint96 < MaxUint256
    /\ InitialSupply \in 0..MaxUint96
    /\ Amounts \subseteq 0..MaxUint256 /\ Approvals \subseteq 0..MaxUint256
    /\ Minters \subseteq Accounts \cup {ZeroAddress}
    /\ Expiries \subseteq Nat
    /\ MaxNonce \in Nat /\ MaxSigned \in Nat
    /\ MaxCredit \in Nat /\ MaxBlock \in Nat

Addresses == Accounts \cup {ZeroAddress}

VARIABLES
    block,              \* block.number
    totalSupply,
    minter,
    balances,
    allowances,         \* [owner -> [spender -> amount]]
    credit,             \* history: [owner -> [spender -> all that was approved
                        \*   so far less all that was spent]], where limited
    unlimited,          \* history: owners and spenders without a limit, once
    delegates,
    checkpoints,        \* [account -> sequence of checkpoints]
    nonces,
    signed,             \* the messages that have been signed
    executed,           \* history: the signed messages carried out
    pastVotes           \* history: [account -> votes at the end of each
                        \*   block since deployment]

tokenVars == <<totalSupply, minter, balances>>
voteVars  == <<delegates, checkpoints>>
sigVars   == <<nonces, signed, executed>>
timeVars  == <<block, pastVotes>>
allowVars == <<allowances, credit, unlimited>>
vars      == <<tokenVars, allowVars, voteVars, sigVars, timeVars>>

Checkpoint == [fromBlock : Nat, votes : 0..MaxUint96]

Permits ==
    [type : {"Permit"}, owner : Accounts, spender : Accounts,
     rawAmount : Approvals, nonce : 0..MaxNonce, expiry : Expiries]

Delegations ==
    [type : {"Delegation"}, owner : Accounts, delegatee : Addresses,
     nonce : 0..MaxNonce, expiry : Expiries]

TypeOK ==
    /\ block \in Nat
    /\ totalSupply \in 0..MaxUint96
    /\ minter \in Addresses
    /\ balances \in [Accounts -> 0..MaxUint96]
    /\ allowances \in [Accounts -> [Accounts -> 0..MaxUint96]]
    /\ credit \in [Accounts -> [Accounts -> Int]]
    /\ unlimited \subseteq Accounts \X Accounts
    /\ delegates \in [Accounts -> Addresses]
    /\ checkpoints \in [Accounts -> Seq(Checkpoint)]
    /\ nonces \in [Accounts -> Nat]
    /\ signed \subseteq Permits \cup Delegations
    /\ executed \subseteq signed
    /\ pastVotes \in [Accounts -> Seq(0..MaxUint96)]

------------------------------------------------------------------------------
(* Votes *)

\* getCurrentVotes()
getCurrentVotes(a) ==
    IF checkpoints[a] = <<>> THEN 0 ELSE Last(checkpoints[a]).votes

\* Faulty variant: the search ends at the checkpoint above the block.
priorVotes_Upper(cps, blockNumber) ==
    LET search[range \in Nat \X Nat] ==
            LET lower  == range[1]
                upper  == range[2]
                center == lower + (upper - lower) \div 2
            IN  IF upper <= lower THEN cps[upper].votes
                ELSE IF cps[center].fromBlock < blockNumber
                THEN search[<<center + 1, upper>>]
                ELSE search[<<lower, center>>]
    IN  CASE cps = <<>> -> 0
          [] cps # <<>> /\ Last(cps).fromBlock <= blockNumber -> Last(cps).votes
          [] cps # <<>> /\ cps[1].fromBlock > blockNumber -> 0
          [] OTHER -> search[<<1, Len(cps)>>]

\* The search of getPriorVotes(), over the checkpoints of an account, in a
\* range of them.  The contract counts checkpoints from zero, a sequence from
\* one.
priorVotes(cps, blockNumber) ==
    LET search[range \in Nat \X Nat] ==
            LET lower  == range[1]
                upper  == range[2]
                center == upper - (upper - lower) \div 2
                cp     == cps[center]
            IN  IF upper <= lower THEN cps[lower].votes
                ELSE IF cp.fromBlock = blockNumber THEN cp.votes
                ELSE IF cp.fromBlock < blockNumber
                THEN search[<<center, upper>>]
                ELSE search[<<lower, center - 1>>]
    IN  CASE cps = <<>> -> 0
          [] cps # <<>> /\ Last(cps).fromBlock <= blockNumber -> Last(cps).votes
          [] cps # <<>> /\ cps[1].fromBlock > blockNumber -> 0
          [] OTHER -> search[<<1, Len(cps)>>]

\* getPriorVotes(): only for blocks before the present one.
getPriorVotes(a, blockNumber) == priorVotes(checkpoints[a], blockNumber)

\* Faulty variant: every write appends, also within a block.
written_Append(a, newVotes) ==
    Append(checkpoints[a], [fromBlock |-> block, votes |-> newVotes])

\* _writeCheckpoint(): one checkpoint per block, the last write counts.
written(a, newVotes) ==
    LET cps == checkpoints[a]
    IN  IF cps # <<>> /\ Last(cps).fromBlock = block
        THEN [cps EXCEPT ![Len(cps)].votes = newVotes]
        ELSE Append(cps, [fromBlock |-> block, votes |-> newVotes])

\* _moveDelegates(): reverts when a delegate's votes would leave uint96.
moveDelegates(srcRep, dstRep, amount) ==
    \/ (srcRep = dstRep \/ amount = 0) /\ UNCHANGED checkpoints
    \/ /\ srcRep # dstRep /\ amount > 0
       /\ srcRep # ZeroAddress => amount <= getCurrentVotes(srcRep)
       /\ dstRep # ZeroAddress => getCurrentVotes(dstRep) + amount <= MaxUint96
       /\ checkpoints' = [a \in Accounts |->
             CASE a = srcRep -> written(a, getCurrentVotes(a) - amount)
               [] a = dstRep -> written(a, getCurrentVotes(a) + amount)
               [] OTHER -> checkpoints[a]]

\* Faulty variant: the votes are left with the former delegate.
delegateTo_KeepsVotes(delegator, delegatee) ==
    /\ delegates' = [delegates EXCEPT ![delegator] = delegatee]
    /\ moveDelegates(ZeroAddress, delegatee, balances[delegator])

\* _delegate()
delegateTo(delegator, delegatee) ==
    /\ delegates' = [delegates EXCEPT ![delegator] = delegatee]
    /\ moveDelegates(delegates[delegator], delegatee, balances[delegator])

------------------------------------------------------------------------------
(* The token *)

\* Faulty variant: the recipient's votes are not raised.
transferTokens_SourceOnly(src, dst, amount) ==
    /\ amount <= balances[src]
    /\ balances' = [[balances EXCEPT ![src] = @ - amount]
                       EXCEPT ![dst] = @ + amount]
    /\ balances'[dst] <= MaxUint96
    /\ moveDelegates(delegates[src], ZeroAddress, amount)

\* Faulty variant: the balance of the sender is not compared.
transferTokens_Unchecked(src, dst, amount) ==
    /\ balances' = [[balances EXCEPT ![src] = @ - amount]
                       EXCEPT ![dst] = @ + amount]
    /\ balances'[dst] <= MaxUint96
    /\ moveDelegates(delegates[src], delegates[dst], amount)

\* _transferTokens(): the zero address can neither send nor receive.
transferTokens(src, dst, amount) ==
    /\ amount <= balances[src]
    /\ balances' = [[balances EXCEPT ![src] = @ - amount]
                       EXCEPT ![dst] = @ + amount]
    /\ balances'[dst] <= MaxUint96
    /\ moveDelegates(delegates[src], delegates[dst], amount)

\* transfer()
transfer(caller, dst, rawAmount) ==
    /\ rawAmount <= MaxUint96
    /\ transferTokens(caller, dst, rawAmount)
    /\ UNCHANGED <<totalSupply, minter, allowVars, delegates, sigVars,
                   timeVars>>

\* Faulty variant: the allowance is compared but not used up.
transferFrom_KeepsAllowance(caller, src, dst, rawAmount) ==
    /\ rawAmount <= MaxUint96
    /\ \/ /\ caller = src \/ allowances[src][caller] = MaxUint96
          /\ UNCHANGED credit
       \/ /\ caller # src /\ allowances[src][caller] # MaxUint96
          /\ rawAmount <= allowances[src][caller]
          /\ credit' = [credit EXCEPT ![src][caller] = @ - rawAmount]
    /\ transferTokens(src, dst, rawAmount)
    /\ UNCHANGED <<totalSupply, minter, allowances, unlimited, delegates,
                   sigVars, timeVars>>

\* transferFrom(): the largest allowance is never used up, and nobody needs one
\* from itself.
transferFrom(caller, src, dst, rawAmount) ==
    /\ rawAmount <= MaxUint96
    /\ \/ /\ caller = src \/ allowances[src][caller] = MaxUint96
          /\ UNCHANGED <<allowances, credit>>
       \/ /\ caller # src /\ allowances[src][caller] # MaxUint96
          /\ rawAmount <= allowances[src][caller]
          /\ allowances' = [allowances EXCEPT ![src][caller] = @ - rawAmount]
          /\ credit' = [credit EXCEPT ![src][caller] = @ - rawAmount]
    /\ transferTokens(src, dst, rawAmount)
    /\ UNCHANGED <<totalSupply, minter, unlimited, delegates, sigVars, timeVars>>

\* mint()
mint(caller, dst, rawAmount) ==
    /\ caller = minter
    /\ rawAmount <= MaxUint96
    /\ totalSupply + rawAmount <= MaxUint96
    /\ totalSupply' = totalSupply + rawAmount
    /\ balances[dst] + rawAmount <= MaxUint96
    /\ balances' = [balances EXCEPT ![dst] = @ + rawAmount]
    /\ moveDelegates(ZeroAddress, delegates[dst], rawAmount)
    /\ UNCHANGED <<minter, allowVars, delegates, sigVars, timeVars>>

\* setMinter(): the zero address ends minting for good.
setMinter(caller, newMinter) ==
    /\ caller = minter
    /\ minter' = newMinter
    /\ UNCHANGED <<totalSupply, balances, allowVars, voteVars, sigVars,
                   timeVars>>

\* The largest uint256 stands for the largest uint96.
approval(rawAmount) == IF rawAmount = MaxUint256 THEN MaxUint96 ELSE rawAmount

\* What approve() and permit() do: any other amount has to fit uint96.
setAllowance(owner, spender, rawAmount) ==
    /\ approval(rawAmount) <= MaxUint96
    /\ allowances' = [allowances EXCEPT ![owner][spender] = approval(rawAmount)]
    /\ \/ /\ approval(rawAmount) = MaxUint96
          /\ unlimited' = unlimited \cup {<<owner, spender>>}
          /\ UNCHANGED credit
       \/ /\ approval(rawAmount) < MaxUint96
          /\ credit' = [credit EXCEPT ![owner][spender] =
                                   @ + approval(rawAmount)]
          /\ UNCHANGED unlimited

\* approve()
approve(caller, spender, rawAmount) ==
    /\ setAllowance(caller, spender, rawAmount)
    /\ UNCHANGED <<tokenVars, voteVars, sigVars, timeVars>>

\* delegate()
delegate(caller, delegatee) ==
    /\ delegateTo(caller, delegatee)
    /\ UNCHANGED <<tokenVars, allowVars, sigVars, timeVars>>

------------------------------------------------------------------------------
(* Signed messages *)

\* A holder signs a message, off chain; signing again for a nonce is possible.
Sign(message) ==
    /\ signed' = signed \cup {message}
    /\ UNCHANGED <<tokenVars, allowVars, voteVars, nonces, executed, timeVars>>

\* Faulty variant: the nonce is compared but not used up.
useNonce_Keeps(message) ==
    /\ message \in signed
    /\ message.nonce = nonces[message.owner]
    /\ block <= message.expiry
    /\ executed' = executed \cup {message}
    /\ UNCHANGED <<nonces, signed>>

\* What permit() and delegateBySig() check of a message, and the nonce they
\* share.
useNonce(message) ==
    /\ message \in signed
    /\ message.nonce = nonces[message.owner]
    /\ block <= message.expiry
    /\ nonces' = [nonces EXCEPT ![message.owner] = @ + 1]
    /\ executed' = executed \cup {message}
    /\ UNCHANGED signed

\* permit(), sent by anybody
permit(message) ==
    /\ useNonce(message)
    /\ setAllowance(message.owner, message.spender, message.rawAmount)
    /\ UNCHANGED <<tokenVars, voteVars, timeVars>>

\* delegateBySig(), sent by anybody
delegateBySig(message) ==
    /\ useNonce(message)
    /\ delegateTo(message.owner, message.delegatee)
    /\ UNCHANGED <<tokenVars, allowVars, timeVars>>

------------------------------------------------------------------------------

\* The constructor, in block 1.
Init ==
    /\ block = 1
    /\ totalSupply = InitialSupply
    /\ minter = InitialMinter
    /\ balances = [a \in Accounts |-> IF a = InitialHolder THEN InitialSupply ELSE 0]
    /\ allowances = [a \in Accounts |-> [b \in Accounts |-> 0]]
    /\ credit = allowances
    /\ unlimited = {}
    /\ delegates = [a \in Accounts |-> ZeroAddress]
    /\ checkpoints = [a \in Accounts |-> <<>>]
    /\ nonces = [a \in Accounts |-> 0]
    /\ signed = {}
    /\ executed = {}
    /\ pastVotes = [a \in Accounts |-> <<>>]

\* A block ends and the next one begins.
NextBlock ==
    /\ block < MaxBlock
    /\ block' = block + 1
    /\ pastVotes' = [a \in Accounts |-> Append(pastVotes[a], getCurrentVotes(a))]
    /\ UNCHANGED <<tokenVars, allowVars, voteVars, sigVars>>

Next ==
    \/ NextBlock
    \/ \E c, d \in Accounts, n \in Amounts : transfer(c, d, n)
    \/ \E c, s, d \in Accounts, n \in Amounts : transferFrom(c, s, d, n)
    \/ \E c, d \in Accounts, n \in Amounts : mint(c, d, n)
    \/ \E c \in Accounts, m \in Minters : setMinter(c, m)
    \/ \E c, s \in Accounts, n \in Approvals :
          approve(c, s, n) /\ credit'[c][s] <= MaxCredit
    \/ \E c \in Accounts, d \in Addresses : delegate(c, d)
    \/ \E message \in Permits \cup Delegations :
          Sign(message) /\ Cardinality(signed') <= MaxSigned
    \/ \E message \in signed \cap Permits : permit(message)
    \/ \E message \in signed \cap Delegations : delegateBySig(message)

Spec == Init /\ [][Next]_vars

------------------------------------------------------------------------------
(***************************************************************************)
(* Properties.                                                             *)
(***************************************************************************)

\* The tokens of the accounts that delegate to a delegate.
DelegatedTo(d) ==
    MapThenSumSet(LAMBDA a : balances[a], {a \in Accounts : delegates[a] = d})

\* Every token that is delegated counts as one vote of its delegate: through
\* transfers to oneself, transfers between accounts of one delegate, minting,
\* and delegating again or to nobody.
VotesMatchBalances ==
    \A d \in Accounts : getCurrentVotes(d) = DelegatedTo(d)

\* Among the checkpoints of an account, the one that was the last at the end of
\* a block says v, or there was none yet and v is 0.
VotesAtEndOf(cps, b, v) ==
    \/ /\ \A i \in 1..Len(cps) : cps[i].fromBlock > b
       /\ v = 0
    \/ \E i \in 1..Len(cps) :
          /\ cps[i].fromBlock <= b
          /\ \A j \in (i + 1)..Len(cps) : cps[j].fromBlock > b
          /\ v = cps[i].votes

\* The checkpoints of an account are in the order of their blocks, one per
\* block, and keep the votes of the end of every past block for good: nothing
\* that happens later rewrites them.
CheckpointsKeepHistory ==
    \A a \in Accounts :
        /\ \A i, j \in 1..Len(checkpoints[a]) : i < j =>
              checkpoints[a][i].fromBlock < checkpoints[a][j].fromBlock
        /\ \A b \in 1..(block - 1) :
              VotesAtEndOf(checkpoints[a], b, pastVotes[a][b])

\* getPriorVotes() answers what getCurrentVotes() was when that block ended,
\* for every block before the present one: the search finds the checkpoint,
\* with one, two or more of them before and after the block asked for.
PriorVotesAreHistory ==
    \A a \in Accounts, b \in 0..(block - 1) :
        getPriorVotes(a, b) = IF b = 0 THEN 0 ELSE pastVotes[a][b]

\* Vote keeping never gets in the way of the token: whoever has the tokens can
\* transfer them, and neither overflow nor underflow of a delegate's votes can
\* revert the transfer.
TransfersNeverBlocked ==
    \A c, d \in Accounts, n \in Amounts :
        n <= balances[c] => ENABLED transfer(c, d, n)

\* A spender never moves more of an owner's tokens than the owner approved in
\* all, by whatever mixture of approvals, permits and transfers, and what it may
\* still move is part of that; the largest amount approves without a limit.
SpendingIsApproved ==
    \A o, s \in Accounts :
        <<o, s>> \notin unlimited => allowances[o][s] <= credit[o][s]

\* A signed message takes effect once at most, and of several messages signed
\* for one nonce, permits or delegations, only one takes effect.
ExecutedOncePerNonce ==
    \A a \in Accounts :
        nonces[a] = Cardinality({m \in executed : m.owner = a})
==============================================================================

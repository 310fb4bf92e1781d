----------------------------- MODULE VconProofs ------------------------------
(***************************************************************************)
(* Proofs about Vcon, for any accounts, amounts and bounds: its types, the *)
(* limit on spenders, that a signed message takes effect once at most, the *)
(* history its checkpoints keep and the search that reads it, and that the *)
(* votes are the delegated tokens, so that no transfer is ever blocked, no *)
(* token votes twice and the answer for a past block is final.             *)
(*                                                                         *)
(* The model defines the search by recursion, and the library sums over    *)
(* sets by recursion; that such definitions define something is proved     *)
(* here as well, each by a smallest counterexample.                        *)
(***************************************************************************)
EXTENDS Vcon, FiniteSetTheorems, WellFoundedInduction, TLAPS

\* A set of natural numbers that is not empty has a smallest member.
LEMMA NatSmallest ==
    ASSUME NEW T, T \subseteq Nat, T # {}
    PROVE  \E x \in T : \A y \in T : x <= y
<1>1. PICK x \in T : \A y \in T : ~(<<y, x>> \in OpToRel(<, Nat))
  BY NatLessThanWellFounded, WFMin
<1>2. ASSUME NEW y \in T PROVE x <= y
  <2>1. ~(y < x)
    BY <1>1, <1>2 DEF OpToRel
  <2>. QED
    BY <2>1, <1>2
<1>. QED
  BY <1>2

\* The votes of a delegate are those of its last checkpoint.
LEMMA CurrentVotesType ==
    ASSUME TypeOK, NEW a \in Accounts
    PROVE  /\ getCurrentVotes(a) \in 0..MaxUint96
           /\ checkpoints[a] # <<>> => Len(checkpoints[a]) \in 1..Len(checkpoints[a])
<1>. DEFINE cps == checkpoints[a]
<1>1. cps \in Seq(Checkpoint)
  BY DEF TypeOK
<1>2. CASE cps = <<>>
  BY <1>2, VconAssumption DEF getCurrentVotes
<1>3. CASE cps # <<>>
  <2>1. Len(cps) \in 1..Len(cps)
    BY <1>1, <1>3
  <2>2. cps[Len(cps)] \in Checkpoint
    BY <1>1, <2>1
  <2>. QED
    BY <1>3, <2>1, <2>2 DEF getCurrentVotes, Checkpoint, Last
<1>. QED
  BY <1>2, <1>3

\* Writing a checkpoint replaces the last one or adds one.
LEMMA WrittenShape ==
    ASSUME TypeOK, NEW a \in Accounts, NEW v \in 0..MaxUint96
    PROVE  LET cps == checkpoints[a]
               new == written(a, v)
           IN  /\ new \in Seq(Checkpoint)
               /\ Len(new) \in {Len(cps), Len(cps) + 1} /\ Len(new) > 0
               /\ new[Len(new)] = [fromBlock |-> block, votes |-> v]
               /\ \A i \in 1..(Len(new) - 1) : i \in 1..Len(cps) /\ new[i] = cps[i]
               /\ Len(new) = Len(cps) => cps[Len(cps)].fromBlock = block
               /\ Len(new) > Len(cps) /\ Len(cps) > 0
                     => cps[Len(cps)].fromBlock # block
<1>. DEFINE cps == checkpoints[a]
            new == written(a, v)
            cp  == [fromBlock |-> block, votes |-> v]
<1>1. cps \in Seq(Checkpoint) /\ block \in Nat /\ cp \in Checkpoint
  BY DEF TypeOK, Checkpoint
<1>2. CASE cps # <<>> /\ Last(cps).fromBlock = block
  <2>1. Len(cps) \in 1..Len(cps) /\ cps[Len(cps)] \in Checkpoint
    BY <1>1, <1>2
  <2>2. new = [cps EXCEPT ![Len(cps)] = [cps[Len(cps)] EXCEPT !.votes = v]]
    BY <1>2 DEF written
  <2>3. [cps[Len(cps)] EXCEPT !.votes = v] = cp
    BY <2>1, <1>2 DEF Checkpoint, Last
  <2>. QED
    BY <1>1, <1>2, <2>1, <2>2, <2>3 DEF Last
<1>3. CASE ~(cps # <<>> /\ Last(cps).fromBlock = block)
  <2>1. new = Append(cps, cp)
    BY <1>3 DEF written
  <2>2. Len(cps) > 0 => cps[Len(cps)].fromBlock # block
    BY <1>1, <1>3 DEF Last
  <2>. QED
    BY <1>1, <2>1, <2>2
<1>. QED
  BY <1>2, <1>3

\* What a change of votes does to the checkpoints of one account.
LEMMA MoveShape ==
    ASSUME TypeOK,
           NEW srcRep \in Addresses, NEW dstRep \in Addresses,
           NEW amount \in 0..MaxUint96, moveDelegates(srcRep, dstRep, amount),
           NEW a \in Accounts
    PROVE  /\ checkpoints' = [x \in Accounts |-> checkpoints'[x]]
           /\ \/ checkpoints'[a] = checkpoints[a]
              \/ \E v \in 0..MaxUint96 : checkpoints'[a] = written(a, v)
<1>. USE VconAssumption
<1>1. CASE (srcRep = dstRep \/ amount = 0) /\ UNCHANGED checkpoints
  BY <1>1 DEF TypeOK
<1>2. CASE ~((srcRep = dstRep \/ amount = 0) /\ UNCHANGED checkpoints)
  <2>. DEFINE New(x) == CASE x = srcRep -> written(x, getCurrentVotes(x) - amount)
                          [] x = dstRep -> written(x, getCurrentVotes(x) + amount)
                          [] OTHER -> checkpoints[x]
  <2>1. /\ srcRep # dstRep
        /\ srcRep # ZeroAddress => amount <= getCurrentVotes(srcRep)
        /\ dstRep # ZeroAddress => getCurrentVotes(dstRep) + amount <= MaxUint96
        /\ checkpoints' = [x \in Accounts |-> New(x)]
    BY <1>2 DEF moveDelegates
  <2>2. getCurrentVotes(a) \in 0..MaxUint96
    BY CurrentVotesType
  <2>3. CASE a = srcRep
    <3>1. getCurrentVotes(a) - amount \in 0..MaxUint96
      BY <2>1, <2>2, <2>3
    <3>. QED
      BY <2>1, <2>3, <3>1
  <2>4. CASE a = dstRep /\ a # srcRep
    <3>1. getCurrentVotes(a) + amount \in 0..MaxUint96
      BY <2>1, <2>2, <2>4
    <3>. QED
      BY <2>1, <2>4, <3>1
  <2>5. CASE a # dstRep /\ a # srcRep
    BY <2>1, <2>5
  <2>. QED
    BY <2>1, <2>3, <2>4, <2>5
<1>. QED
  BY <1>1, <1>2

\* The checkpoints stay sequences of checkpoints.
LEMMA MoveType ==
    ASSUME TypeOK,
           NEW srcRep \in Addresses, NEW dstRep \in Addresses,
           NEW amount \in 0..MaxUint96, moveDelegates(srcRep, dstRep, amount)
    PROVE  checkpoints' \in [Accounts -> Seq(Checkpoint)]
<1>1. ASSUME NEW a \in Accounts PROVE checkpoints'[a] \in Seq(Checkpoint)
  <2>1. CASE checkpoints'[a] = checkpoints[a]
    BY <2>1 DEF TypeOK
  <2>2. CASE \E v \in 0..MaxUint96 : checkpoints'[a] = written(a, v)
    <3>1. ASSUME NEW v \in 0..MaxUint96 PROVE written(a, v) \in Seq(Checkpoint)
      BY <3>1, WrittenShape
    <3>. QED
      BY <2>2, <3>1
  <2>. QED
    BY <2>1, <2>2, MoveShape
<1>2. checkpoints' = [x \in Accounts |-> checkpoints'[x]]
  BY VconAssumption, MoveShape
<1>. QED
  BY <1>1, <1>2

\* Delegating changes nothing but the delegate and the checkpoints.
LEMMA DelegateType ==
    ASSUME TypeOK, NEW a \in Accounts, NEW d \in Addresses, delegateTo(a, d)
    PROVE  /\ delegates' \in [Accounts -> Addresses]
           /\ checkpoints' \in [Accounts -> Seq(Checkpoint)]
<1>1. delegates[a] \in Addresses /\ balances[a] \in 0..MaxUint96
  BY DEF TypeOK
<1>2. moveDelegates(delegates[a], d, balances[a])
  BY DEF delegateTo
<1>3. checkpoints' \in [Accounts -> Seq(Checkpoint)]
  BY <1>1, <1>2, MoveType
<1>. QED
  BY <1>3 DEF delegateTo, TypeOK

\* A transfer leaves every balance within uint96.
LEMMA TransferType ==
    ASSUME TypeOK, NEW src \in Accounts, NEW dst \in Accounts,
           NEW amount \in 0..MaxUint96, transferTokens(src, dst, amount)
    PROVE  /\ balances' \in [Accounts -> 0..MaxUint96]
           /\ checkpoints' \in [Accounts -> Seq(Checkpoint)]
<1>. USE VconAssumption
<1>1. delegates[src] \in Addresses /\ delegates[dst] \in Addresses
  BY DEF TypeOK
<1>2. moveDelegates(delegates[src], delegates[dst], amount)
  BY DEF transferTokens
<1>3. checkpoints' \in [Accounts -> Seq(Checkpoint)]
  BY <1>1, <1>2, MoveType
<1>4. balances' \in [Accounts -> 0..MaxUint96]
  <2>1. balances \in [Accounts -> 0..MaxUint96]
    BY DEF TypeOK
  <2>2. CASE src = dst
    BY <2>1, <2>2 DEF transferTokens
  <2>3. CASE src # dst
    BY <2>1, <2>3 DEF transferTokens
  <2>. QED
    BY <2>2, <2>3
<1>. QED
  BY <1>3, <1>4

\* Updating one entry of a table of two indices.
LEMMA TableUpdate ==
    ASSUME NEW S, NEW T, NEW table \in [S -> [S -> T]],
           NEW x \in S, NEW y \in S, NEW v \in T
    PROVE  LET new == [table EXCEPT ![x][y] = v]
           IN  /\ new \in [S -> [S -> T]]
               /\ \A i, j \in S : new[i][j] = IF i = x /\ j = y THEN v
                                              ELSE table[i][j]
<1>1. [table[x] EXCEPT ![y] = v] \in [S -> T]
  OBVIOUS
<1>2. [table EXCEPT ![x][y] = v] = [table EXCEPT ![x] = [table[x] EXCEPT ![y] = v]]
  OBVIOUS
<1>. QED
  BY <1>1, <1>2

\* An approval stays within uint96, and the history counts it.
LEMMA AllowanceType ==
    ASSUME TypeOK, NEW o \in Accounts, NEW s \in Accounts,
           NEW n \in Approvals, setAllowance(o, s, n)
    PROVE  /\ allowances' \in [Accounts -> [Accounts -> 0..MaxUint96]]
           /\ credit' \in [Accounts -> [Accounts -> Int]]
           /\ unlimited' \subseteq Accounts \X Accounts
<1>1. approval(n) \in 0..MaxUint96
  BY VconAssumption DEF approval, setAllowance
<1>2. /\ allowances \in [Accounts -> [Accounts -> 0..MaxUint96]]
      /\ credit \in [Accounts -> [Accounts -> Int]]
      /\ unlimited \subseteq Accounts \X Accounts
  BY DEF TypeOK
<1>3. [allowances EXCEPT ![o][s] = approval(n)]
         \in [Accounts -> [Accounts -> 0..MaxUint96]]
  BY <1>1, <1>2, TableUpdate
<1>4. credit[o][s] + approval(n) \in Int
  BY <1>1, <1>2, VconAssumption
<1>5. [credit EXCEPT ![o][s] = credit[o][s] + approval(n)]
         \in [Accounts -> [Accounts -> Int]]
  BY <1>2, <1>4, TableUpdate
<1>6. allowances' \in [Accounts -> [Accounts -> 0..MaxUint96]]
  BY <1>3 DEF setAllowance
<1>7. credit' \in [Accounts -> [Accounts -> Int]]
  BY <1>2, <1>5 DEF setAllowance
<1>8. unlimited' \subseteq Accounts \X Accounts
  BY <1>2 DEF setAllowance
<1>. QED
  BY <1>6, <1>7, <1>8

\* What is spent comes off the allowance, and the history counts it.
LEMMA SpendType ==
    ASSUME TypeOK, NEW o \in Accounts, NEW s \in Accounts,
           NEW n \in Nat, n <= allowances[o][s],
           allowances' = [allowances EXCEPT ![o][s] = allowances[o][s] - n],
           credit' = [credit EXCEPT ![o][s] = credit[o][s] - n]
    PROVE  /\ allowances' \in [Accounts -> [Accounts -> 0..MaxUint96]]
           /\ credit' \in [Accounts -> [Accounts -> Int]]
<1>1. allowances \in [Accounts -> [Accounts -> 0..MaxUint96]]
  BY DEF TypeOK
<1>2. credit \in [Accounts -> [Accounts -> Int]]
  BY DEF TypeOK
<1>3. allowances[o][s] - n \in 0..MaxUint96
  BY <1>1, VconAssumption
<1>4. credit[o][s] - n \in Int
  BY <1>2
<1>5. [allowances EXCEPT ![o][s] = allowances[o][s] - n]
         \in [Accounts -> [Accounts -> 0..MaxUint96]]
  BY <1>1, <1>3, TableUpdate
<1>6. [credit EXCEPT ![o][s] = credit[o][s] - n]
         \in [Accounts -> [Accounts -> Int]]
  BY <1>2, <1>4, TableUpdate
<1>. QED
  BY <1>5, <1>6

\* A message that is carried out was signed, and uses a nonce up.
LEMMA NonceType ==
    ASSUME TypeOK, NEW message \in signed, useNonce(message)
    PROVE  /\ message.owner \in Accounts
           /\ nonces' \in [Accounts -> Nat]
           /\ signed' \subseteq Permits \cup Delegations
           /\ executed' \subseteq signed'
<1>1. message.owner \in Accounts
  BY DEF TypeOK, Permits, Delegations
<1>2. nonces' \in [Accounts -> Nat]
  <2>1. /\ nonces \in [Accounts -> Nat]
        /\ nonces' = [nonces EXCEPT ![message.owner] = nonces[message.owner] + 1]
    BY DEF useNonce, TypeOK
  <2>2. nonces[message.owner] + 1 \in Nat
    BY <1>1, <2>1
  <2>. QED
    BY <1>1, <2>1, <2>2
<1>3. /\ signed' = signed /\ executed' = executed \cup {message}
      /\ signed \subseteq Permits \cup Delegations /\ executed \subseteq signed
  BY DEF useNonce, TypeOK
<1>. QED
  BY <1>1, <1>2, <1>3

\* Every step keeps the types.
LEMMA TypeStep ==
    ASSUME TypeOK, [Next]_vars
    PROVE  TypeOK'
<1>. USE VconAssumption
<1>. USE DEF tokenVars, allowVars, voteVars, sigVars, timeVars
<1>1. CASE UNCHANGED vars
  BY <1>1 DEF TypeOK, vars
<1>2. CASE NextBlock
  <2>1. ASSUME NEW a \in Accounts
        PROVE  Append(pastVotes[a], getCurrentVotes(a)) \in Seq(0..MaxUint96)
    <3>1. pastVotes[a] \in Seq(0..MaxUint96)
      BY <2>1 DEF TypeOK
    <3>2. getCurrentVotes(a) \in 0..MaxUint96
      BY <2>1, CurrentVotesType
    <3>. QED
      BY <3>1, <3>2
  <2>2. pastVotes' \in [Accounts -> Seq(0..MaxUint96)]
    BY <1>2, <2>1 DEF NextBlock
  <2>3. block' \in Nat
    BY <1>2 DEF NextBlock, TypeOK
  <2>. QED
    BY <1>2, <2>2, <2>3 DEF NextBlock, TypeOK
<1>3. ASSUME NEW c \in Accounts, NEW d \in Accounts, NEW n \in Amounts,
             transfer(c, d, n)
      PROVE  TypeOK'
  <2>1. n \in 0..MaxUint96 /\ transferTokens(c, d, n)
    BY <1>3 DEF transfer
  <2>. QED
    BY <1>3, <2>1, TransferType DEF transfer, TypeOK
<1>4. ASSUME NEW c \in Accounts, NEW s \in Accounts, NEW d \in Accounts,
             NEW n \in Amounts, transferFrom(c, s, d, n)
      PROVE  TypeOK'
  <2>1. n \in 0..MaxUint96 /\ transferTokens(s, d, n)
    BY <1>4 DEF transferFrom
  <2>2. /\ balances' \in [Accounts -> 0..MaxUint96]
        /\ checkpoints' \in [Accounts -> Seq(Checkpoint)]
    BY <2>1, TransferType
  <2>3. CASE UNCHANGED <<allowances, credit>>
    BY <1>4, <2>2, <2>3 DEF transferFrom, TypeOK
  <2>4. CASE ~ UNCHANGED <<allowances, credit>>
    <3>1. /\ n <= allowances[s][c]
          /\ allowances' = [allowances EXCEPT ![s][c] = allowances[s][c] - n]
          /\ credit' = [credit EXCEPT ![s][c] = credit[s][c] - n]
      BY <1>4, <2>4 DEF transferFrom
    <3>2. /\ allowances' \in [Accounts -> [Accounts -> 0..MaxUint96]]
          /\ credit' \in [Accounts -> [Accounts -> Int]]
      <4>1. n \in Nat
        BY <2>1
      <4>. QED
        BY ONLY TypeOK, c \in Accounts, s \in Accounts, <4>1, <3>1, SpendType
    <3>3. UNCHANGED <<totalSupply, minter, unlimited, delegates, nonces,
                      signed, executed, block, pastVotes>>
      BY <1>4 DEF transferFrom
    <3>. QED
      BY <2>2, <3>2, <3>3 DEF TypeOK
  <2>. QED
    BY <2>3, <2>4
<1>5. ASSUME NEW c \in Accounts, NEW d \in Accounts, NEW n \in Amounts,
             mint(c, d, n)
      PROVE  TypeOK'
  <2>1. /\ n \in 0..MaxUint96 /\ moveDelegates(ZeroAddress, delegates[d], n)
        /\ delegates[d] \in Addresses /\ ZeroAddress \in Addresses
    BY <1>5 DEF mint, TypeOK, Addresses
  <2>2. checkpoints' \in [Accounts -> Seq(Checkpoint)]
    BY <2>1, MoveType
  <2>3. balances' \in [Accounts -> 0..MaxUint96]
    <3>1. /\ balances[d] + n <= MaxUint96
          /\ balances' = [balances EXCEPT ![d] = balances[d] + n]
      BY <1>5 DEF mint
    <3>2. balances \in [Accounts -> 0..MaxUint96]
      BY DEF TypeOK
    <3>3. balances[d] + n \in 0..MaxUint96
      BY <2>1, <3>1, <3>2
    <3>. QED
      BY <3>1, <3>2, <3>3
  <2>4. totalSupply' \in 0..MaxUint96
    BY <1>5, <2>1 DEF mint, TypeOK
  <2>. QED
    BY <1>5, <2>2, <2>3, <2>4 DEF mint, TypeOK
<1>6. ASSUME NEW c \in Accounts, NEW m \in Minters, setMinter(c, m)
      PROVE  TypeOK'
  BY <1>6 DEF setMinter, TypeOK, Addresses
<1>7. ASSUME NEW c \in Accounts, NEW s \in Accounts, NEW n \in Approvals,
             approve(c, s, n)
      PROVE  TypeOK'
  <2>1. setAllowance(c, s, n)
    BY <1>7 DEF approve
  <2>. QED
    BY <1>7, <2>1, AllowanceType DEF approve, TypeOK
<1>8. ASSUME NEW c \in Accounts, NEW d \in Addresses, delegate(c, d)
      PROVE  TypeOK'
  <2>1. delegateTo(c, d)
    BY <1>8 DEF delegate
  <2>. QED
    BY <1>8, <2>1, DelegateType DEF delegate, TypeOK
<1>9. ASSUME NEW message \in Permits \cup Delegations, Sign(message)
      PROVE  TypeOK'
  BY <1>9 DEF Sign, TypeOK
<1>10. ASSUME NEW message \in signed \cap Permits, permit(message)
       PROVE  TypeOK'
  <2>1. /\ useNonce(message)
        /\ setAllowance(message.owner, message.spender, message.rawAmount)
        /\ message.owner \in Accounts /\ message.spender \in Accounts
        /\ message.rawAmount \in Approvals
    BY <1>10 DEF permit, Permits
  <2>2. /\ nonces' \in [Accounts -> Nat]
        /\ signed' \subseteq Permits \cup Delegations
        /\ executed' \subseteq signed'
    BY <2>1, NonceType
  <2>3. /\ allowances' \in [Accounts -> [Accounts -> 0..MaxUint96]]
        /\ credit' \in [Accounts -> [Accounts -> Int]]
        /\ unlimited' \subseteq Accounts \X Accounts
    BY <2>1, AllowanceType
  <2>. QED
    BY <1>10, <2>2, <2>3 DEF permit, TypeOK
<1>11. ASSUME NEW message \in signed \cap Delegations, delegateBySig(message)
       PROVE  TypeOK'
  <2>1. /\ useNonce(message)
        /\ delegateTo(message.owner, message.delegatee)
        /\ message.owner \in Accounts /\ message.delegatee \in Addresses
    BY <1>11 DEF delegateBySig, Delegations
  <2>2. /\ nonces' \in [Accounts -> Nat]
        /\ signed' \subseteq Permits \cup Delegations
        /\ executed' \subseteq signed'
    BY <2>1, NonceType
  <2>3. /\ delegates' \in [Accounts -> Addresses]
        /\ checkpoints' \in [Accounts -> Seq(Checkpoint)]
    BY <2>1, DelegateType
  <2>. QED
    BY <1>11, <2>2, <2>3 DEF delegateBySig, TypeOK
<1>. QED
  BY <1>1, <1>2, <1>3, <1>4, <1>5, <1>6, <1>7, <1>8, <1>9, <1>10, <1>11
  DEF Next

\* The constructor gives every variable its type.
LEMMA TypeInit == Init => TypeOK
<1>. USE VconAssumption DEF Init, TypeOK, Addresses
<1>1. SUFFICES ASSUME Init PROVE TypeOK
  OBVIOUS
<1>2. balances \in [Accounts -> 0..MaxUint96]
  BY <1>1
<1>3. /\ allowances \in [Accounts -> [Accounts -> 0..MaxUint96]]
      /\ credit \in [Accounts -> [Accounts -> Int]]
  BY <1>1
<1>. QED
  BY <1>1, <1>2, <1>3

\* Every reachable state is well typed: balances, allowances and votes stay
\* within uint96, and only what was signed has been executed.
THEOREM TypeCorrect == Spec => []TypeOK
<1>1. TypeOK /\ [Next]_vars => TypeOK'
  BY TypeStep
<1>. QED
  BY TypeInit, <1>1, PTL DEF Spec

------------------------------------------------------------------------------
(* Allowances *)

\* An approval raises what was approved by at least the new allowance, as long
\* as nothing was approved without a limit.
LEMMA ApprovalIsCounted ==
    ASSUME TypeOK, SpendingIsApproved, NEW o \in Accounts, NEW s \in Accounts,
           NEW n \in Approvals, setAllowance(o, s, n)
    PROVE  SpendingIsApproved'
<1>1. approval(n) \in 0..MaxUint96
  BY VconAssumption DEF approval, setAllowance
<1>2. /\ allowances \in [Accounts -> [Accounts -> 0..MaxUint96]]
      /\ credit \in [Accounts -> [Accounts -> Int]]
  BY DEF TypeOK
<1>3. SUFFICES ASSUME NEW x \in Accounts, NEW y \in Accounts,
                      <<x, y>> \notin unlimited'
               PROVE  allowances'[x][y] <= credit'[x][y]
  BY DEF SpendingIsApproved
<1>4. <<x, y>> \notin unlimited
  BY <1>3 DEF setAllowance
<1>5. /\ allowances[x][y] \in 0..MaxUint96 /\ credit[x][y] \in Int
      /\ allowances[x][y] <= credit[x][y]
  BY <1>2, <1>4 DEF SpendingIsApproved
<1>6. allowances'[x][y] = IF x = o /\ y = s THEN approval(n) ELSE allowances[x][y]
  BY <1>1, <1>2, TableUpdate DEF setAllowance
<1>7. CASE x = o /\ y = s
  <2>1. credit' = [credit EXCEPT ![o][s] = credit[o][s] + approval(n)]
    BY <1>3, <1>7 DEF setAllowance
  <2>2. credit'[x][y] = credit[x][y] + approval(n)
    BY <1>2, <1>7, <2>1
  <2>. QED
    BY <1>1, <1>5, <1>6, <1>7, <2>2
<1>8. CASE ~(x = o /\ y = s)
  <2>1. credit'[x][y] = credit[x][y]
    BY <1>2, <1>8 DEF setAllowance
  <2>. QED
    BY <1>5, <1>6, <1>8, <2>1
<1>. QED
  BY <1>7, <1>8

\* Spending lowers the allowance and what was approved by the same amount.
LEMMA SpendingIsCounted ==
    ASSUME TypeOK, SpendingIsApproved, NEW o \in Accounts, NEW s \in Accounts,
           NEW n \in Nat, UNCHANGED unlimited,
           allowances' = [allowances EXCEPT ![o][s] = allowances[o][s] - n],
           credit' = [credit EXCEPT ![o][s] = credit[o][s] - n]
    PROVE  SpendingIsApproved'
<1>1. /\ allowances \in [Accounts -> [Accounts -> 0..MaxUint96]]
      /\ credit \in [Accounts -> [Accounts -> Int]]
  BY DEF TypeOK
<1>2. SUFFICES ASSUME NEW x \in Accounts, NEW y \in Accounts,
                      <<x, y>> \notin unlimited
               PROVE  allowances'[x][y] <= credit'[x][y]
  BY DEF SpendingIsApproved
<1>3. /\ allowances[x][y] \in Int /\ credit[x][y] \in Int
      /\ allowances[x][y] <= credit[x][y]
  BY <1>1, <1>2, VconAssumption DEF SpendingIsApproved
<1>4. CASE x = o /\ y = s
  <2>1. /\ allowances'[x][y] = allowances[x][y] - n
        /\ credit'[x][y] = credit[x][y] - n
    BY <1>1, <1>4
  <2>. QED
    BY <1>3, <2>1
<1>5. CASE ~(x = o /\ y = s)
  <2>1. /\ allowances'[x][y] = allowances[x][y]
        /\ credit'[x][y] = credit[x][y]
    BY <1>1, <1>5
  <2>. QED
    BY <1>3, <2>1
<1>. QED
  BY <1>4, <1>5

\* What a spender may still move of an owner's tokens, with what it has moved,
\* is never more than the owner approved in all: approve(), permit() and
\* transferFrom() in any order, for all amounts.
THEOREM SpendingWithinApprovals == Spec => []SpendingIsApproved
<1>1. Init => SpendingIsApproved
  BY VconAssumption DEF Init, SpendingIsApproved
<1>2. TypeOK /\ SpendingIsApproved /\ [Next]_vars => SpendingIsApproved'
  <2>. SUFFICES ASSUME TypeOK, SpendingIsApproved, [Next]_vars
                PROVE  SpendingIsApproved'
    OBVIOUS
  <2>1. CASE UNCHANGED allowVars
    BY <2>1 DEF allowVars, SpendingIsApproved
  <2>2. ASSUME NEW c \in Accounts, NEW s \in Accounts, NEW d \in Accounts,
               NEW n \in Amounts, transferFrom(c, s, d, n), ~ UNCHANGED allowVars
        PROVE  SpendingIsApproved'
    <3>1. /\ n \in Nat /\ UNCHANGED unlimited
          /\ allowances' = [allowances EXCEPT ![s][c] = allowances[s][c] - n]
          /\ credit' = [credit EXCEPT ![s][c] = credit[s][c] - n]
      BY <2>2, VconAssumption DEF transferFrom, allowVars
    <3>. QED
      BY ONLY TypeOK, SpendingIsApproved, c \in Accounts, s \in Accounts, <3>1,
              SpendingIsCounted
  <2>3. ASSUME NEW c \in Accounts, NEW s \in Accounts, NEW n \in Approvals,
               approve(c, s, n)
        PROVE  SpendingIsApproved'
    BY <2>3, ApprovalIsCounted DEF approve
  <2>4. ASSUME NEW message \in signed \cap Permits, permit(message)
        PROVE  SpendingIsApproved'
    <3>1. /\ setAllowance(message.owner, message.spender, message.rawAmount)
          /\ message.owner \in Accounts /\ message.spender \in Accounts
          /\ message.rawAmount \in Approvals
      BY <2>4 DEF permit, Permits
    <3>. QED
      BY <3>1, ApprovalIsCounted
  <2>5. CASE UNCHANGED vars
    BY <2>1, <2>5 DEF vars
  <2>6. ASSUME NEW c \in Accounts, NEW d \in Accounts, NEW n \in Amounts,
               transfer(c, d, n) \/ mint(c, d, n)
        PROVE  UNCHANGED allowVars
    BY <2>6 DEF transfer, mint
  <2>7. ASSUME NextBlock \/ (\E c \in Accounts, m \in Minters : setMinter(c, m))
               \/ (\E c \in Accounts, d \in Addresses : delegate(c, d))
        PROVE  UNCHANGED allowVars
    BY <2>7 DEF NextBlock, setMinter, delegate
  <2>8. ASSUME (\E message \in Permits \cup Delegations : Sign(message))
               \/ (\E message \in signed \cap Delegations : delegateBySig(message))
        PROVE  UNCHANGED allowVars
    BY <2>8 DEF Sign, delegateBySig
  <2>. QED
    BY <2>1, <2>2, <2>3, <2>4, <2>5, <2>6, <2>7, <2>8 DEF Next
<1>. QED
  BY TypeCorrect, <1>1, <1>2, PTL DEF Spec

------------------------------------------------------------------------------
(* Signed messages *)

\* What keeps a message from taking effect a second time: the nonces of the
\* messages carried out are below the account's present nonce.
ExecutedOf(a) == {m \in executed : m.owner = a}

NoncesUsedUp ==
    /\ IsFiniteSet(executed)
    /\ \A m \in executed : m.nonce < nonces[m.owner]

\* Carrying out a message keeps the nonces in step with what was carried out.
LEMMA NonceIsUsedUp ==
    ASSUME TypeOK, ExecutedOncePerNonce, NoncesUsedUp,
           NEW message \in signed, useNonce(message)
    PROVE  ExecutedOncePerNonce' /\ NoncesUsedUp'
<1>. DEFINE o == message.owner
<1>1. /\ o \in Accounts /\ message.nonce = nonces[o]
      /\ nonces \in [Accounts -> Nat]
      /\ nonces' = [nonces EXCEPT ![o] = nonces[o] + 1]
      /\ executed' = executed \cup {message}
  BY DEF useNonce, TypeOK, Permits, Delegations
<1>2. ASSUME NEW m \in executed
      PROVE  m.owner \in Accounts /\ m.nonce \in Nat /\ m.nonce < nonces[m.owner]
  BY <1>2, VconAssumption DEF TypeOK, Permits, Delegations, NoncesUsedUp
<1>3. message \notin executed
  BY <1>1, <1>2
<1>4. IsFiniteSet(executed')
  BY <1>1, FS_AddElement DEF NoncesUsedUp
<1>5. ASSUME NEW m \in executed' PROVE m.nonce < nonces'[m.owner]
  <2>1. CASE m = message
    BY <1>1, <2>1
  <2>2. CASE m \in executed
    BY <1>1, <1>2, <2>2
  <2>. QED
    BY <1>1, <1>5, <2>1, <2>2
<1>6. ASSUME NEW a \in Accounts
      PROVE  nonces'[a] = Cardinality(ExecutedOf(a)')
  <2>1. /\ nonces[a] = Cardinality(ExecutedOf(a))
        /\ IsFiniteSet(ExecutedOf(a))
    BY <1>6, FS_Subset DEF ExecutedOncePerNonce, NoncesUsedUp, ExecutedOf
  <2>2. CASE a = o
    <3>1. ExecutedOf(a)' = ExecutedOf(a) \cup {message}
      BY <1>1, <2>2 DEF ExecutedOf
    <3>2. message \notin ExecutedOf(a)
      BY <1>3 DEF ExecutedOf
    <3>3. Cardinality(ExecutedOf(a)') = Cardinality(ExecutedOf(a)) + 1
      BY <2>1, <3>1, <3>2, FS_AddElement
    <3>. QED
      BY <1>1, <2>1, <2>2, <3>3
  <2>3. CASE a # o
    <3>1. ExecutedOf(a)' = ExecutedOf(a)
      BY <1>1, <2>3 DEF ExecutedOf
    <3>. QED
      BY <1>1, <2>1, <2>3, <3>1
  <2>. QED
    BY <2>2, <2>3
<1>. QED
  BY <1>4, <1>5, <1>6 DEF ExecutedOncePerNonce, NoncesUsedUp, ExecutedOf

\* Each account's nonce counts the messages of its that took effect: no message
\* takes effect twice, and of several signed for one nonce only one does,
\* however permits and delegations are mixed and whoever sends them.
THEOREM NoReplay == Spec => []ExecutedOncePerNonce
<1>1. Init => ExecutedOncePerNonce /\ NoncesUsedUp
  <2>. SUFFICES ASSUME Init PROVE ExecutedOncePerNonce /\ NoncesUsedUp
    OBVIOUS
  <2>1. executed = {} /\ IsFiniteSet({}) /\ Cardinality({}) = 0
    BY FS_EmptySet DEF Init
  <2>2. ASSUME NEW a \in Accounts PROVE ExecutedOf(a) = {} /\ nonces[a] = 0
    BY <2>1, <2>2 DEF Init, ExecutedOf
  <2>. QED
    BY <2>1, <2>2 DEF ExecutedOncePerNonce, NoncesUsedUp, ExecutedOf
<1>2. TypeOK /\ ExecutedOncePerNonce /\ NoncesUsedUp /\ [Next]_vars
         => ExecutedOncePerNonce' /\ NoncesUsedUp'
  <2>. SUFFICES ASSUME TypeOK, ExecutedOncePerNonce, NoncesUsedUp, [Next]_vars
                PROVE  ExecutedOncePerNonce' /\ NoncesUsedUp'
    OBVIOUS
  <2>1. CASE UNCHANGED <<nonces, executed>>
    BY <2>1 DEF ExecutedOncePerNonce, NoncesUsedUp
  <2>2. CASE \E message \in signed \cap Permits : permit(message)
    BY <2>2, NonceIsUsedUp DEF permit
  <2>3. CASE \E message \in signed \cap Delegations : delegateBySig(message)
    BY <2>3, NonceIsUsedUp DEF delegateBySig
  <2>4. CASE UNCHANGED vars
    BY <2>1, <2>4 DEF vars, sigVars
  <2>5. CASE NextBlock \/ \E message \in Permits \cup Delegations : Sign(message)
    BY <2>1, <2>5 DEF NextBlock, Sign, sigVars
  <2>6. ASSUME NEW c \in Accounts, NEW d \in Accounts, NEW n \in Amounts,
               \/ transfer(c, d, n) \/ mint(c, d, n)
               \/ \E s \in Accounts : transferFrom(c, s, d, n)
        PROVE  UNCHANGED <<nonces, executed>>
    BY <2>6 DEF transfer, mint, transferFrom, sigVars
  <2>7. ASSUME NEW c \in Accounts,
               \/ \E m \in Minters : setMinter(c, m)
               \/ \E s \in Accounts, n \in Approvals : approve(c, s, n)
               \/ \E d \in Addresses : delegate(c, d)
        PROVE  UNCHANGED <<nonces, executed>>
    BY <2>7 DEF setMinter, approve, delegate, sigVars
  <2>. QED
    BY <2>1, <2>2, <2>3, <2>4, <2>5, <2>6, <2>7 DEF Next
<1>. QED
  BY TypeCorrect, <1>1, <1>2, PTL DEF Spec

------------------------------------------------------------------------------
(* Checkpoints *)

\* Checkpoints in the order of their blocks, none of them of a later block, that
\* keep the votes of every past block.
Ordered(cps) ==
    \A i, j \in 1..Len(cps) : i < j => cps[i].fromBlock < cps[j].fromBlock

Dated(cps) == \A i \in 1..Len(cps) : cps[i].fromBlock \in 1..block

KeepsHistory(cps, past) ==
    /\ Ordered(cps) /\ Dated(cps)
    /\ \A b \in 1..(block - 1) : VotesAtEndOf(cps, b, past[b])

HistoryInv ==
    /\ block \in Nat \ {0}
    /\ \A a \in Accounts :
          Len(pastVotes[a]) = block - 1 /\ KeepsHistory(checkpoints[a], pastVotes[a])

\* Writing a checkpoint leaves the votes at the end of past blocks alone: it
\* only touches one of the present block, which no past block looks at.
LEMMA WritingKeepsHistory ==
    ASSUME TypeOK, block > 0, NEW a \in Accounts, NEW v \in 0..MaxUint96,
           NEW past, KeepsHistory(checkpoints[a], past)
    PROVE  KeepsHistory(written(a, v), past)
<1>. DEFINE cps == checkpoints[a]
            new == written(a, v)
<1>1. /\ cps \in Seq(Checkpoint) /\ new \in Seq(Checkpoint) /\ block \in Nat
      /\ Len(new) \in {Len(cps), Len(cps) + 1} /\ Len(new) > 0
      /\ new[Len(new)].fromBlock = block
      /\ \A i \in 1..(Len(new) - 1) : i \in 1..Len(cps) /\ new[i] = cps[i]
      /\ Len(new) = Len(cps) => cps[Len(cps)].fromBlock = block
      /\ Len(new) > Len(cps) /\ Len(cps) > 0 => cps[Len(cps)].fromBlock # block
  <2>1. cps \in Seq(Checkpoint) /\ block \in Nat
    BY DEF TypeOK
  <2>2. /\ new \in Seq(Checkpoint)
        /\ Len(new) \in {Len(cps), Len(cps) + 1} /\ Len(new) > 0
        /\ new[Len(new)] = [fromBlock |-> block, votes |-> v]
        /\ \A i \in 1..(Len(new) - 1) : i \in 1..Len(cps) /\ new[i] = cps[i]
    BY WrittenShape
  <2>3. /\ Len(new) = Len(cps) => cps[Len(cps)].fromBlock = block
        /\ Len(new) > Len(cps) /\ Len(cps) > 0
              => cps[Len(cps)].fromBlock # block
    BY WrittenShape
  <2>. HIDE DEF cps, new
  <2>. QED
    BY <2>1, <2>2, <2>3
<1>2. /\ Ordered(cps) /\ Dated(cps)
      /\ \A b \in 1..(block - 1) : VotesAtEndOf(cps, b, past[b])
  BY DEF KeepsHistory
<1>. HIDE DEF cps, new
<1>3. /\ Len(cps) \in Nat /\ Len(new) \in Nat
      /\ \A i \in 1..Len(cps) : cps[i].fromBlock \in Nat
      /\ \A i \in 1..Len(new) : new[i].fromBlock \in Nat
  <2>1. /\ \A i \in 1..Len(cps) : cps[i] \in Checkpoint
        /\ \A i \in 1..Len(new) : new[i] \in Checkpoint
    BY <1>1
  <2>2. Len(cps) \in Nat /\ Len(new) \in Nat
    BY <1>1
  <2>. QED
    BY <2>1, <2>2 DEF Checkpoint
<1>4. ASSUME NEW i \in 1..(Len(new) - 1) PROVE cps[i].fromBlock < block
  <2>1. CASE Len(new) = Len(cps)
    <3>1. i < Len(cps) /\ i \in 1..Len(cps) /\ Len(cps) \in 1..Len(cps)
      BY <1>1, <1>3, <2>1
    <3>. QED
      BY <1>1, <1>2, <2>1, <3>1 DEF Ordered
  <2>2. CASE Len(new) = Len(cps) + 1
    <3>1. i \in 1..Len(cps) /\ Len(cps) \in 1..Len(cps) /\ Len(new) > Len(cps)
      BY <1>3, <2>2
    <3>2. cps[Len(cps)].fromBlock < block
      BY <1>1, <1>2, <1>3, <3>1 DEF Dated
    <3>3. CASE i = Len(cps)
      BY <3>2, <3>3
    <3>4. CASE i < Len(cps)
      BY <1>2, <1>3, <3>1, <3>2, <3>4, <1>1 DEF Ordered
    <3>. QED
      BY <3>1, <3>3, <3>4, <1>3
  <2>. QED
    BY <1>1, <2>1, <2>2
<1>5. ASSUME NEW i \in 1..Len(new)
      PROVE  new[i].fromBlock = IF i = Len(new) THEN block ELSE cps[i].fromBlock
  <2>1. i # Len(new) => i \in 1..(Len(new) - 1)
    BY <1>3
  <2>. QED
    BY <1>1, <2>1
<1>6. Ordered(new)
  <2>. SUFFICES ASSUME NEW i \in 1..Len(new), NEW j \in 1..Len(new), i < j
                PROVE  new[i].fromBlock < new[j].fromBlock
    BY DEF Ordered
  <2>1. i \in 1..(Len(new) - 1) /\ i \in 1..Len(cps)
    BY <1>1, <1>3
  <2>2. CASE j = Len(new)
    BY <1>3, <1>4, <1>5, <2>1, <2>2
  <2>3. CASE j # Len(new)
    <3>1. j \in 1..(Len(new) - 1) /\ j \in 1..Len(cps)
      BY <1>1, <1>3, <2>3
    <3>2. cps[i].fromBlock < cps[j].fromBlock
      BY <1>2, <2>1, <3>1 DEF Ordered
    <3>. QED
      BY <1>1, <2>1, <3>1, <3>2
  <2>. QED
    BY <2>2, <2>3
<1>7. Dated(new)
  <2>1. ASSUME NEW i \in 1..Len(new) PROVE new[i].fromBlock \in 1..block
    <3>1. i # Len(new) => i \in 1..(Len(new) - 1) /\ i \in 1..Len(cps)
      BY <1>1, <1>3
    <3>2. i # Len(new) => new[i].fromBlock \in 1..block
      BY <1>2, <1>5, <3>1 DEF Dated
    <3>. QED
      BY <1>1, <1>5, <3>2
  <2>. QED
    BY <2>1 DEF Dated
<1>8. ASSUME NEW b \in 1..(block - 1) PROVE VotesAtEndOf(new, b, past[b])
  <2>1. VotesAtEndOf(cps, b, past[b]) /\ b < block /\ b \in Nat
    BY <1>1, <1>2
  <2>2. CASE (\A i \in 1..Len(cps) : cps[i].fromBlock > b) /\ past[b] = 0
    <3>1. ASSUME NEW i \in 1..Len(new) PROVE new[i].fromBlock > b
      <4>1. CASE i = Len(new)
        BY <1>1, <2>1, <4>1
      <4>2. CASE i # Len(new)
        <5>1. i \in 1..(Len(new) - 1) /\ i \in 1..Len(cps)
          BY <1>1, <1>3, <4>2
        <5>. QED
          BY <1>1, <2>2, <5>1
      <4>. QED
        BY <4>1, <4>2
    <3>. QED
      BY <2>2, <3>1 DEF VotesAtEndOf
  <2>3. ASSUME NEW i \in 1..Len(cps), cps[i].fromBlock <= b,
               \A j \in (i + 1)..Len(cps) : cps[j].fromBlock > b,
               past[b] = cps[i].votes
        PROVE  VotesAtEndOf(new, b, past[b])
    <3>1. i \in 1..(Len(new) - 1)
      BY <1>1, <1>3, <2>1, <2>3
    <3>2. new[i] = cps[i] /\ i \in 1..Len(new)
      <4>1. i \in 1..Len(new)
        BY <1>3, <3>1
      <4>. QED
        BY <1>1, <3>1, <4>1
    <3>3. ASSUME NEW j \in (i + 1)..Len(new) PROVE new[j].fromBlock > b
      <4>1. CASE j = Len(new)
        BY <1>1, <2>1, <4>1
      <4>2. CASE j # Len(new)
        <5>1. j \in 1..(Len(new) - 1) /\ j \in (i + 1)..Len(cps)
          BY <1>1, <1>3, <3>3, <4>2
        <5>. QED
          BY <1>1, <2>3, <5>1
      <4>. QED
        BY <4>1, <4>2
    <3>. QED
      BY <2>3, <3>2, <3>3 DEF VotesAtEndOf
  <2>. QED
    BY <2>1, <2>2, <2>3 DEF VotesAtEndOf
<1>. QED
  BY <1>6, <1>7, <1>8 DEF KeepsHistory, new

\* Moving votes keeps the history of every account.
LEMMA MovingKeepsHistory ==
    ASSUME TypeOK, HistoryInv, NEW srcRep \in Addresses, NEW dstRep \in Addresses,
           NEW amount \in 0..MaxUint96, moveDelegates(srcRep, dstRep, amount),
           UNCHANGED timeVars
    PROVE  HistoryInv'
<1>1. ASSUME NEW a \in Accounts
      PROVE  KeepsHistory(checkpoints'[a], pastVotes[a])
  <2>1. KeepsHistory(checkpoints[a], pastVotes[a])
    BY <1>1 DEF HistoryInv
  <2>2. ASSUME NEW v \in 0..MaxUint96
        PROVE  KeepsHistory(written(a, v), pastVotes[a])
    <3>1. block > 0
      BY DEF HistoryInv
    <3>. QED
      BY <1>1, <2>1, <2>2, <3>1, WritingKeepsHistory
  <2>3. \/ checkpoints'[a] = checkpoints[a]
        \/ \E v \in 0..MaxUint96 : checkpoints'[a] = written(a, v)
    BY <1>1, MoveShape
  <2>. QED
    BY <2>1, <2>2, <2>3
<1>2. block' = block /\ pastVotes' = pastVotes
  BY DEF timeVars
<1>. QED
  BY <1>1, <1>2 DEF HistoryInv, KeepsHistory, Ordered, Dated

\* When a block ends, its last checkpoint becomes history.
LEMMA BlockKeepsHistory ==
    ASSUME TypeOK, HistoryInv, NextBlock
    PROVE  HistoryInv'
<1>1. /\ block \in Nat \ {0} /\ block' = block + 1
      /\ checkpoints' = checkpoints /\ block' - 1 = block
  BY DEF HistoryInv, NextBlock, voteVars
<1>2. ASSUME NEW a \in Accounts
      PROVE  /\ Len(pastVotes'[a]) = block' - 1
             /\ KeepsHistory(checkpoints[a], pastVotes[a])
             /\ \A b \in 1..(block - 1) : pastVotes'[a][b] = pastVotes[a][b]
             /\ pastVotes'[a][block] = getCurrentVotes(a)
  <2>1. /\ pastVotes[a] \in Seq(0..MaxUint96) /\ Len(pastVotes[a]) = block - 1
        /\ getCurrentVotes(a) \in 0..MaxUint96
        /\ pastVotes'[a] = Append(pastVotes[a], getCurrentVotes(a))
    BY <1>2, CurrentVotesType DEF TypeOK, HistoryInv, NextBlock
  <2>. QED
    BY <1>1, <1>2, <2>1 DEF HistoryInv
<1>3. ASSUME NEW a \in Accounts, NEW b \in 1..block
      PROVE  VotesAtEndOf(checkpoints[a], b, pastVotes'[a][b])
  <2>1. CASE b < block
    <3>1. b \in 1..(block - 1)
      BY <1>1, <2>1
    <3>. QED
      BY <1>2, <3>1 DEF KeepsHistory
  <2>2. CASE b = block
    <3>. DEFINE cps == checkpoints[a]
    <3>1. cps \in Seq(Checkpoint) /\ Dated(cps)
      BY <1>2 DEF TypeOK, KeepsHistory
    <3>2. CASE cps = <<>>
      <4>1. pastVotes'[a][b] = 0
        BY <1>2, <2>2, <3>2 DEF getCurrentVotes
      <4>. QED
        BY <3>2, <4>1 DEF VotesAtEndOf
    <3>3. CASE cps # <<>>
      <4>1. /\ Len(cps) \in 1..Len(cps) /\ cps[Len(cps)].fromBlock <= b
            /\ \A j \in (Len(cps) + 1)..Len(cps) : cps[j].fromBlock > b
        BY <2>2, <3>1, <3>3 DEF Dated
      <4>2. pastVotes'[a][b] = cps[Len(cps)].votes
        BY <1>2, <2>2, <3>3 DEF getCurrentVotes, Last
      <4>. QED
        BY <4>1, <4>2 DEF VotesAtEndOf
    <3>. QED
      BY <3>2, <3>3
  <2>. QED
    BY <1>1, <2>1, <2>2
<1>4. ASSUME NEW a \in Accounts
      PROVE  /\ Ordered(checkpoints[a])
             /\ \A i \in 1..Len(checkpoints[a]) :
                   checkpoints[a][i].fromBlock \in 1..block'
  <2>1. checkpoints[a] \in Seq(Checkpoint) /\ Dated(checkpoints[a])
    BY <1>2 DEF TypeOK, KeepsHistory
  <2>2. ASSUME NEW i \in 1..Len(checkpoints[a])
        PROVE  checkpoints[a][i].fromBlock \in Nat
    <3>1. checkpoints[a][i] \in Checkpoint
      BY <2>1, <2>2
    <3>. QED
      BY <3>1 DEF Checkpoint
  <2>. QED
    BY <1>1, <1>2, <2>1, <2>2 DEF KeepsHistory, Dated
<1>. QED
  BY <1>1, <1>2, <1>3, <1>4 DEF HistoryInv, KeepsHistory, Ordered, Dated

\* HistoryInv always holds.
LEMMA HistoryAlwaysKept == Spec => [](TypeOK /\ HistoryInv)
<1>1. Init => HistoryInv
  BY DEF Init, HistoryInv, KeepsHistory, Ordered, Dated
<1>2. TypeOK /\ HistoryInv /\ [Next]_vars => HistoryInv'
  <2>. SUFFICES ASSUME TypeOK, HistoryInv, [Next]_vars PROVE HistoryInv'
    OBVIOUS
  <2>1. CASE UNCHANGED <<checkpoints, timeVars>>
    BY <2>1 DEF HistoryInv, KeepsHistory, Ordered, Dated, timeVars
  <2>2. ASSUME NEW src \in Accounts, NEW dst \in Accounts,
               NEW n \in 0..MaxUint96, transferTokens(src, dst, n),
               UNCHANGED timeVars
        PROVE  HistoryInv'
    <3>1. /\ delegates[src] \in Addresses /\ delegates[dst] \in Addresses
          /\ moveDelegates(delegates[src], delegates[dst], n)
      BY <2>2 DEF TypeOK, transferTokens
    <3>. QED
      BY <2>2, <3>1, MovingKeepsHistory
  <2>3. ASSUME NEW o \in Accounts, NEW d \in Addresses, delegateTo(o, d),
               UNCHANGED timeVars
        PROVE  HistoryInv'
    <3>1. /\ delegates[o] \in Addresses /\ balances[o] \in 0..MaxUint96
          /\ moveDelegates(delegates[o], d, balances[o])
      BY <2>3 DEF TypeOK, delegateTo
    <3>. QED
      BY <2>3, <3>1, MovingKeepsHistory
  <2>4. CASE NextBlock
    BY <2>4, BlockKeepsHistory
  <2>5. ASSUME NEW c \in Accounts, NEW d \in Accounts, NEW n \in Amounts,
               \/ transfer(c, d, n)
               \/ \E s \in Accounts : transferFrom(c, s, d, n)
        PROVE  HistoryInv'
    <3>1. n \in 0..MaxUint96
      BY <2>5, VconAssumption DEF transfer, transferFrom
    <3>2. \E s \in Accounts : transferTokens(s, d, n) /\ UNCHANGED timeVars
      BY <2>5 DEF transfer, transferFrom
    <3>. QED
      BY <2>2, <2>5, <3>1, <3>2
  <2>6. ASSUME NEW c \in Accounts, NEW d \in Accounts, NEW n \in Amounts,
               mint(c, d, n)
        PROVE  HistoryInv'
    <3>1. /\ n \in 0..MaxUint96 /\ moveDelegates(ZeroAddress, delegates[d], n)
          /\ delegates[d] \in Addresses /\ ZeroAddress \in Addresses
          /\ UNCHANGED timeVars
      BY <2>6, VconAssumption DEF mint, TypeOK, Addresses
    <3>. QED
      BY <3>1, MovingKeepsHistory
  <2>7. ASSUME NEW c \in Accounts, NEW d \in Addresses, delegate(c, d)
        PROVE  HistoryInv'
    BY <2>3, <2>7 DEF delegate
  <2>8. ASSUME NEW message \in signed \cap Delegations, delegateBySig(message)
        PROVE  HistoryInv'
    <3>1. message.owner \in Accounts /\ message.delegatee \in Addresses
      BY <2>8 DEF Delegations
    <3>. QED
      BY <2>3, <2>8, <3>1 DEF delegateBySig
  <2>9. ASSUME \/ \E message \in Permits \cup Delegations : Sign(message)
               \/ \E message \in signed \cap Permits : permit(message)
        PROVE  HistoryInv'
    BY <2>1, <2>9 DEF Sign, permit, voteVars
  <2>10. ASSUME NEW c \in Accounts,
                \/ \E m \in Minters : setMinter(c, m)
                \/ \E s \in Accounts, n \in Approvals : approve(c, s, n)
         PROVE  HistoryInv'
    BY <2>1, <2>10 DEF setMinter, approve, voteVars
  <2>11. CASE UNCHANGED vars
    BY <2>1, <2>11 DEF vars, voteVars
  <2>. QED
    BY <2>4, <2>5, <2>6, <2>7, <2>8, <2>9, <2>10, <2>11 DEF Next
<1>. QED
  BY TypeCorrect, <1>1, <1>2, PTL DEF Spec

\* The checkpoints of every account stay in the order of their blocks and keep
\* the votes of the end of every past block, whatever is transferred, minted,
\* delegated or signed afterwards, and however often within a block.
THEOREM HistoryIsKept == Spec => []CheckpointsKeepHistory
<1>1. HistoryInv => CheckpointsKeepHistory
  BY DEF HistoryInv, KeepsHistory, Ordered, CheckpointsKeepHistory
<1>. QED
  BY HistoryAlwaysKept, <1>1, PTL

------------------------------------------------------------------------------
(* The search for the votes of an earlier block *)

\* The size of a range, and the ranges up to a size.
Size(range) == IF range[2] <= range[1] THEN 0 ELSE range[2] - range[1]

Ranges(n) == {range \in Nat \X Nat : Size(range) <= n}

\* What the search makes of a range, going on with g.
Narrowed(g, cps, blockNumber, range) ==
    LET lower  == range[1]
        upper  == range[2]
        center == upper - (upper - lower) \div 2
        cp     == cps[center]
    IN  IF upper <= lower THEN cps[lower].votes
        ELSE IF cp.fromBlock = blockNumber THEN cp.votes
        ELSE IF cp.fromBlock < blockNumber
        THEN g[<<center, upper>>]
        ELSE g[<<lower, center - 1>>]

\* g searches the ranges in R.
Searches(g, R, cps, blockNumber) ==
    g = [range \in R |-> Narrowed(g, cps, blockNumber, range)]

\* The search goes on in a smaller range, on one side of the center.
LEMMA RangesShrink ==
    ASSUME NEW range \in Nat \X Nat, range[1] < range[2],
           NEW center, center = range[2] - (range[2] - range[1]) \div 2
    PROVE  /\ center \in (range[1] + 1)..range[2]
           /\ <<center, range[2]>> \in Nat \X Nat
           /\ <<range[1], center - 1>> \in Nat \X Nat
           /\ Size(<<center, range[2]>>) < Size(range)
           /\ Size(<<range[1], center - 1>>) < Size(range)
           /\ Size(range) \in Nat
<1>1. range[1] \in Nat /\ range[2] \in Nat
  OBVIOUS
<1>2. center \in (range[1] + 1)..range[2]
  BY <1>1
<1>. QED
  BY <1>1, <1>2 DEF Size

\* So it only depends on what it finds in smaller ranges.
LEMMA NarrowedSame ==
    ASSUME NEW g, NEW h, NEW cps, NEW b, NEW range \in Nat \X Nat,
           \A r \in Nat \X Nat : Size(r) < Size(range) => g[r] = h[r]
    PROVE  Narrowed(g, cps, b, range) = Narrowed(h, cps, b, range)
<1>1. CASE range[2] <= range[1]
  BY <1>1 DEF Narrowed
<1>2. CASE ~(range[2] <= range[1])
  <2>. DEFINE center == range[2] - (range[2] - range[1]) \div 2
  <2>1. range[1] < range[2]
    BY <1>2
  <2>2. /\ g[<<center, range[2]>>] = h[<<center, range[2]>>]
        /\ g[<<range[1], center - 1>>] = h[<<range[1], center - 1>>]
    <3>1. /\ <<center, range[2]>> \in Nat \X Nat
          /\ <<range[1], center - 1>> \in Nat \X Nat
          /\ Size(<<center, range[2]>>) < Size(range)
          /\ Size(<<range[1], center - 1>>) < Size(range)
      BY <2>1, RangesShrink
    <3>. HIDE DEF center
    <3>. QED
      BY <3>1
  <2>. QED
    BY <1>2, <2>2 DEF Narrowed
<1>. QED
  BY <1>1, <1>2

\* Some function searches the ranges up to any size.
LEMMA SearchOfSize ==
    ASSUME NEW cps, NEW b, NEW n \in Nat
    PROVE  \E g : Searches(g, Ranges(n), cps, b)
<1>. DEFINE T == {k \in Nat : ~\E g : Searches(g, Ranges(k), cps, b)}
<1>. SUFFICES ASSUME T # {} PROVE FALSE
  OBVIOUS
<1>1. PICK m \in T : \A k \in T : m <= k
  BY NatSmallest
<1>2. \E g : m # 0 => Searches(g, Ranges(m - 1), cps, b)
  <2>1. m # 0 => m - 1 \in Nat /\ m - 1 \notin T
    BY <1>1
  <2>. QED
    BY <2>1
<1>3. PICK g : m # 0 => Searches(g, Ranges(m - 1), cps, b)
  BY <1>2
<1>. DEFINE h == [range \in Ranges(m) |-> Narrowed(g, cps, b, range)]
<1>4. ASSUME NEW range \in Ranges(m)
      PROVE  h[range] = Narrowed(h, cps, b, range)
  <2>1. range \in Nat \X Nat /\ Size(range) \in Nat /\ Size(range) <= m
    BY DEF Ranges, Size
  <2>2. ASSUME NEW r \in Nat \X Nat, Size(r) < Size(range) PROVE g[r] = h[r]
    <3>1. Size(r) \in Nat
      BY DEF Size
    <3>2. m # 0 /\ r \in Ranges(m - 1) /\ r \in Ranges(m)
      BY <2>1, <2>2, <3>1 DEF Ranges
    <3>3. g[r] = Narrowed(g, cps, b, r)
      BY <1>3, <3>2 DEF Searches
    <3>. QED
      BY <3>2, <3>3
  <2>3. h[range] = Narrowed(g, cps, b, range)
    OBVIOUS
  <2>. HIDE DEF h
  <2>. QED
    BY <2>1, <2>2, <2>3, NarrowedSame
<1>5. h = [range \in Ranges(m) |-> h[range]]
  OBVIOUS
<1>. HIDE DEF h
<1>6. Searches(h, Ranges(m), cps, b)
  BY <1>4, <1>5 DEF Searches
<1>. QED
  BY <1>1, <1>6

\* Two of them agree wherever both search.
LEMMA SearchOnce ==
    ASSUME NEW cps, NEW b, NEW n \in Nat, NEW m \in Nat, NEW g, NEW h,
           Searches(g, Ranges(n), cps, b), Searches(h, Ranges(m), cps, b),
           NEW range \in Nat \X Nat, Size(range) <= n, Size(range) <= m
    PROVE  g[range] = h[range]
<1>. DEFINE Differ == {r \in Nat \X Nat : Size(r) <= n /\ Size(r) <= m /\ g[r] # h[r]}
            Sizes == {Size(r) : r \in Differ}
<1>. SUFFICES ASSUME Differ # {} PROVE FALSE
  OBVIOUS
<1>1. Sizes \subseteq Nat /\ Sizes # {}
  BY DEF Size
<1>2. PICK k \in Sizes : \A j \in Sizes : k <= j
  <2>. HIDE DEF Sizes
  <2>. QED
    BY <1>1, NatSmallest
<1>3. PICK r \in Differ : k = Size(r)
  OBVIOUS
<1>4. ASSUME NEW q \in Nat \X Nat, Size(q) < Size(r) PROVE g[q] = h[q]
  <2>1. Size(q) \in Nat /\ Size(r) \in Nat
    BY DEF Size
  <2>2. Size(q) \notin Sizes
    <3>. HIDE DEF Sizes
    <3>. QED
      BY <1>2, <1>3, <1>4, <2>1
  <2>. QED
    BY <1>3, <1>4, <2>1, <2>2
<1>5. Narrowed(g, cps, b, r) = Narrowed(h, cps, b, r)
  BY <1>3, <1>4, NarrowedSame
<1>6. r \in Ranges(n) /\ r \in Ranges(m)
  BY <1>3 DEF Ranges
<1>7. g[r] = Narrowed(g, cps, b, r) /\ h[r] = Narrowed(h, cps, b, r)
  BY <1>6 DEF Searches
<1>. QED
  BY <1>3, <1>5, <1>7

\* The search is what its definition by recursion says.
LEMMA SearchUnfolds ==
    ASSUME NEW cps, NEW b
    PROVE  \E search :
              /\ Searches(search, Nat \X Nat, cps, b)
              /\ priorVotes(cps, b) =
                    CASE cps = <<>> -> 0
                      [] cps # <<>> /\ Last(cps).fromBlock <= b -> Last(cps).votes
                      [] cps # <<>> /\ cps[1].fromBlock > b -> 0
                      [] OTHER -> search[<<1, Len(cps)>>]
<1>. DEFINE Of(n) == CHOOSE g : Searches(g, Ranges(n), cps, b)
            all == [range \in Nat \X Nat |-> Of(Size(range))[range]]
<1>1. ASSUME NEW n \in Nat PROVE Searches(Of(n), Ranges(n), cps, b)
  BY SearchOfSize
<1>. HIDE DEF Of
<1>2. ASSUME NEW range \in Nat \X Nat
      PROVE  all[range] = Narrowed(all, cps, b, range)
  <2>. DEFINE n == Size(range)
              g == Of(n)
  <2>1. n \in Nat /\ range \in Ranges(n)
    BY DEF Size, Ranges
  <2>2. ASSUME NEW r \in Nat \X Nat, Size(r) < Size(range) PROVE g[r] = all[r]
    <3>1. Size(r) \in Nat /\ Size(r) <= Size(r) /\ Size(r) <= n
      BY <2>1, <2>2 DEF Size
    <3>2. g[r] = Of(Size(r))[r]
      BY <1>1, <2>1, <3>1, SearchOnce
    <3>. QED
      BY <3>2
  <2>3. Narrowed(g, cps, b, range) = Narrowed(all, cps, b, range)
    BY <2>2, NarrowedSame
  <2>4. g[range] = Narrowed(g, cps, b, range)
    <3>1. Searches(g, Ranges(n), cps, b)
      BY <1>1, <2>1
    <3>. QED
      BY <2>1, <3>1 DEF Searches
  <2>5. all[range] = g[range]
    OBVIOUS
  <2>. QED
    BY <2>3, <2>4, <2>5
<1>3. all = [range \in Nat \X Nat |-> all[range]]
  OBVIOUS
<1>. HIDE DEF all
<1>4. Searches(all, Nat \X Nat, cps, b)
  BY <1>2, <1>3 DEF Searches
<1>. DEFINE search == CHOOSE g : Searches(g, Nat \X Nat, cps, b)
<1>5. Searches(search, Nat \X Nat, cps, b)
  BY <1>4
<1>6. priorVotes(cps, b) =
         CASE cps = <<>> -> 0
           [] cps # <<>> /\ Last(cps).fromBlock <= b -> Last(cps).votes
           [] cps # <<>> /\ cps[1].fromBlock > b -> 0
           [] OTHER -> search[<<1, Len(cps)>>]
  BY DEF priorVotes, Searches, Narrowed
<1>. QED
  BY <1>5, <1>6

\* A range that holds the checkpoint to find: the one at its lower end is not
\* after the block, and those behind its upper end are.
Encloses(cps, b, range) ==
    /\ range[1] \in 1..Len(cps) /\ range[2] \in range[1]..Len(cps)
    /\ cps[range[1]].fromBlock <= b
    /\ \A j \in (range[2] + 1)..Len(cps) : cps[j].fromBlock > b

\* From such a range the search finds the votes: a smallest one it fails on would
\* leave a smaller one it fails on.
LEMMA SearchFinds ==
    ASSUME NEW cps \in Seq(Checkpoint), Ordered(cps), NEW b \in Nat,
           NEW search, Searches(search, Nat \X Nat, cps, b),
           NEW range \in Nat \X Nat, Encloses(cps, b, range)
    PROVE  VotesAtEndOf(cps, b, search[range])
<1>. DEFINE Bad == {r \in Nat \X Nat :
                      Encloses(cps, b, r) /\ ~VotesAtEndOf(cps, b, search[r])}
            Sizes == {Size(r) : r \in Bad}
<1>. SUFFICES ASSUME Bad # {} PROVE FALSE
  OBVIOUS
<1>1. Sizes \subseteq Nat /\ Sizes # {}
  BY DEF Size
<1>2. PICK k \in Sizes : \A j \in Sizes : k <= j
  <2>. HIDE DEF Sizes
  <2>. QED
    BY <1>1, NatSmallest
<1>3. PICK r \in Bad : k = Size(r)
  OBVIOUS
<1>4. ASSUME NEW q \in Nat \X Nat, Size(q) < Size(r), Encloses(cps, b, q)
      PROVE  VotesAtEndOf(cps, b, search[q])
  <2>1. Size(q) \in Nat /\ Size(r) \in Nat
    BY DEF Size
  <2>2. Size(q) \notin Sizes
    <3>. HIDE DEF Sizes
    <3>. QED
      BY <1>2, <1>3, <1>4, <2>1
  <2>. QED
    BY <1>4, <2>2
<1>5. r \in Nat \X Nat /\ Encloses(cps, b, r) /\ ~VotesAtEndOf(cps, b, search[r])
  BY <1>3
<1>. DEFINE lower  == r[1]
            upper  == r[2]
            center == upper - (upper - lower) \div 2
<1>6. /\ lower \in 1..Len(cps) /\ upper \in lower..Len(cps) /\ Len(cps) \in Nat
      /\ cps[lower].fromBlock <= b
      /\ \A j \in (upper + 1)..Len(cps) : cps[j].fromBlock > b
      /\ \A j \in 1..Len(cps) : cps[j].fromBlock \in Nat
  <2>1. \A j \in 1..Len(cps) : cps[j] \in Checkpoint
    OBVIOUS
  <2>2. \A j \in 1..Len(cps) : cps[j].fromBlock \in Nat
    BY <2>1 DEF Checkpoint
  <2>. QED
    BY <1>5, <2>2 DEF Encloses
<1>7. search[r] = Narrowed(search, cps, b, r)
  BY <1>5 DEF Searches
<1>8. CASE upper <= lower
  <2>1. search[r] = cps[lower].votes /\ upper = lower
    BY <1>6, <1>7, <1>8 DEF Narrowed
  <2>. QED
    BY <1>5, <1>6, <2>1 DEF VotesAtEndOf
<1>9. CASE ~(upper <= lower)
  <2>1. lower < upper
    BY <1>6, <1>9
  <2>2. /\ center \in (lower + 1)..upper
        /\ <<center, upper>> \in Nat \X Nat
        /\ <<lower, center - 1>> \in Nat \X Nat
        /\ Size(<<center, upper>>) < Size(r)
        /\ Size(<<lower, center - 1>>) < Size(r)
    BY <1>5, <2>1, RangesShrink
  <2>3. search[r] = IF cps[center].fromBlock = b THEN cps[center].votes
                    ELSE IF cps[center].fromBlock < b
                    THEN search[<<center, upper>>]
                    ELSE search[<<lower, center - 1>>]
    BY <1>7, <1>9 DEF Narrowed
  <2>. HIDE DEF center, lower, upper
  <2>4. center \in 1..Len(cps) /\ center \in Int
    BY <1>6, <2>2
  <2>5. ASSUME NEW j \in 1..Len(cps), center < j
        PROVE  cps[center].fromBlock < cps[j].fromBlock
    BY <2>4, <2>5 DEF Ordered
  <2>6. CASE cps[center].fromBlock = b
    <3>1. ASSUME NEW j \in (center + 1)..Len(cps) PROVE cps[j].fromBlock > b
      <4>1. j \in 1..Len(cps) /\ center < j
        BY <2>4
      <4>2. cps[center].fromBlock < cps[j].fromBlock
        BY <2>5, <4>1
      <4>. QED
        BY <1>6, <2>6, <4>1, <4>2
    <3>2. VotesAtEndOf(cps, b, cps[center].votes)
      BY <2>4, <2>6, <3>1 DEF VotesAtEndOf
    <3>. QED
      BY <1>5, <2>3, <2>6, <3>2
  <2>7. CASE cps[center].fromBlock < b
    <3>1. Encloses(cps, b, <<center, upper>>)
      <4>1. upper \in center..Len(cps) /\ cps[center].fromBlock <= b
        BY <1>6, <2>2, <2>4, <2>7
      <4>2. <<center, upper>>[1] = center /\ <<center, upper>>[2] = upper
        OBVIOUS
      <4>. QED
        BY <1>6, <2>4, <4>1, <4>2 DEF Encloses
    <3>2. VotesAtEndOf(cps, b, search[<<center, upper>>])
      BY <1>4, <2>2, <3>1
    <3>. QED
      BY <1>5, <2>3, <2>7, <3>2
  <2>8. CASE cps[center].fromBlock > b
    <3>1. ASSUME NEW j \in ((center - 1) + 1)..Len(cps) PROVE cps[j].fromBlock > b
      <4>1. CASE j = center
        BY <2>8, <4>1
      <4>2. CASE j # center
        <5>1. j \in 1..Len(cps) /\ center < j
          BY <2>4, <4>2
        <5>2. cps[center].fromBlock < cps[j].fromBlock
          BY <2>5, <5>1
        <5>3. cps[center].fromBlock \in Nat /\ cps[j].fromBlock \in Nat
          BY <1>6, <2>4, <5>1
        <5>4. \A x, y, z \in Nat : x > y /\ x < z => z > y
          OBVIOUS
        <5>. QED
          BY <2>8, <5>2, <5>3, <5>4
      <4>. QED
        BY <4>1, <4>2
    <3>2. Encloses(cps, b, <<lower, center - 1>>)
      BY <1>6, <2>2, <2>4, <3>1 DEF Encloses
    <3>3. VotesAtEndOf(cps, b, search[<<lower, center - 1>>])
      BY <1>4, <2>2, <3>2
    <3>. QED
      BY <1>5, <1>6, <2>3, <2>4, <2>8, <3>3
  <2>. QED
    BY <1>6, <2>4, <2>6, <2>7, <2>8
<1>. QED
  BY <1>8, <1>9

\* Of checkpoints in order, getPriorVotes() answers what they say of a block.
LEMMA PriorVotesFound ==
    ASSUME NEW cps \in Seq(Checkpoint), Ordered(cps), NEW b \in Nat
    PROVE  VotesAtEndOf(cps, b, priorVotes(cps, b))
<1>1. PICK search :
         /\ Searches(search, Nat \X Nat, cps, b)
         /\ priorVotes(cps, b) =
               CASE cps = <<>> -> 0
                 [] cps # <<>> /\ Last(cps).fromBlock <= b -> Last(cps).votes
                 [] cps # <<>> /\ cps[1].fromBlock > b -> 0
                 [] OTHER -> search[<<1, Len(cps)>>]
  BY SearchUnfolds
<1>2. /\ \A j \in 1..Len(cps) : cps[j].fromBlock \in Nat
      /\ Len(cps) \in Nat
  <2>1. \A j \in 1..Len(cps) : cps[j] \in Checkpoint
    OBVIOUS
  <2>. QED
    BY <2>1 DEF Checkpoint
<1>3. CASE cps = <<>>
  <2>1. priorVotes(cps, b) = 0
    BY <1>1, <1>3
  <2>. QED
    BY <1>3, <2>1 DEF VotesAtEndOf
<1>4. CASE cps # <<>>
  <2>1. Len(cps) \in 1..Len(cps) /\ 1 \in 1..Len(cps) /\ Last(cps) = cps[Len(cps)]
    BY <1>4 DEF Last
  <2>2. CASE Last(cps).fromBlock <= b /\ cps[1].fromBlock <= b
    <3>1. priorVotes(cps, b) = cps[Len(cps)].votes
      BY <1>1, <1>2, <1>4, <2>1, <2>2
    <3>. QED
      BY <1>2, <2>1, <2>2, <3>1 DEF VotesAtEndOf
  <2>3. CASE cps[1].fromBlock > b
    <3>1. ASSUME NEW j \in 1..Len(cps) PROVE cps[j].fromBlock > b
      <4>1. CASE j = 1
        BY <2>3, <4>1
      <4>2. CASE j # 1
        <5>1. cps[1].fromBlock < cps[j].fromBlock
          BY <2>1, <4>2 DEF Ordered
        <5>. QED
          BY <1>2, <2>1, <2>3, <5>1
      <4>. QED
        BY <4>1, <4>2
    <3>2. ~(Last(cps).fromBlock <= b)
      BY <1>2, <2>1, <3>1
    <3>3. priorVotes(cps, b) = 0
      BY <1>1, <1>4, <2>3, <3>2
    <3>. QED
      BY <3>1, <3>3 DEF VotesAtEndOf
  <2>4. CASE ~(Last(cps).fromBlock <= b) /\ ~(cps[1].fromBlock > b)
    <3>1. priorVotes(cps, b) = search[<<1, Len(cps)>>]
      BY <1>1, <1>4, <2>4
    <3>2. Encloses(cps, b, <<1, Len(cps)>>) /\ <<1, Len(cps)>> \in Nat \X Nat
      BY <1>2, <2>1, <2>4 DEF Encloses
    <3>3. VotesAtEndOf(cps, b, search[<<1, Len(cps)>>])
      BY <1>1, <3>2, SearchFinds
    <3>. QED
      BY <3>1, <3>3
  <2>. QED
    BY <1>2, <2>1, <2>2, <2>3, <2>4
<1>. QED
  BY <1>3, <1>4

\* They say one number only.
LEMMA VotesAtEndOnce ==
    ASSUME NEW cps \in Seq(Checkpoint), NEW b \in Nat, NEW v, NEW w,
           VotesAtEndOf(cps, b, v), VotesAtEndOf(cps, b, w)
    PROVE  v = w
<1>1. /\ \A j \in 1..Len(cps) : cps[j].fromBlock \in Nat
      /\ Len(cps) \in Nat
  <2>1. \A j \in 1..Len(cps) : cps[j] \in Checkpoint
    OBVIOUS
  <2>. QED
    BY <2>1 DEF Checkpoint
<1>2. CASE \A i \in 1..Len(cps) : cps[i].fromBlock > b
  <2>1. ~\E i \in 1..Len(cps) : cps[i].fromBlock <= b
    BY <1>1, <1>2
  <2>. QED
    BY <2>1 DEF VotesAtEndOf
<1>3. CASE ~(\A i \in 1..Len(cps) : cps[i].fromBlock > b)
  <2>1. PICK i \in 1..Len(cps) : /\ cps[i].fromBlock <= b
                                 /\ \A j \in (i + 1)..Len(cps) : cps[j].fromBlock > b
                                 /\ v = cps[i].votes
    BY <1>3 DEF VotesAtEndOf
  <2>2. PICK k \in 1..Len(cps) : /\ cps[k].fromBlock <= b
                                 /\ \A j \in (k + 1)..Len(cps) : cps[j].fromBlock > b
                                 /\ w = cps[k].votes
    BY <1>3 DEF VotesAtEndOf
  <2>3. ~(i < k) /\ ~(k < i)
    <3>1. i < k => k \in (i + 1)..Len(cps)
      BY <1>1
    <3>2. k < i => i \in (k + 1)..Len(cps)
      BY <1>1
    <3>. QED
      BY <1>1, <2>1, <2>2, <3>1, <3>2
  <2>. QED
    BY <2>1, <2>2, <2>3
<1>. QED
  BY <1>2, <1>3

\* What is kept of past blocks is what getPriorVotes() finds.
LEMMA PriorVotesKept == TypeOK /\ HistoryInv => PriorVotesAreHistory
<1>1. ASSUME TypeOK, HistoryInv, NEW a \in Accounts, NEW b \in 0..(block - 1)
      PROVE  getPriorVotes(a, b) = IF b = 0 THEN 0 ELSE pastVotes[a][b]
  <2>. DEFINE cps == checkpoints[a]
  <2>1. cps \in Seq(Checkpoint) /\ KeepsHistory(cps, pastVotes[a]) /\ b \in Nat
    BY <1>1 DEF TypeOK, HistoryInv
  <2>2. VotesAtEndOf(cps, b, priorVotes(cps, b))
    BY <2>1, PriorVotesFound DEF KeepsHistory
  <2>3. CASE b = 0
    <3>1. ASSUME NEW i \in 1..Len(cps) PROVE ~(cps[i].fromBlock <= b)
      <4>1. cps[i].fromBlock \in 1..block /\ block \in Nat
        BY <1>1, <2>1, <3>1 DEF KeepsHistory, Dated, TypeOK
      <4>. QED
        BY <2>3, <4>1
    <3>2. priorVotes(cps, b) = 0
      BY <2>2, <3>1 DEF VotesAtEndOf
    <3>. QED
      BY <2>3, <3>2 DEF getPriorVotes
  <2>4. CASE b # 0
    <3>1. b \in 1..(block - 1)
      BY <1>1, <2>1, <2>4
    <3>2. VotesAtEndOf(cps, b, pastVotes[a][b])
      BY <2>1, <3>1 DEF KeepsHistory
    <3>3. priorVotes(cps, b) = pastVotes[a][b]
      BY <2>1, <2>2, <3>2, VotesAtEndOnce
    <3>. QED
      BY <2>4, <3>3 DEF getPriorVotes
  <2>. QED
    BY <2>3, <2>4
<1>. QED
  BY <1>1 DEF PriorVotesAreHistory

\* getPriorVotes() answers, for every block before the present one, the votes
\* when that block ended: the search is correct for any number of checkpoints.
THEOREM PriorVotesAreCorrect == Spec => []PriorVotesAreHistory
BY HistoryAlwaysKept, PriorVotesKept, PTL

\* Only the end of a block adds to the history, at its end.
LEMMA HistoryOnlyGrows ==
    ASSUME TypeOK, HistoryInv, [Next]_vars,
           NEW a \in Accounts, NEW b \in 1..(block - 1)
    PROVE  /\ pastVotes'[a][b] = pastVotes[a][b]
           /\ block \in Nat /\ block' \in Nat /\ block <= block'
<1>1. \/ NextBlock
      \/ UNCHANGED timeVars
  BY DEF Next, transfer, transferFrom, mint, setMinter, approve, delegate, Sign,
         permit, delegateBySig, vars
<1>2. block \in Nat \ {0} /\ Len(pastVotes[a]) = block - 1
      /\ pastVotes[a] \in Seq(0..MaxUint96)
  BY DEF HistoryInv, TypeOK
<1>3. CASE NextBlock
  <2>1. /\ pastVotes'[a] = Append(pastVotes[a], getCurrentVotes(a))
        /\ block' = block + 1
    BY <1>3 DEF NextBlock
  <2>2. getCurrentVotes(a) \in 0..MaxUint96
    BY CurrentVotesType
  <2>. QED
    BY <1>2, <2>1, <2>2
<1>4. CASE UNCHANGED timeVars
  BY <1>2, <1>4 DEF timeVars
<1>. QED
  BY <1>1, <1>3, <1>4

\* The answer for a past block is final: whatever is transferred, minted,
\* delegated or signed afterwards, and in however many later blocks, the votes a
\* proposal was made to count stay what they were.
THEOREM PastVotesAreFinal ==
    Spec => [][\A a \in Accounts, b \in 0..(block - 1) :
                  getPriorVotes(a, b)' = getPriorVotes(a, b)]_vars
<1>. DEFINE Value(a, b) == IF b = 0 THEN 0 ELSE pastVotes[a][b]
            Final == \A a \in Accounts, b \in 0..(block - 1) :
                        getPriorVotes(a, b)' = getPriorVotes(a, b)
<1>1. TypeOK /\ HistoryInv /\ TypeOK' /\ HistoryInv' /\ [Next]_vars => Final
  <2>. SUFFICES ASSUME TypeOK, HistoryInv, TypeOK', HistoryInv', [Next]_vars,
                       NEW a \in Accounts, NEW b \in 0..(block - 1)
                PROVE  getPriorVotes(a, b)' = getPriorVotes(a, b)
    OBVIOUS
  <2>1. PriorVotesAreHistory
    BY PriorVotesKept
  <2>2. PriorVotesAreHistory'
    <3>1. (TypeOK /\ HistoryInv => PriorVotesAreHistory)'
      BY PriorVotesKept, PTL
    <3>. QED
      BY <3>1
  <2>3. /\ block \in Nat /\ block <= block' /\ block' \in Nat
        /\ b # 0 => pastVotes'[a][b] = pastVotes[a][b]
    <3>1. block \in Nat \ {0} /\ block' \in Nat
      BY DEF HistoryInv
    <3>2. CASE b = 0
      <4>1. \/ NextBlock
            \/ UNCHANGED timeVars
        BY DEF Next, transfer, transferFrom, mint, setMinter, approve, delegate,
               Sign, permit, delegateBySig, vars
      <4>. QED
        BY <3>1, <3>2, <4>1 DEF NextBlock, timeVars
    <3>3. CASE b # 0
      <4>1. b \in 1..(block - 1)
        BY <3>1, <3>3
      <4>. QED
        BY <4>1, HistoryOnlyGrows
    <3>. QED
      BY <3>2, <3>3
  <2>4. b \in 0..(block' - 1)
    BY <2>3
  <2>5. getPriorVotes(a, b) = Value(a, b)
    BY <2>1 DEF PriorVotesAreHistory
  <2>6. getPriorVotes(a, b)' = Value(a, b)'
    BY <2>2, <2>4 DEF PriorVotesAreHistory
  <2>. QED
    BY <2>3, <2>5, <2>6
<1>2. Spec => [][Final]_vars
  BY <1>1, HistoryAlwaysKept, PTL DEF Spec
<1>. QED
  BY <1>2

------------------------------------------------------------------------------
(* Sums *)

Total(f, S) == MapThenSumSet(LAMBDA a : f[a], S)

\* The element that a sum over a set takes next.
Pick(S) == CHOOSE x \in S : TRUE

\* g adds f up, over every set in G.
AddsUp(g, G, f) ==
    g = [s \in G |-> IF s = {} THEN 0 ELSE f[Pick(s)] + g[s \ {Pick(s)}]]

\* The subsets of at most n elements.
Small(S, n) == {s \in SUBSET S : Cardinality(s) <= n}

\* Taking out the element that a sum takes next makes a set smaller by one.
LEMMA SmallerSubset ==
    ASSUME NEW S, IsFiniteSet(S), NEW s \in SUBSET S, s # {}
    PROVE  /\ Pick(s) \in s /\ s \ {Pick(s)} \in SUBSET S
           /\ Cardinality(s) \in Nat \ {0}
           /\ Cardinality(s \ {Pick(s)}) = Cardinality(s) - 1
           /\ IsFiniteSet(s)
<1>1. Pick(s) \in s
  BY DEF Pick
<1>2. IsFiniteSet(s)
  BY FS_Subset
<1>3. Cardinality(s) \in Nat /\ Cardinality(s) # 0
  BY <1>2, FS_CardinalityType, FS_EmptySet
<1>. QED
  BY <1>1, <1>2, <1>3, FS_RemoveElement

\* Some function adds f up over the sets of at most n elements.
LEMMA SmallAddsUp ==
    ASSUME NEW f, NEW S, IsFiniteSet(S), NEW n \in Nat
    PROVE  \E g : AddsUp(g, Small(S, n), f)
<1>. DEFINE T == {k \in Nat : ~\E g : AddsUp(g, Small(S, k), f)}
<1>. SUFFICES ASSUME T # {} PROVE FALSE
  OBVIOUS
<1>1. PICK m \in T : \A k \in T : m <= k
  BY NatSmallest
<1>2. CASE m = 0
  <2>1. \A s \in Small(S, 0) : s = {}
    <3>1. ASSUME NEW s \in SUBSET S, s # {} PROVE ~(Cardinality(s) <= 0)
      <4>1. Cardinality(s) \in Nat \ {0}
        BY <3>1, SmallerSubset
      <4>. QED
        BY <4>1
    <3>. QED
      BY <3>1 DEF Small
  <2>. DEFINE g == [s \in Small(S, 0) |-> 0]
  <2>2. AddsUp(g, Small(S, 0), f)
    BY <2>1 DEF AddsUp
  <2>. QED
    BY <1>2, <2>2
<1>3. CASE m # 0
  <2>1. m - 1 \in Nat /\ m - 1 \notin T
    BY <1>1, <1>3
  <2>2. PICK g : AddsUp(g, Small(S, m - 1), f)
    BY <2>1
  <2>. DEFINE h == [s \in Small(S, m) |->
                      IF s = {} THEN 0 ELSE f[Pick(s)] + g[s \ {Pick(s)}]]
  <2>3. ASSUME NEW s \in Small(S, m), s # {}
        PROVE  /\ s \ {Pick(s)} \in Small(S, m - 1)
               /\ s \ {Pick(s)} \in Small(S, m)
    BY <2>1, <2>3, SmallerSubset DEF Small
  <2>4. ASSUME NEW s \in Small(S, m - 1) PROVE h[s] = g[s]
    <3>1. s \in Small(S, m)
      <4>1. s \in SUBSET S /\ IsFiniteSet(s) /\ Cardinality(s) \in Nat
        BY FS_Subset, FS_CardinalityType DEF Small
      <4>. QED
        BY <2>1, <4>1 DEF Small
    <3>2. h[s] = IF s = {} THEN 0 ELSE f[Pick(s)] + g[s \ {Pick(s)}]
      BY <3>1
    <3>3. g[s] = IF s = {} THEN 0 ELSE f[Pick(s)] + g[s \ {Pick(s)}]
      BY <2>2, <2>4 DEF AddsUp
    <3>. QED
      BY <3>2, <3>3
  <2>5. ASSUME NEW s \in Small(S, m)
        PROVE  h[s] = IF s = {} THEN 0 ELSE f[Pick(s)] + h[s \ {Pick(s)}]
    <3>1. CASE s = {}
      BY <3>1
    <3>2. CASE s # {}
      <4>1. h[s \ {Pick(s)}] = g[s \ {Pick(s)}]
        BY <2>3, <2>4, <3>2
      <4>2. h[s] = f[Pick(s)] + g[s \ {Pick(s)}]
        BY <3>2
      <4>. QED
        BY <3>2, <4>1, <4>2
    <3>. QED
      BY <3>1, <3>2
  <2>6. h = [s \in Small(S, m) |-> h[s]]
    OBVIOUS
  <2>. HIDE DEF h
  <2>7. AddsUp(h, Small(S, m), f)
    BY <2>5, <2>6 DEF AddsUp
  <2>. QED
    BY <2>7
<1>. QED
  BY <1>2, <1>3

\* A sum is what its definition by recursion says.
LEMMA TotalAddsUp ==
    ASSUME NEW f, NEW S, IsFiniteSet(S)
    PROVE  \E g : AddsUp(g, SUBSET S, f) /\ Total(f, S) = g[S]
<1>1. Cardinality(S) \in Nat
  BY FS_CardinalityType
<1>2. Small(S, Cardinality(S)) = SUBSET S
  BY FS_Subset DEF Small
<1>3. \E g : AddsUp(g, SUBSET S, f)
  <2>1. \E g : AddsUp(g, Small(S, Cardinality(S)), f)
    BY <1>1, SmallAddsUp
  <2>. QED
    BY <1>2, <2>1
<1>. DEFINE it == CHOOSE g : AddsUp(g, SUBSET S, f)
<1>4. AddsUp(it, SUBSET S, f)
  BY <1>3
<1>5. Total(f, S) = it[S]
  BY DEF Total, MapThenSumSet, MapThenFoldSet, AddsUp, Pick
<1>. QED
  BY <1>4, <1>5

\* Two functions that add f up agree wherever both do.
LEMMA AddsUpOnce ==
    ASSUME NEW f, NEW S, NEW T, IsFiniteSet(S), NEW g, NEW h,
           AddsUp(g, SUBSET S, f), AddsUp(h, SUBSET T, f),
           NEW s \in SUBSET S, s \in SUBSET T
    PROVE  g[s] = h[s]
<1>. DEFINE Differ == {t \in SUBSET S : t \in SUBSET T /\ g[t] # h[t]}
            Sizes == {Cardinality(t) : t \in Differ}
<1>. SUFFICES ASSUME Differ # {} PROVE FALSE
  OBVIOUS
<1>1. Sizes \subseteq Nat /\ Sizes # {}
  BY FS_Subset, FS_CardinalityType
<1>2. PICK n \in Sizes : \A k \in Sizes : n <= k
  BY <1>1, NatSmallest
<1>3. PICK t \in Differ : n = Cardinality(t)
  OBVIOUS
<1>4. t # {}
  BY <1>3 DEF AddsUp
<1>5. /\ Pick(t) \in t /\ t \ {Pick(t)} \in SUBSET S
      /\ Cardinality(t) \in Nat \ {0}
      /\ Cardinality(t \ {Pick(t)}) = Cardinality(t) - 1
  BY <1>3, <1>4, SmallerSubset
<1>6. t \ {Pick(t)} \in SUBSET T
  BY <1>3
<1>7. g[t \ {Pick(t)}] = h[t \ {Pick(t)}]
  <2>1. Cardinality(t \ {Pick(t)}) \notin Sizes
    <3>. HIDE DEF Sizes, Differ
    <3>. QED
      BY <1>2, <1>3, <1>5
  <2>2. t \ {Pick(t)} \notin Differ
    BY <2>1
  <2>. QED
    BY <1>5, <1>6, <2>2
<1>8. /\ g[t] = f[Pick(t)] + g[t \ {Pick(t)}]
      /\ h[t] = f[Pick(t)] + h[t \ {Pick(t)}]
  BY <1>3, <1>4, <1>5, <1>6 DEF AddsUp
<1>. QED
  BY <1>3, <1>7, <1>8

\* The sum over no element, and the sum over a set that one is taken out of.
LEMMA TotalOfPick ==
    ASSUME NEW f, NEW S, IsFiniteSet(S)
    PROVE  Total(f, S) = IF S = {} THEN 0 ELSE f[Pick(S)] + Total(f, S \ {Pick(S)})
<1>1. PICK g : AddsUp(g, SUBSET S, f) /\ Total(f, S) = g[S]
  BY TotalAddsUp
<1>2. g[S] = IF S = {} THEN 0 ELSE f[Pick(S)] + g[S \ {Pick(S)}]
  BY <1>1 DEF AddsUp
<1>3. CASE S = {}
  BY <1>1, <1>2, <1>3
<1>4. CASE S # {}
  <2>. DEFINE R == S \ {Pick(S)}
  <2>1. IsFiniteSet(R) /\ R \in SUBSET S /\ R \in SUBSET R
    BY FS_RemoveElement
  <2>2. PICK h : AddsUp(h, SUBSET R, f) /\ Total(f, R) = h[R]
    BY <2>1, TotalAddsUp
  <2>3. g[R] = h[R]
    <3>. HIDE DEF R
    <3>. QED
      BY <1>1, <2>1, <2>2, AddsUpOnce
  <2>. QED
    BY <1>1, <1>2, <1>4, <2>2, <2>3
<1>. QED
  BY <1>3, <1>4

\* Among some subsets of a finite set there is one of smallest cardinality.
LEMMA SmallestSubset ==
    ASSUME NEW S, IsFiniteSet(S), NEW Bad, Bad \subseteq SUBSET S, Bad # {}
    PROVE  \E s \in Bad : \A t \in Bad : Cardinality(s) <= Cardinality(t)
<1>. DEFINE Sizes == {Cardinality(t) : t \in Bad}
<1>1. Sizes \subseteq Nat /\ Sizes # {}
  BY FS_Subset, FS_CardinalityType
<1>2. PICK n \in Sizes : \A k \in Sizes : n <= k
  BY <1>1, NatSmallest
<1>. QED
  BY <1>2

\* A sum of natural numbers is one.
LEMMA TotalNat ==
    ASSUME NEW S, IsFiniteSet(S), NEW f, \A x \in S : f[x] \in Nat
    PROVE  Total(f, S) \in Nat
<1>. DEFINE Bad == {s \in SUBSET S : Total(f, s) \notin Nat}
<1>. SUFFICES ASSUME Bad # {} PROVE FALSE
  OBVIOUS
<1>1. PICK s \in Bad : \A t \in Bad : Cardinality(s) <= Cardinality(t)
  <2>1. Bad \subseteq SUBSET S
    OBVIOUS
  <2>. HIDE DEF Bad
  <2>. QED
    BY <2>1, SmallestSubset
<1>2. IsFiniteSet(s)
  BY FS_Subset
<1>3. s # {}
  <2>1. Total(f, s) \notin Nat
    BY <1>1
  <2>2. Total(f, s) = IF s = {} THEN 0 ELSE f[Pick(s)] + Total(f, s \ {Pick(s)})
    BY <1>2, TotalOfPick
  <2>. QED
    BY <2>1, <2>2
<1>4. /\ Pick(s) \in s /\ s \ {Pick(s)} \in SUBSET S
      /\ Cardinality(s) \in Nat \ {0}
      /\ Cardinality(s \ {Pick(s)}) = Cardinality(s) - 1
  BY <1>3, SmallerSubset
<1>5. ~(Cardinality(s) <= Cardinality(s \ {Pick(s)}))
  BY <1>4
<1>6. Total(f, s \ {Pick(s)}) \in Nat
  BY <1>1, <1>4, <1>5
<1>7. Total(f, s) = f[Pick(s)] + Total(f, s \ {Pick(s)})
  BY <1>2, <1>3, TotalOfPick
<1>. QED
  BY <1>4, <1>6, <1>7

\* The sum only depends on the values at the elements.
LEMMA TotalSame ==
    ASSUME NEW S, IsFiniteSet(S), NEW f, NEW g, \A x \in S : f[x] = g[x]
    PROVE  Total(f, S) = Total(g, S)
<1>. DEFINE Bad == {s \in SUBSET S : Total(f, s) # Total(g, s)}
<1>. SUFFICES ASSUME Bad # {} PROVE FALSE
  OBVIOUS
<1>1. PICK s \in Bad : \A t \in Bad : Cardinality(s) <= Cardinality(t)
  <2>1. Bad \subseteq SUBSET S
    OBVIOUS
  <2>. HIDE DEF Bad
  <2>. QED
    BY <2>1, SmallestSubset
<1>2. IsFiniteSet(s)
  BY FS_Subset
<1>3. s # {}
  BY <1>2, TotalOfPick
<1>4. /\ Pick(s) \in s /\ s \ {Pick(s)} \in SUBSET S
      /\ Cardinality(s) \in Nat \ {0}
      /\ Cardinality(s \ {Pick(s)}) = Cardinality(s) - 1
  BY <1>3, SmallerSubset
<1>5. ~(Cardinality(s) <= Cardinality(s \ {Pick(s)}))
  BY <1>4
<1>6. Total(f, s \ {Pick(s)}) = Total(g, s \ {Pick(s)})
  BY <1>1, <1>4, <1>5
<1>7. /\ Total(f, s) = f[Pick(s)] + Total(f, s \ {Pick(s)})
      /\ Total(g, s) = g[Pick(s)] + Total(g, s \ {Pick(s)})
  BY <1>2, <1>3, TotalOfPick
<1>. QED
  BY <1>4, <1>6, <1>7

\* Any element may be taken out of a sum first.
LEMMA TotalWithout ==
    ASSUME NEW S, IsFiniteSet(S), NEW f, \A a \in S : f[a] \in Nat,
           NEW x \in S
    PROVE  Total(f, S) = f[x] + Total(f, S \ {x})
<1>. DEFINE Bad == {s \in SUBSET S :
                      \E y \in s : Total(f, s) # f[y] + Total(f, s \ {y})}
<1>. SUFFICES ASSUME Bad # {} PROVE FALSE
  OBVIOUS
<1>1. PICK s \in Bad : \A t \in Bad : Cardinality(s) <= Cardinality(t)
  <2>1. Bad \subseteq SUBSET S
    OBVIOUS
  <2>. HIDE DEF Bad
  <2>. QED
    BY <2>1, SmallestSubset
<1>2. PICK y \in s : Total(f, s) # f[y] + Total(f, s \ {y})
  OBVIOUS
<1>. DEFINE p == Pick(s)
            R == s \ {p}
            Q == s \ {y}
<1>3. /\ IsFiniteSet(s) /\ p \in s /\ R \in SUBSET S
      /\ Cardinality(s) \in Nat \ {0}
      /\ Cardinality(R) = Cardinality(s) - 1
  BY <1>2, SmallerSubset
<1>4. /\ IsFiniteSet(R) /\ IsFiniteSet(Q) /\ Q \in SUBSET S
      /\ Cardinality(Q) = Cardinality(s) - 1
  BY <1>2, <1>3, FS_RemoveElement
<1>5. R \notin Bad /\ Q \notin Bad
  <2>1. ~(Cardinality(s) <= Cardinality(R)) /\ ~(Cardinality(s) <= Cardinality(Q))
    BY <1>3, <1>4
  <2>. QED
    BY <1>1, <2>1
<1>6. Total(f, s) = f[p] + Total(f, R)
  BY <1>2, <1>3, TotalOfPick
<1>7. p # y
  BY <1>2, <1>6
<1>8. y \in R /\ p \in Q /\ R \ {y} = Q \ {p}
  BY <1>2, <1>3, <1>7
<1>9. /\ Total(f, R) = f[y] + Total(f, R \ {y})
      /\ Total(f, Q) = f[p] + Total(f, Q \ {p})
  BY <1>3, <1>4, <1>5, <1>8
<1>10. /\ IsFiniteSet(R \ {y}) /\ \A a \in R \ {y} : f[a] \in Nat
       /\ f[y] \in Nat /\ f[p] \in Nat
  BY <1>2, <1>3, <1>4, FS_RemoveElement
<1>11. Total(f, R \ {y}) \in Nat
  BY <1>10, TotalNat
<1>. QED
  BY <1>2, <1>6, <1>8, <1>9, <1>10, <1>11

\* What a change of one value does to a sum.
LEMMA TotalUpdate ==
    ASSUME NEW D, IsFiniteSet(D), NEW f \in [D -> Nat], NEW x \in D,
           NEW g \in [D -> Nat], \A y \in D \ {x} : g[y] = f[y],
           NEW S \in SUBSET D
    PROVE  /\ Total(f, S) \in Nat /\ Total(g, S) \in Nat
           /\ Total(g, S) = IF x \in S THEN Total(f, S) - f[x] + g[x]
                            ELSE Total(f, S)
<1>1. IsFiniteSet(S) /\ IsFiniteSet(S \ {x})
  BY FS_Subset
<1>2. /\ \A y \in S : f[y] \in Nat /\ g[y] \in Nat
      /\ \A y \in S \ {x} : f[y] = g[y] /\ f[y] \in Nat
      /\ f[x] \in Nat /\ g[x] \in Nat
  OBVIOUS
<1>3. Total(f, S) \in Nat /\ Total(g, S) \in Nat /\ Total(f, S \ {x}) \in Nat
  BY <1>1, <1>2, TotalNat
<1>4. Total(f, S \ {x}) = Total(g, S \ {x})
  BY <1>1, <1>2, TotalSame
<1>5. CASE x \in S
  <2>1. /\ Total(f, S) = f[x] + Total(f, S \ {x})
        /\ Total(g, S) = g[x] + Total(g, S \ {x})
    BY <1>1, <1>2, <1>5, TotalWithout
  <2>. QED
    BY <1>2, <1>3, <1>4, <1>5, <2>1
<1>6. CASE x \notin S
  <2>1. S \ {x} = S
    BY <1>6
  <2>. QED
    BY <1>3, <1>4, <1>6, <2>1
<1>. QED
  BY <1>5, <1>6

\* A sum over more elements is not smaller.
LEMMA TotalOfMore ==
    ASSUME NEW S, IsFiniteSet(S), NEW f, \A a \in S : f[a] \in Nat,
           NEW T \in SUBSET S
    PROVE  Total(f, T) <= Total(f, S)
<1>. DEFINE Bad == {s \in SUBSET S : T \subseteq s /\ ~(Total(f, T) <= Total(f, s))}
<1>. SUFFICES ASSUME Bad # {} PROVE FALSE
  OBVIOUS
<1>1. PICK s \in Bad : \A t \in Bad : Cardinality(s) <= Cardinality(t)
  <2>1. Bad \subseteq SUBSET S
    OBVIOUS
  <2>. HIDE DEF Bad
  <2>. QED
    BY <2>1, SmallestSubset
<1>2. IsFiniteSet(s) /\ IsFiniteSet(T)
  BY FS_Subset
<1>3. Total(f, s) \in Nat /\ Total(f, T) \in Nat
  BY <1>2, TotalNat
<1>4. T # s
  BY <1>1, <1>3
<1>5. PICK x \in s : x \notin T
  BY <1>1, <1>4
<1>6. /\ IsFiniteSet(s \ {x}) /\ Cardinality(s) \in Nat
      /\ Cardinality(s \ {x}) = Cardinality(s) - 1
  BY <1>2, FS_CardinalityType, FS_RemoveElement
<1>7. ~(Cardinality(s) <= Cardinality(s \ {x}))
  BY <1>6
<1>8. Total(f, T) <= Total(f, s \ {x})
  BY <1>1, <1>5, <1>7
<1>9. Total(f, s) = f[x] + Total(f, s \ {x}) /\ f[x] \in Nat
  BY <1>1, <1>2, TotalWithout
<1>10. Total(f, s \ {x}) \in Nat
  <2>1. \A y \in s \ {x} : f[y] \in Nat
    BY <1>1
  <2>. QED
    BY <1>6, <2>1, TotalNat
<1>11. ~(Total(f, T) <= Total(f, s))
  BY <1>1
<1>. QED
  BY <1>3, <1>8, <1>9, <1>10, <1>11

\* A sum of zeros is zero.
LEMMA TotalOfZeros ==
    ASSUME NEW S, IsFiniteSet(S), NEW f, \A x \in S : f[x] = 0
    PROVE  Total(f, S) = 0
<1>. DEFINE Bad == {s \in SUBSET S : Total(f, s) # 0}
<1>. SUFFICES ASSUME Bad # {} PROVE FALSE
  OBVIOUS
<1>1. PICK s \in Bad : \A t \in Bad : Cardinality(s) <= Cardinality(t)
  <2>1. Bad \subseteq SUBSET S
    OBVIOUS
  <2>. HIDE DEF Bad
  <2>. QED
    BY <2>1, SmallestSubset
<1>2. IsFiniteSet(s)
  BY FS_Subset
<1>3. s # {}
  BY <1>2, TotalOfPick
<1>4. /\ Pick(s) \in s /\ s \ {Pick(s)} \in SUBSET S
      /\ Cardinality(s) \in Nat \ {0}
      /\ Cardinality(s \ {Pick(s)}) = Cardinality(s) - 1
  BY <1>3, SmallerSubset
<1>5. ~(Cardinality(s) <= Cardinality(s \ {Pick(s)}))
  BY <1>4
<1>6. Total(f, s \ {Pick(s)}) = 0
  BY <1>1, <1>4, <1>5
<1>7. Total(f, s) = f[Pick(s)] + Total(f, s \ {Pick(s)})
  BY <1>2, <1>3, TotalOfPick
<1>. QED
  BY <1>4, <1>6, <1>7

\* A sum over two sets that share nothing.
LEMMA TotalOfTwo ==
    ASSUME NEW S, IsFiniteSet(S), NEW f, \A a \in S : f[a] \in Nat,
           NEW T \in SUBSET S, NEW U \in SUBSET S, T \cap U = {}
    PROVE  Total(f, T \cup U) = Total(f, T) + Total(f, U)
<1>. DEFINE Bad == {u \in SUBSET S :
                      /\ T \cap u = {}
                      /\ Total(f, T \cup u) # Total(f, T) + Total(f, u)}
<1>. SUFFICES ASSUME Bad # {} PROVE FALSE
  OBVIOUS
<1>1. PICK u \in Bad : \A t \in Bad : Cardinality(u) <= Cardinality(t)
  <2>1. Bad \subseteq SUBSET S
    OBVIOUS
  <2>. HIDE DEF Bad
  <2>. QED
    BY <2>1, SmallestSubset
<1>2. /\ u \in SUBSET S /\ T \cap u = {}
      /\ Total(f, T \cup u) # Total(f, T) + Total(f, u)
  BY <1>1
<1>3. /\ IsFiniteSet(T) /\ IsFiniteSet(u) /\ IsFiniteSet(T \cup u)
      /\ \A a \in T : f[a] \in Nat
      /\ \A a \in u : f[a] \in Nat
      /\ \A a \in T \cup u : f[a] \in Nat
  <2>1. T \cup u \in SUBSET S
    BY <1>2
  <2>. QED
    BY <1>2, <2>1, FS_Subset
<1>4. Total(f, T) \in Nat
  BY <1>3, TotalNat
<1>5. u # {}
  <2>1. Total(f, {}) = 0
    BY FS_EmptySet, TotalOfZeros
  <2>2. u = {} => T \cup u = T
    OBVIOUS
  <2>. QED
    BY <1>2, <1>4, <2>1, <2>2
<1>6. PICK x \in u : TRUE
  BY <1>5
<1>. DEFINE w == u \ {x}
<1>7. /\ w \in SUBSET S /\ T \cap w = {} /\ x \notin T
      /\ (T \cup u) \ {x} = T \cup w /\ x \in T \cup u
  BY <1>2, <1>6
<1>8. /\ IsFiniteSet(w) /\ Cardinality(u) \in Nat
      /\ Cardinality(w) = Cardinality(u) - 1
  BY <1>3, <1>6, FS_CardinalityType, FS_RemoveElement
<1>9. ~(Cardinality(u) <= Cardinality(w))
  BY <1>8
<1>10. Total(f, T \cup w) = Total(f, T) + Total(f, w)
  BY <1>1, <1>7, <1>9
<1>11. Total(f, u) = f[x] + Total(f, w) /\ f[x] \in Nat
  BY <1>3, <1>6, TotalWithout
<1>12. Total(f, T \cup u) = f[x] + Total(f, T \cup w)
  <2>1. Total(f, T \cup u) = f[x] + Total(f, (T \cup u) \ {x})
    BY <1>3, <1>7, TotalWithout
  <2>. QED
    BY <1>7, <2>1
<1>13. Total(f, w) \in Nat
  <2>1. \A a \in w : f[a] \in Nat
    BY <1>3
  <2>. QED
    BY <1>8, <2>1, TotalNat
<1>. HIDE DEF w
<1>. QED
  BY <1>2, <1>4, <1>10, <1>11, <1>12, <1>13

\* The members of the group d, and of any group of D.
InGroup(S, of, d) == {a \in S : of[a] = d}
InGroups(S, of, D) == {a \in S : of[a] \in D}

\* Summing group by group: if v has the sum of every group of D, its sum over D is
\* that of all elements in a group of D.
LEMMA TotalOfGroups ==
    ASSUME NEW S, IsFiniteSet(S), NEW f, \A a \in S : f[a] \in Nat,
           NEW of, NEW D, IsFiniteSet(D),
           NEW v, \A d \in D : v[d] = Total(f, InGroup(S, of, d))
    PROVE  Total(v, D) = Total(f, InGroups(S, of, D))
<1>. USE DEF InGroup, InGroups
<1>. DEFINE In(t) == {a \in S : of[a] \in t}
            Of(d) == {a \in S : of[a] = d}
            Bad == {t \in SUBSET D : Total(v, t) # Total(f, In(t))}
<1>. SUFFICES ASSUME Bad # {} PROVE FALSE
  OBVIOUS
<1>1. PICK t \in Bad : \A r \in Bad : Cardinality(t) <= Cardinality(r)
  <2>1. Bad \subseteq SUBSET D
    OBVIOUS
  <2>. HIDE DEF Bad
  <2>. QED
    BY <2>1, SmallestSubset
<1>2. t \in SUBSET D /\ Total(v, t) # Total(f, In(t)) /\ IsFiniteSet(t)
  BY <1>1, FS_Subset
<1>3. \A d \in D : v[d] \in Nat
  <2>1. ASSUME NEW d \in D PROVE v[d] \in Nat
    <3>1. IsFiniteSet(Of(d)) /\ \A a \in Of(d) : f[a] \in Nat
      BY FS_Subset
    <3>2. v[d] = Total(f, Of(d))
      OBVIOUS
    <3>. HIDE DEF Of
    <3>. QED
      BY <3>1, <3>2, TotalNat
  <2>. QED
    BY <2>1
<1>4. t # {}
  <2>1. Total(v, {}) = 0 /\ Total(f, {}) = 0
    BY FS_EmptySet, TotalOfZeros
  <2>2. t = {} => In(t) = {}
    OBVIOUS
  <2>. QED
    BY <1>2, <2>1, <2>2
<1>5. PICK x \in t : TRUE
  BY <1>4
<1>. DEFINE r == t \ {x}
<1>6. /\ r \in SUBSET D /\ In(t) = Of(x) \cup In(r) /\ Of(x) \cap In(r) = {}
      /\ Of(x) \in SUBSET S /\ In(r) \in SUBSET S
  BY <1>2, <1>5
<1>7. Cardinality(t) \in Nat /\ Cardinality(r) = Cardinality(t) - 1
  BY <1>2, <1>5, FS_CardinalityType, FS_RemoveElement
<1>8. ~(Cardinality(t) <= Cardinality(r))
  BY <1>7
<1>9. Total(v, r) = Total(f, In(r))
  BY <1>1, <1>6, <1>8
<1>10. Total(v, t) = v[x] + Total(v, r)
  <2>1. \A d \in t : v[d] \in Nat
    BY <1>2, <1>3
  <2>. QED
    BY <1>2, <1>5, <2>1, TotalWithout
<1>11. v[x] = Total(f, Of(x))
  BY <1>2, <1>5
<1>. HIDE DEF In, Of, r
<1>12. Total(f, In(t)) = Total(f, Of(x)) + Total(f, In(r))
  BY <1>6, TotalOfTwo
<1>. QED
  BY <1>2, <1>9, <1>10, <1>11, <1>12

------------------------------------------------------------------------------
(* Votes and balances *)

Delegators(d) == {a \in Accounts : delegates[a] = d}

\* Every token is some account's, and the delegated ones are votes.
VotesInv ==
    /\ Total(balances, Accounts) = totalSupply
    /\ \A d \in Accounts : getCurrentVotes(d) = Total(balances, Delegators(d))

\* What a move of votes does to the votes of one account.
LEMMA VotesMoved ==
    ASSUME TypeOK,
           NEW srcRep \in Addresses, NEW dstRep \in Addresses,
           NEW amount \in 0..MaxUint96, moveDelegates(srcRep, dstRep, amount),
           NEW a \in Accounts
    PROVE  getCurrentVotes(a)' =
              IF srcRep = dstRep THEN getCurrentVotes(a)
              ELSE CASE a = srcRep -> getCurrentVotes(a) - amount
                     [] a = dstRep -> getCurrentVotes(a) + amount
                     [] OTHER -> getCurrentVotes(a)
<1>. DEFINE now == getCurrentVotes(a)
<1>1. now \in 0..MaxUint96 /\ MaxUint96 \in Nat /\ ZeroAddress \notin Accounts
  BY CurrentVotesType, VconAssumption
<1>2. ASSUME checkpoints'[a] = checkpoints[a] PROVE getCurrentVotes(a)' = now
  BY <1>2 DEF getCurrentVotes
<1>3. ASSUME NEW v \in 0..MaxUint96, checkpoints'[a] = written(a, v)
      PROVE  getCurrentVotes(a)' = v
  <2>1. /\ written(a, v) \in Seq(Checkpoint) /\ Len(written(a, v)) > 0
        /\ written(a, v)[Len(written(a, v))] = [fromBlock |-> block, votes |-> v]
    BY WrittenShape
  <2>2. written(a, v) # <<>>
    BY <2>1
  <2>. QED
    BY <1>3, <2>1, <2>2 DEF getCurrentVotes, Last
<1>4. CASE (srcRep = dstRep \/ amount = 0) /\ UNCHANGED checkpoints
  BY <1>1, <1>2, <1>4
<1>5. CASE ~((srcRep = dstRep \/ amount = 0) /\ UNCHANGED checkpoints)
  <2>1. /\ srcRep # dstRep
        /\ srcRep # ZeroAddress => amount <= getCurrentVotes(srcRep)
        /\ dstRep # ZeroAddress => getCurrentVotes(dstRep) + amount <= MaxUint96
        /\ checkpoints'[a] =
              CASE a = srcRep -> written(a, now - amount)
                [] a = dstRep -> written(a, now + amount)
                [] OTHER -> checkpoints[a]
    BY <1>5 DEF moveDelegates
  <2>2. CASE a = srcRep
    <3>1. now - amount \in 0..MaxUint96
      BY <1>1, <2>1, <2>2
    <3>2. getCurrentVotes(a)' = now - amount
      BY <1>3, <2>1, <2>2, <3>1
    <3>. QED
      BY <2>1, <2>2, <3>2
  <2>3. CASE a = dstRep
    <3>1. now + amount \in 0..MaxUint96
      BY <1>1, <2>1, <2>3
    <3>2. getCurrentVotes(a)' = now + amount
      BY <1>3, <2>1, <2>3, <3>1
    <3>. QED
      BY <2>1, <2>3, <3>2
  <2>4. CASE a # srcRep /\ a # dstRep
    BY <1>2, <2>1, <2>4
  <2>. QED
    BY <2>2, <2>3, <2>4
<1>. QED
  BY <1>4, <1>5

\* The sums of the present balances.
LEMMA TotalsType ==
    ASSUME TypeOK
    PROVE  /\ IsFiniteSet(Accounts) /\ balances \in [Accounts -> Nat]
           /\ \A d : Delegators(d) \in SUBSET Accounts /\ IsFiniteSet(Delegators(d))
           /\ \A S \in SUBSET Accounts : Total(balances, S) \in Nat
<1>1. IsFiniteSet(Accounts) /\ balances \in [Accounts -> Nat]
  <2>1. balances \in [Accounts -> 0..MaxUint96]
    BY DEF TypeOK
  <2>. QED
    BY <2>1, VconAssumption
<1>2. ASSUME NEW S \in SUBSET Accounts PROVE Total(balances, S) \in Nat
  <2>1. IsFiniteSet(S) /\ \A a \in S : balances[a] \in Nat
    BY <1>1, FS_Subset
  <2>. QED
    BY <2>1, TotalNat
<1>3. ASSUME NEW d
      PROVE  Delegators(d) \in SUBSET Accounts /\ IsFiniteSet(Delegators(d))
  <2>1. Delegators(d) \in SUBSET Accounts
    BY DEF Delegators
  <2>. QED
    BY <1>1, <2>1, FS_Subset
<1>. QED
  BY <1>1, <1>2, <1>3

\* A transfer takes from the sums that count the sender and adds to those that
\* count the recipient, also when it is one account.
LEMMA TransferTotals ==
    ASSUME TypeOK, NEW src \in Accounts, NEW dst \in Accounts,
           NEW n \in 0..MaxUint96, transferTokens(src, dst, n),
           NEW S \in SUBSET Accounts
    PROVE  Total(balances', S) = Total(balances, S)
                                    - (IF src \in S THEN n ELSE 0)
                                    + (IF dst \in S THEN n ELSE 0)
<1>. DEFINE paid == [balances EXCEPT ![src] = balances[src] - n]
<1>1. /\ IsFiniteSet(Accounts) /\ balances \in [Accounts -> Nat]
      /\ n \in Nat /\ n <= balances[src]
  BY TotalsType, VconAssumption DEF transferTokens
<1>2. balances[src] - n \in Nat
  BY <1>1
<1>3. paid \in [Accounts -> Nat]
  BY <1>1, <1>2
<1>4. balances' = [paid EXCEPT ![dst] = paid[dst] + n]
  BY <1>3 DEF transferTokens
<1>5. paid[dst] \in Nat /\ paid[dst] + n \in Nat /\ balances[src] \in Nat
  BY <1>1, <1>3
<1>6. /\ balances' \in [Accounts -> Nat] /\ balances'[dst] = paid[dst] + n
      /\ \A a \in Accounts \ {dst} : balances'[a] = paid[a]
  BY <1>3, <1>4, <1>5
<1>7. /\ paid[src] = balances[src] - n
      /\ \A a \in Accounts \ {src} : paid[a] = balances[a]
  BY <1>1
<1>. HIDE DEF paid
<1>8. /\ Total(balances, S) \in Nat
      /\ Total(paid, S) = IF src \in S
                          THEN Total(balances, S) - balances[src] + paid[src]
                          ELSE Total(balances, S)
  BY <1>1, <1>3, <1>7, TotalUpdate
<1>9. /\ Total(paid, S) \in Nat
      /\ Total(balances', S) = IF dst \in S
                               THEN Total(paid, S) - paid[dst] + balances'[dst]
                               ELSE Total(paid, S)
  BY <1>1, <1>3, <1>6, TotalUpdate
<1>. QED
  BY <1>1, <1>5, <1>6, <1>7, <1>8, <1>9

\* Transferring keeps votes and balances together.
LEMMA TransferKeepsVotes ==
    ASSUME TypeOK, VotesInv, NEW src \in Accounts, NEW dst \in Accounts,
           NEW n \in 0..MaxUint96, transferTokens(src, dst, n),
           UNCHANGED <<totalSupply, delegates>>
    PROVE  VotesInv'
<1>1. /\ delegates[src] \in Addresses /\ delegates[dst] \in Addresses
      /\ moveDelegates(delegates[src], delegates[dst], n)
  BY DEF TypeOK, transferTokens
<1>2. Total(balances, Accounts) \in Nat /\ n \in Nat
  BY TotalsType, VconAssumption
<1>3. Total(balances', Accounts) = totalSupply
  <2>1. Total(balances', Accounts) = Total(balances, Accounts)
                                        - (IF src \in Accounts THEN n ELSE 0)
                                        + (IF dst \in Accounts THEN n ELSE 0)
    BY TransferTotals
  <2>. QED
    BY <1>2, <2>1 DEF VotesInv
<1>4. ASSUME NEW d \in Accounts
      PROVE  getCurrentVotes(d)' = Total(balances', Delegators(d))
  <2>. DEFINE now == getCurrentVotes(d)
              D   == Delegators(d)
  <2>1. D \in SUBSET Accounts /\ Total(balances, D) \in Nat
    BY TotalsType
  <2>2. Total(balances', D) = Total(balances, D) - (IF src \in D THEN n ELSE 0)
                                                 + (IF dst \in D THEN n ELSE 0)
    BY <2>1, TransferTotals
  <2>3. /\ src \in D <=> delegates[src] = d
        /\ dst \in D <=> delegates[dst] = d
    BY DEF Delegators
  <2>4. now = Total(balances, D)
    BY DEF VotesInv
  <2>5. getCurrentVotes(d)' =
          IF delegates[src] = delegates[dst] THEN now
          ELSE CASE d = delegates[src] -> now - n
                 [] d = delegates[dst] -> now + n
                 [] OTHER -> now
    BY <1>1, VotesMoved
  <2>. HIDE DEF now, D
  <2>6. getCurrentVotes(d)' = Total(balances', D)
    <3>1. CASE delegates[src] = d /\ delegates[dst] = d
      BY <1>2, <2>1, <2>2, <2>3, <2>4, <2>5, <3>1
    <3>2. CASE delegates[src] = d /\ delegates[dst] # d
      BY <1>2, <2>1, <2>2, <2>3, <2>4, <2>5, <3>2
    <3>3. CASE delegates[src] # d /\ delegates[dst] = d
      BY <1>2, <2>1, <2>2, <2>3, <2>4, <2>5, <3>3
    <3>4. CASE delegates[src] # d /\ delegates[dst] # d
      BY <1>2, <2>1, <2>2, <2>3, <2>4, <2>5, <3>4
    <3>. QED
      BY <3>1, <3>2, <3>3, <3>4
  <2>. QED
    BY <2>6 DEF D
<1>5. ASSUME NEW d PROVE Delegators(d)' = Delegators(d)
  BY DEF Delegators
<1>. QED
  BY <1>3, <1>4, <1>5 DEF VotesInv

\* Minting raises the supply, one balance, and the votes of its delegate.
LEMMA MintKeepsVotes ==
    ASSUME TypeOK, VotesInv, NEW c \in Accounts, NEW dst \in Accounts,
           NEW n \in Amounts, mint(c, dst, n)
    PROVE  VotesInv'
<1>1. /\ n \in 0..MaxUint96 /\ n \in Nat
      /\ balances[dst] + n <= MaxUint96
      /\ balances' = [balances EXCEPT ![dst] = balances[dst] + n]
      /\ totalSupply' = totalSupply + n /\ delegates' = delegates
      /\ moveDelegates(ZeroAddress, delegates[dst], n)
  BY VconAssumption DEF mint
<1>2. /\ ZeroAddress \in Addresses /\ delegates[dst] \in Addresses
      /\ ZeroAddress \notin Accounts
  BY VconAssumption DEF TypeOK, Addresses
<1>3. ASSUME NEW S \in SUBSET Accounts
      PROVE  /\ Total(balances, S) \in Nat
             /\ Total(balances', S) = Total(balances, S) + (IF dst \in S THEN n ELSE 0)
  <2>1. /\ IsFiniteSet(Accounts) /\ balances \in [Accounts -> Nat]
        /\ Total(balances, S) \in Nat
    BY TotalsType
  <2>2. balances[dst] \in Nat /\ balances[dst] + n \in Nat
    BY <1>1, <2>1
  <2>3. /\ balances' \in [Accounts -> Nat] /\ balances'[dst] = balances[dst] + n
        /\ \A a \in Accounts \ {dst} : balances'[a] = balances[a]
    BY <1>1, <2>1, <2>2
  <2>4. Total(balances', S) =
          IF dst \in S THEN Total(balances, S) - balances[dst] + balances'[dst]
          ELSE Total(balances, S)
    BY <2>1, <2>3, TotalUpdate
  <2>. QED
    BY <1>1, <2>1, <2>2, <2>3, <2>4
<1>4. Total(balances', Accounts) = totalSupply'
  BY <1>1, <1>3 DEF VotesInv
<1>5. ASSUME NEW d \in Accounts
      PROVE  getCurrentVotes(d)' = Total(balances', Delegators(d))
  <2>. DEFINE now == getCurrentVotes(d)
              D   == Delegators(d)
  <2>1. D \in SUBSET Accounts
    BY TotalsType
  <2>2. /\ Total(balances, D) \in Nat
        /\ Total(balances', D) = Total(balances, D) + (IF dst \in D THEN n ELSE 0)
    BY <1>3, <2>1
  <2>3. dst \in D <=> delegates[dst] = d
    BY DEF Delegators
  <2>4. now = Total(balances, D)
    BY DEF VotesInv
  <2>5. getCurrentVotes(d)' =
          IF ZeroAddress = delegates[dst] THEN now
          ELSE CASE d = ZeroAddress -> now - n
                 [] d = delegates[dst] -> now + n
                 [] OTHER -> now
    BY <1>1, <1>2, VotesMoved
  <2>. HIDE DEF now, D
  <2>6. getCurrentVotes(d)' = Total(balances', D)
    <3>1. CASE delegates[dst] = d
      BY <1>2, <2>2, <2>3, <2>4, <2>5, <3>1
    <3>2. CASE delegates[dst] # d
      BY <1>2, <2>2, <2>3, <2>4, <2>5, <3>2
    <3>. QED
      BY <3>1, <3>2
  <2>. QED
    BY <2>6 DEF D
<1>6. ASSUME NEW d PROVE Delegators(d)' = Delegators(d)
  BY <1>1 DEF Delegators
<1>. QED
  BY <1>4, <1>5, <1>6 DEF VotesInv

\* Delegating again takes the tokens out of one sum and puts them into another.
LEMMA DelegatingKeepsVotes ==
    ASSUME TypeOK, VotesInv, NEW o \in Accounts, NEW to \in Addresses,
           delegateTo(o, to), UNCHANGED tokenVars
    PROVE  VotesInv'
<1>. DEFINE n == balances[o]
<1>1. /\ delegates[o] \in Addresses /\ n \in 0..MaxUint96 /\ n \in Nat
      /\ moveDelegates(delegates[o], to, n)
      /\ balances' = balances /\ totalSupply' = totalSupply
  BY VconAssumption DEF TypeOK, delegateTo, tokenVars
<1>2. ASSUME NEW a \in Accounts
      PROVE  delegates'[a] = IF a = o THEN to ELSE delegates[a]
  BY DEF delegateTo, TypeOK
<1>3. ASSUME NEW d \in Accounts
      PROVE  getCurrentVotes(d)' = Total(balances, Delegators(d)')
  <2>. DEFINE now == getCurrentVotes(d)
              old == Delegators(d)
              new == Delegators(d)'
  <2>1. /\ old \in SUBSET Accounts /\ IsFiniteSet(old)
        /\ \A a \in old : balances[a] \in Nat
        /\ Total(balances, old) \in Nat
    BY TotalsType
  <2>2. new \in SUBSET Accounts /\ IsFiniteSet(new)
    <3>1. new \in SUBSET Accounts
      BY DEF Delegators
    <3>. QED
      BY <3>1, FS_Subset, VconAssumption
  <2>3. (\A a \in new : balances[a] \in Nat) /\ Total(balances, new) \in Nat
    BY <2>2, TotalsType
  <2>4. now = Total(balances, old)
    BY DEF VotesInv
  <2>5. getCurrentVotes(d)' =
          IF delegates[o] = to THEN now
          ELSE CASE d = delegates[o] -> now - n
                 [] d = to -> now + n
                 [] OTHER -> now
    <3>. HIDE DEF n
    <3>. QED
      BY <1>1, VotesMoved
  <2>6. /\ old \ {o} = new \ {o}
        /\ o \in old <=> delegates[o] = d
        /\ o \in new <=> to = d
    BY <1>2 DEF Delegators
  <2>7. /\ o \in old => Total(balances, old) = n + Total(balances, old \ {o})
        /\ o \in new => Total(balances, new) = n + Total(balances, new \ {o})
    BY <2>1, <2>2, <2>3, TotalWithout
  <2>8. /\ o \notin old => old \ {o} = old
        /\ o \notin new => new \ {o} = new
    OBVIOUS
  <2>9. old \ {o} \in SUBSET Accounts
    BY <2>1
  <2>10. Total(balances, old \ {o}) \in Nat
    BY <2>9, TotalsType
  <2>. HIDE DEF now, old, new, n
  <2>11. getCurrentVotes(d)' = Total(balances, new)
    <3>. DEFINE rest == Total(balances, old \ {o})
    <3>1. rest = Total(balances, new \ {o})
      BY <2>6
    <3>2. Total(balances, old) = rest + (IF delegates[o] = d THEN n ELSE 0)
      BY <1>1, <2>6, <2>7, <2>8, <2>10
    <3>3. Total(balances, new) = rest + (IF to = d THEN n ELSE 0)
      BY <1>1, <2>6, <2>7, <2>8, <2>10, <3>1
    <3>. HIDE DEF rest
    <3>4. rest \in Nat
      BY <2>10 DEF rest
    <3>. QED
      BY <1>1, <2>4, <2>5, <3>2, <3>3, <3>4
  <2>. QED
    BY <2>11 DEF new
<1>4. Total(balances', Accounts) = totalSupply'
  BY <1>1 DEF VotesInv
<1>. QED
  BY <1>1, <1>3, <1>4 DEF VotesInv

\* At deployment the supply is one account's, and nobody has delegated.
LEMMA VotesAtFirst ==
    ASSUME Init
    PROVE  VotesInv
<1>1. /\ IsFiniteSet(Accounts) /\ InitialHolder \in Accounts
      /\ ZeroAddress \notin Accounts /\ InitialSupply \in Nat
      /\ balances = [a \in Accounts |-> IF a = InitialHolder THEN InitialSupply ELSE 0]
  BY VconAssumption DEF Init
<1>. DEFINE Rest == Accounts \ {InitialHolder}
<1>2. Total(balances, Rest) = 0
  <2>1. IsFiniteSet(Rest) /\ \A a \in Rest : balances[a] = 0
    BY <1>1, FS_Subset
  <2>. HIDE DEF Rest
  <2>. QED
    BY <2>1, TotalOfZeros
<1>3. Total(balances, Accounts) = totalSupply
  <2>1. \A a \in Accounts : balances[a] \in Nat
    BY <1>1
  <2>2. Total(balances, Accounts) = balances[InitialHolder] + Total(balances, Rest)
    BY <1>1, <2>1, TotalWithout
  <2>. QED
    BY <1>1, <1>2, <2>2 DEF Init
<1>4. ASSUME NEW d \in Accounts
      PROVE  getCurrentVotes(d) = Total(balances, Delegators(d))
  <2>1. Delegators(d) = {} /\ getCurrentVotes(d) = 0
    BY <1>1 DEF Init, Delegators, getCurrentVotes
  <2>2. Total(balances, {}) = 0
    BY FS_EmptySet, TotalOfZeros
  <2>. QED
    BY <2>1, <2>2
<1>. QED
  BY <1>3, <1>4 DEF VotesInv

\* Every step keeps votes and balances together.
LEMMA VotesStep ==
    ASSUME TypeOK, VotesInv, [Next]_vars
    PROVE  VotesInv'
<1>1. ASSUME UNCHANGED <<tokenVars, voteVars>> PROVE VotesInv'
  <2>1. UNCHANGED <<totalSupply, balances, delegates, checkpoints>>
    BY <1>1 DEF tokenVars, voteVars
  <2>2. ASSUME NEW d
        PROVE  Delegators(d)' = Delegators(d) /\ getCurrentVotes(d)' = getCurrentVotes(d)
    BY <2>1 DEF Delegators, getCurrentVotes
  <2>. QED
    BY <2>1, <2>2 DEF VotesInv
<1>2. ASSUME NEW c \in Accounts, NEW d \in Accounts, NEW n \in Amounts,
             \/ transfer(c, d, n)
             \/ \E s \in Accounts : transferFrom(c, s, d, n)
      PROVE  VotesInv'
  <2>1. n \in 0..MaxUint96
    BY <1>2, VconAssumption DEF transfer, transferFrom
  <2>2. PICK s \in Accounts :
          transferTokens(s, d, n) /\ UNCHANGED <<totalSupply, delegates>>
    BY <1>2 DEF transfer, transferFrom
  <2>. QED
    BY <1>2, <2>1, <2>2, TransferKeepsVotes
<1>3. ASSUME NEW c \in Accounts, NEW d \in Addresses, delegate(c, d)
      PROVE  VotesInv'
  BY <1>3, DelegatingKeepsVotes DEF delegate
<1>4. ASSUME NEW message \in signed \cap Delegations, delegateBySig(message)
      PROVE  VotesInv'
  <2>1. message.owner \in Accounts /\ message.delegatee \in Addresses
    BY <1>4 DEF Delegations
  <2>. QED
    BY <1>4, <2>1, DelegatingKeepsVotes DEF delegateBySig
<1>5. ASSUME NEW c \in Accounts, NEW m \in Minters, setMinter(c, m)
      PROVE  VotesInv'
  <2>1. UNCHANGED <<totalSupply, balances, delegates, checkpoints>>
    BY <1>5 DEF setMinter, voteVars
  <2>2. ASSUME NEW d
        PROVE  Delegators(d)' = Delegators(d) /\ getCurrentVotes(d)' = getCurrentVotes(d)
    BY <2>1 DEF Delegators, getCurrentVotes
  <2>. QED
    BY <2>1, <2>2 DEF VotesInv
<1>6. ASSUME \/ NextBlock
             \/ \E message \in Permits \cup Delegations : Sign(message)
             \/ \E message \in signed \cap Permits : permit(message)
             \/ \E c, s \in Accounts, n \in Approvals : approve(c, s, n)
      PROVE  VotesInv'
  BY <1>1, <1>6 DEF NextBlock, Sign, permit, approve
<1>7. CASE UNCHANGED vars
  BY <1>1, <1>7 DEF vars
<1>. QED
  BY <1>2, <1>3, <1>4, <1>5, <1>6, <1>7, MintKeepsVotes DEF Next

\* VotesInv always holds.
LEMMA VotesAlwaysMatch == Spec => [](TypeOK /\ VotesInv)
<1>1. Init => VotesInv
  BY VotesAtFirst
<1>2. TypeOK /\ VotesInv /\ [Next]_vars => VotesInv'
  BY VotesStep
<1>. QED
  BY TypeCorrect, <1>1, <1>2, PTL DEF Spec

\* The votes of every delegate are the tokens of those who delegate to it,
\* whatever is transferred, minted and delegated, by whom and to whom.
THEOREM VotesAreTokens == Spec => []VotesMatchBalances
<1>1. VotesInv => VotesMatchBalances
  BY DEF VotesInv, VotesMatchBalances, DelegatedTo, Delegators, Total
<1>. QED
  BY VotesAlwaysMatch, <1>1, PTL

\* The tokens of all accounts are the supply: none is lost or made by a transfer.
SupplyIsBalances ==
    MapThenSumSet(LAMBDA a : balances[a], Accounts) = totalSupply

\* Only mint() changes how many tokens there are.
THEOREM SupplyIsKept == Spec => []SupplyIsBalances
<1>1. VotesInv => SupplyIsBalances
  BY DEF VotesInv, SupplyIsBalances, Total
<1>. QED
  BY VotesAlwaysMatch, <1>1, PTL

\* The tokens of those who have a delegate.
Delegated == Total(balances, {a \in Accounts : delegates[a] \in Accounts})

\* All votes there are, at the end of an earlier block and now.
PastVotesOf(b) == Total([a \in Accounts |-> pastVotes[a][b]], Accounts)

VotesNow == Total([a \in Accounts |-> getCurrentVotes(a)], Accounts)

\* Counting by delegates counts each delegated token once.
LEMMA VotesCountTokens ==
    ASSUME TypeOK, VotesInv
    PROVE  VotesNow = Delegated /\ Delegated <= totalSupply
<1>1. /\ IsFiniteSet(Accounts) /\ \A a \in Accounts : balances[a] \in Nat
      /\ Total(balances, Accounts) = totalSupply
  BY TotalsType DEF VotesInv
<1>. DEFINE v == [a \in Accounts |-> getCurrentVotes(a)]
            D == {a \in Accounts : delegates[a] \in Accounts}
<1>2. \A d \in Accounts : v[d] = Total(balances, {a \in Accounts : delegates[a] = d})
  BY DEF VotesInv, Delegators
<1>. HIDE DEF v
<1>3. Total(v, Accounts) = Total(balances, D)
  <2>1. \A d \in Accounts : v[d] = Total(balances, InGroup(Accounts, delegates, d))
    BY <1>2 DEF InGroup
  <2>2. Total(v, Accounts) = Total(balances, InGroups(Accounts, delegates, Accounts))
    BY <1>1, <2>1, TotalOfGroups
  <2>. QED
    BY <2>2 DEF InGroups
<1>4. D \in SUBSET Accounts
  OBVIOUS
<1>. HIDE DEF D
<1>5. Total(balances, D) <= Total(balances, Accounts)
  BY <1>1, <1>4, TotalOfMore
<1>. QED
  BY <1>1, <1>3, <1>5 DEF v, D, VotesNow, Delegated

\* The votes at the end of no past block exceed the supply of today.
PastBacked == \A b \in 1..(block - 1) : PastVotesOf(b) <= totalSupply

LEMMA PastStaysBacked ==
    ASSUME TypeOK, VotesInv, HistoryInv, TypeOK', PastBacked, [Next]_vars
    PROVE  PastBacked'
<1>1. IsFiniteSet(Accounts) /\ block \in Nat \ {0}
      /\ totalSupply \in Nat /\ totalSupply' \in Nat
  BY VconAssumption DEF HistoryInv, TypeOK
<1>2. totalSupply <= totalSupply'
  <2>1. \/ totalSupply' = totalSupply
        \/ \E c, d \in Accounts, n \in Amounts : mint(c, d, n)
    BY DEF Next, NextBlock, transfer, transferFrom, setMinter, approve, delegate,
           Sign, permit, delegateBySig, vars, tokenVars
  <2>2. ASSUME NEW c, NEW d, NEW n \in Amounts, mint(c, d, n)
        PROVE  totalSupply <= totalSupply'
    <3>1. n \in Nat /\ totalSupply' = totalSupply + n
      BY <2>2, VconAssumption DEF mint
    <3>. QED
      BY <1>1, <3>1
  <2>. QED
    BY <1>1, <2>1, <2>2
<1>. DEFINE past(b) == [a \in Accounts |-> pastVotes[a][b]]
            next(b) == [a \in Accounts |-> pastVotes'[a][b]]
<1>3. ASSUME NEW b \in 1..(block - 1)
      PROVE  Total(next(b), Accounts) <= totalSupply'
  <2>1. \A a \in Accounts : past(b)[a] = next(b)[a]
    BY HistoryOnlyGrows
  <2>2. \A a \in Accounts : past(b)[a] \in Nat
    <3>1. ASSUME NEW a \in Accounts PROVE pastVotes[a][b] \in Nat
      <4>1. /\ pastVotes[a] \in Seq(0..MaxUint96) /\ b \in 1..Len(pastVotes[a])
            /\ MaxUint96 \in Nat
        BY <3>1, VconAssumption DEF TypeOK, HistoryInv
      <4>. QED
        BY <4>1
    <3>. QED
      BY <3>1
  <2>3. Total(past(b), Accounts) <= totalSupply
    BY DEF PastBacked, PastVotesOf
  <2>. HIDE DEF past, next
  <2>4. /\ Total(past(b), Accounts) = Total(next(b), Accounts)
        /\ Total(past(b), Accounts) \in Nat
    BY <1>1, <2>1, <2>2, TotalSame, TotalNat
  <2>. QED
    BY <1>1, <1>2, <2>3, <2>4
<1>4. CASE NextBlock
  <2>1. /\ block' = block + 1 /\ totalSupply' = totalSupply
        /\ \A a \in Accounts :
              pastVotes'[a] = Append(pastVotes[a], getCurrentVotes(a))
    BY <1>4 DEF NextBlock, tokenVars
  <2>. DEFINE v == [a \in Accounts |-> getCurrentVotes(a)]
  <2>2. \A a \in Accounts : next(block)[a] = v[a]
    <3>1. ASSUME NEW a \in Accounts PROVE pastVotes'[a][block] = getCurrentVotes(a)
      <4>1. /\ pastVotes[a] \in Seq(0..MaxUint96) /\ Len(pastVotes[a]) = block - 1
            /\ getCurrentVotes(a) \in 0..MaxUint96
        BY <3>1, CurrentVotesType DEF TypeOK, HistoryInv
      <4>. QED
        BY <1>1, <2>1, <4>1
    <3>. QED
      BY <3>1
  <2>3. Total(v, Accounts) <= totalSupply
    BY VotesCountTokens, TotalsType, <1>1 DEF VotesNow, Delegated
  <2>. HIDE DEF next, v
  <2>4. Total(next(block), Accounts) = Total(v, Accounts)
    BY <1>1, <2>2, TotalSame
  <2>5. ASSUME NEW b \in 1..(block' - 1)
        PROVE  Total(next(b), Accounts) <= totalSupply'
    <3>1. b = block \/ b \in 1..(block - 1)
      BY <1>1, <2>1
    <3>. QED
      BY <1>3, <2>1, <2>3, <2>4, <3>1
  <2>. QED
    BY <2>5 DEF PastBacked, PastVotesOf, next
<1>5. CASE UNCHANGED timeVars
  BY <1>3, <1>5 DEF PastBacked, PastVotesOf, timeVars
<1>6. \/ NextBlock
      \/ UNCHANGED timeVars
  BY DEF Next, transfer, transferFrom, mint, setMinter, approve, delegate, Sign,
         permit, delegateBySig, vars
<1>. QED
  BY <1>4, <1>5, <1>6

\* All the votes of the present block together are the tokens of those who have a
\* delegate, and what getPriorVotes() answers for one past block, all accounts
\* together, never exceeds the supply.
Backed ==
    /\ VotesNow = Delegated /\ VotesNow <= totalSupply
    /\ \A b \in 0..(block - 1) :
          Total([a \in Accounts |-> getPriorVotes(a, b)], Accounts) <= totalSupply

\* No token votes twice, neither now nor in any past block, however tokens and
\* delegations moved in between.
THEOREM VotesAreBacked == Spec => []Backed
<1>. DEFINE Answers(b) == [a \in Accounts |-> getPriorVotes(a, b)]
<1>1. Init => PastBacked
  BY DEF Init, PastBacked
<1>2. Spec => []PastBacked
  BY <1>1, PastStaysBacked, VotesAlwaysMatch, HistoryAlwaysKept, PTL DEF Spec
<1>3. TypeOK /\ VotesInv /\ HistoryInv /\ PastBacked => Backed
  <2>. SUFFICES ASSUME TypeOK, VotesInv, HistoryInv, PastBacked PROVE Backed
    OBVIOUS
  <2>1. IsFiniteSet(Accounts) /\ totalSupply \in Nat /\ block \in Nat \ {0}
    BY VconAssumption DEF TypeOK, HistoryInv
  <2>2. VotesNow = Delegated /\ VotesNow <= totalSupply
    BY VotesCountTokens
  <2>3. ASSUME NEW b \in 0..(block - 1)
        PROVE  Total(Answers(b), Accounts) <= totalSupply
    <3>1. \A a \in Accounts :
             Answers(b)[a] = IF b = 0 THEN 0 ELSE pastVotes[a][b]
      BY PriorVotesKept DEF PriorVotesAreHistory
    <3>2. CASE b = 0
      <4>1. \A a \in Accounts : Answers(b)[a] = 0
        BY <3>1, <3>2
      <4>. HIDE DEF Answers
      <4>2. Total(Answers(b), Accounts) = 0
        BY <2>1, <4>1, TotalOfZeros
      <4>. QED
        BY <2>1, <4>2
    <3>3. CASE b # 0
      <4>. DEFINE past == [a \in Accounts |-> pastVotes[a][b]]
      <4>1. \A a \in Accounts : Answers(b)[a] = past[a]
        BY <3>1, <3>3
      <4>2. Total(past, Accounts) <= totalSupply
        <5>1. b \in 1..(block - 1)
          BY <2>1, <3>3
        <5>. QED
          BY <5>1 DEF PastBacked, PastVotesOf
      <4>. HIDE DEF Answers, past
      <4>3. Total(Answers(b), Accounts) = Total(past, Accounts)
        BY <2>1, <4>1, TotalSame
      <4>. QED
        BY <4>2, <4>3
    <3>. QED
      BY <3>2, <3>3
  <2>. QED
    BY <2>2, <2>3 DEF Backed
<1>. QED
  BY <1>2, <1>3, VotesAlwaysMatch, HistoryAlwaysKept, PTL

\* What transfer() requires on its way: of the amount, of the balances, of the
\* votes of the sender's delegate and of those of the recipient's.
TransferRequires(c, d, n) ==
    /\ n <= MaxUint96
    /\ n <= balances[c]
    /\ [[balances EXCEPT ![c] = @ - n] EXCEPT ![d] = @ + n][d] <= MaxUint96
    /\ delegates[c] # delegates[d] /\ n > 0 =>
          /\ delegates[c] # ZeroAddress => n <= getCurrentVotes(delegates[c])
          /\ delegates[d] # ZeroAddress =>
                getCurrentVotes(delegates[d]) + n <= MaxUint96

\* What transfer() leaves behind.
TransferLeaves(c, d, n) ==
    /\ balances' = [[balances EXCEPT ![c] = @ - n] EXCEPT ![d] = @ + n]
    /\ checkpoints' =
          IF delegates[c] = delegates[d] \/ n = 0 THEN checkpoints
          ELSE [a \in Accounts |->
                  CASE a = delegates[c] -> written(a, getCurrentVotes(a) - n)
                    [] a = delegates[d] -> written(a, getCurrentVotes(a) + n)
                    [] OTHER -> checkpoints[a]]
    /\ UNCHANGED <<totalSupply, minter, allowVars, delegates, sigVars, timeVars>>

\* TransferRequires is what decides whether a transfer is made or reverts.
LEMMA TransferIsRequirements ==
    ASSUME NEW c \in Accounts, NEW d \in Accounts, NEW n \in Nat
    PROVE  transfer(c, d, n) <=> TransferRequires(c, d, n) /\ TransferLeaves(c, d, n)
<1>1. CASE delegates[c] = delegates[d] \/ n = 0
  BY <1>1 DEF transfer, transferTokens, moveDelegates, TransferRequires, TransferLeaves
<1>2. CASE delegates[c] # delegates[d] /\ n # 0
  BY <1>2 DEF transfer, transferTokens, moveDelegates, TransferRequires, TransferLeaves
<1>. QED
  BY <1>1, <1>2

\* Whoever has the tokens can transfer them: no requirement on votes or on the
\* recipient's balance can fail, because neither can exceed the supply.
THEOREM TransfersNeverRevert ==
    Spec => [](\A c, d \in Accounts, n \in Nat :
                  n <= balances[c] => TransferRequires(c, d, n))
<1>1. ASSUME TypeOK, VotesInv, NEW c \in Accounts, NEW d \in Accounts,
             NEW n \in Nat, n <= balances[c]
      PROVE  TransferRequires(c, d, n)
  <2>1. /\ IsFiniteSet(Accounts) /\ balances \in [Accounts -> Nat]
        /\ balances \in [Accounts -> 0..MaxUint96]
        /\ MaxUint96 \in Nat /\ totalSupply \in 0..MaxUint96
        /\ Total(balances, Accounts) = totalSupply
    BY <1>1, TotalsType, VconAssumption DEF TypeOK, VotesInv
  <2>2. ASSUME NEW S \in SUBSET Accounts, NEW a \in Accounts, a \notin S
        PROVE  /\ Total(balances, S) \in Nat
               /\ balances[a] + Total(balances, S) <= MaxUint96
    <3>. DEFINE More == S \cup {a}
    <3>1. /\ More \in SUBSET Accounts /\ More \ {a} = S /\ a \in More
          /\ IsFiniteSet(More) /\ \A x \in More : balances[x] \in Nat
          /\ \A x \in Accounts : balances[x] \in Nat
      BY <2>1, <2>2, FS_Subset
    <3>2. Total(balances, S) \in Nat /\ Total(balances, More) \in Nat
      BY <1>1, <3>1, TotalsType
    <3>. HIDE DEF More
    <3>3. Total(balances, More) = balances[a] + Total(balances, More \ {a})
      BY <3>1, TotalWithout
    <3>4. Total(balances, More) <= Total(balances, Accounts)
      BY <2>1, <3>1, TotalOfMore
    <3>. QED
      BY <2>1, <3>1, <3>2, <3>3, <3>4
  <2>3. n <= MaxUint96
    BY <1>1, <2>1
  <2>4. [[balances EXCEPT ![c] = @ - n] EXCEPT ![d] = @ + n][d] <= MaxUint96
    <3>1. CASE c = d
      BY <1>1, <2>1, <3>1
    <3>2. CASE c # d
      <4>1. Total(balances, {d}) = balances[d]
        <5>1. /\ IsFiniteSet({d}) /\ {d} \ {d} = {} /\ balances[d] \in Nat
              /\ Total(balances, {}) = 0
          BY <2>1, FS_EmptySet, FS_Singleton, TotalOfZeros
        <5>2. Total(balances, {d}) = balances[d] + Total(balances, {d} \ {d})
          BY <5>1, TotalWithout
        <5>. QED
          BY <5>1, <5>2
      <4>2. balances[c] + Total(balances, {d}) <= MaxUint96
        BY <2>2, <3>2
      <4>. QED
        BY <1>1, <2>1, <3>2, <4>1, <4>2
    <3>. QED
      BY <3>1, <3>2
  <2>5. ASSUME delegates[c] # ZeroAddress
        PROVE  n <= getCurrentVotes(delegates[c])
    <3>. DEFINE D == Delegators(delegates[c])
    <3>1. delegates[c] \in Accounts
      BY <1>1, <2>5 DEF TypeOK, Addresses
    <3>2. /\ c \in D /\ D \in SUBSET Accounts /\ IsFiniteSet(D)
          /\ getCurrentVotes(delegates[c]) = Total(balances, D)
      BY <1>1, <3>1, TotalsType DEF Delegators, VotesInv
    <3>3. D \ {c} \in SUBSET Accounts /\ \A x \in D : balances[x] \in Nat
      BY <2>1, <3>2
    <3>4. Total(balances, D \ {c}) \in Nat
      BY <1>1, <3>3, TotalsType
    <3>. HIDE DEF D
    <3>5. Total(balances, D) = balances[c] + Total(balances, D \ {c})
      BY <3>2, <3>3, TotalWithout
    <3>. QED
      BY <1>1, <2>1, <3>2, <3>4, <3>5
  <2>6. ASSUME delegates[c] # delegates[d], delegates[d] # ZeroAddress
        PROVE  getCurrentVotes(delegates[d]) + n <= MaxUint96
    <3>. DEFINE D == Delegators(delegates[d])
    <3>1. delegates[d] \in Accounts
      BY <1>1, <2>6 DEF TypeOK, Addresses
    <3>2. /\ c \notin D /\ D \in SUBSET Accounts
          /\ getCurrentVotes(delegates[d]) = Total(balances, D)
      BY <1>1, <2>6, <3>1, TotalsType DEF Delegators, VotesInv
    <3>. HIDE DEF D
    <3>3. /\ Total(balances, D) \in Nat
          /\ balances[c] + Total(balances, D) <= MaxUint96
      BY <1>1, <2>2, <3>2
    <3>. QED
      BY <1>1, <2>1, <3>2, <3>3
  <2>. QED
    BY <1>1, <2>3, <2>4, <2>5, <2>6 DEF TransferRequires
<1>2. TypeOK /\ VotesInv => \A c, d \in Accounts, n \in Nat :
                                n <= balances[c] => TransferRequires(c, d, n)
  BY <1>1
<1>. QED
  BY VotesAlwaysMatch, <1>2, PTL
==============================================================================

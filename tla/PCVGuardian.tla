----------------------------- MODULE PCVGuardian ------------------------------
(***************************************************************************)
(* contracts/pcv/PCVGuardian.sol: governors, guardians and PCV guards may  *)
(* have the PCV of a whitelisted deposit withdrawn to one safe address,    *)
(* also from a deposit that is paused.  Composed with the roles of         *)
(* Permissions and with the deposits themselves, as                        *)
(* contracts/pcv/compound/ERC20CompoundPCVDeposit.sol writes them: funds   *)
(* lie in the deposit or are supplied to a market.  Amounts are units of   *)
(* one token; interest and the market's rounding are left out.             *)
(***************************************************************************)
EXTENDS Permissions, Integers

CONSTANTS
    Deposits,               \* PCV deposits
    InitialPCV,             \* what each deposit has supplied at first
    Amounts                 \* amounts withdrawn or sent

ASSUME PCVGuardianAssumption == InitialPCV \in Nat /\ Amounts \subseteq Nat

VARIABLES
    whitelist,              \* whitelistAddresses
    paused,                 \* [deposit -> BOOLEAN]
    idle,                   \* [deposit -> token.balanceOf(deposit)]
    supplied,               \* [deposit -> balance() in the market]
    safe,                   \* token.balanceOf(safeAddress)
    elsewhere               \* tokens that neither deposits nor the safe have

fundVars == <<idle, supplied, safe, elsewhere>>
vars     == <<roleVars, whitelist, paused, fundVars>>

TypeOK ==
    /\ RolesTypeOK
    /\ whitelist \subseteq Deposits
    /\ paused \in [Deposits -> BOOLEAN]
    /\ idle \in [Deposits -> Nat] /\ supplied \in [Deposits -> Nat]
    /\ safe \in Nat /\ elsewhere \in Nat

GuardianOrGovernor(sender) ==
    hasRole(GUARDIAN_ROLE, sender) \/ hasRole(GOVERN_ROLE, sender)

\* hasAnyOfThreeRoles(GOVERNOR, GUARDIAN, PCV_GUARD)
MayRescue(sender) == GuardianOrGovernor(sender) \/ hasRole(PCV_GUARD_ROLE, sender)

------------------------------------------------------------------------------
(* The deposits *)

\* deposit()
deposit(d) ==
    /\ ~paused[d]
    /\ supplied' = [supplied EXCEPT ![d] = @ + idle[d]]
    /\ idle' = [idle EXCEPT ![d] = 0]
    /\ UNCHANGED <<roleVars, whitelist, paused, safe, elsewhere>>

\* What withdraw() asks of its caller; the market pays all it owes.
CanWithdraw(sender, d, amount) ==
    hasRole(PCV_CONTROLLER_ROLE, sender) /\ amount <= supplied[d]

\* withdraw(), called by a user
withdraw(sender, d, amount) ==
    /\ ~paused[d]
    /\ CanWithdraw(sender, d, amount)
    /\ supplied' = [supplied EXCEPT ![d] = @ - amount]
    /\ elsewhere' = elsewhere + amount
    /\ UNCHANGED <<roleVars, whitelist, paused, idle, safe>>

\* withdrawERC20(), called by a user, also of a deposit that is paused
withdrawERC20(sender, d, amount) ==
    /\ hasRole(PCV_CONTROLLER_ROLE, sender)
    /\ amount <= idle[d]
    /\ idle' = [idle EXCEPT ![d] = @ - amount]
    /\ elsewhere' = elsewhere + amount
    /\ UNCHANGED <<roleVars, whitelist, paused, supplied, safe>>

\* pause() and unpause() of CoreRef revert when there is nothing to change.
setPaused(sender, d, value) ==
    /\ GuardianOrGovernor(sender)
    /\ paused[d] # value
    /\ paused' = [paused EXCEPT ![d] = value]
    /\ UNCHANGED <<roleVars, whitelist, fundVars>>

\* Somebody sends tokens to a deposit.
Receive(d, amount) ==
    /\ amount <= elsewhere
    /\ elsewhere' = elsewhere - amount
    /\ idle' = [idle EXCEPT ![d] = @ + amount]
    /\ UNCHANGED <<roleVars, whitelist, paused, supplied, safe>>

------------------------------------------------------------------------------
(* The guardian *)

\* Faulty variant: a paused deposit is not unpaused for the withdrawal.
withdrawToSafe_WhilePaused(d, amount) ==
    /\ ~paused[d]
    /\ CanWithdraw(PCVGuardian, d, amount)
    /\ supplied' = [supplied EXCEPT ![d] = @ - amount]
    /\ safe' = safe + amount
    /\ UNCHANGED <<roleVars, whitelist, paused, idle, elsewhere>>

\* _withdrawToSafeAddress(): a paused deposit is unpaused for the withdrawal
\* and paused again, for which the guardian contract needs a role.
withdrawToSafe(d, amount) ==
    /\ paused[d] => GuardianOrGovernor(PCVGuardian)
    /\ CanWithdraw(PCVGuardian, d, amount)
    /\ supplied' = [supplied EXCEPT ![d] = @ - amount]
    /\ safe' = safe + amount
    /\ UNCHANGED <<roleVars, whitelist, paused, idle, elsewhere>>

\* withdrawToSafeAddress()
withdrawToSafeAddress(sender, d, amount) ==
    /\ MayRescue(sender)
    /\ d \in whitelist
    /\ withdrawToSafe(d, amount)

\* withdrawAllToSafeAddress()
withdrawAllToSafeAddress(sender, d) ==
    withdrawToSafeAddress(sender, d, supplied[d])

\* Faulty variant: the withdrawal goes to whoever asks for it.
withdrawERC20ToSafeAddress_ToSender(sender, d, amount) ==
    /\ MayRescue(sender)
    /\ d \in whitelist
    /\ hasRole(PCV_CONTROLLER_ROLE, PCVGuardian)
    /\ amount <= idle[d]
    /\ idle' = [idle EXCEPT ![d] = @ - amount]
    /\ elsewhere' = elsewhere + amount
    /\ UNCHANGED <<roleVars, whitelist, paused, supplied, safe>>

\* withdrawERC20ToSafeAddress(): also from a paused deposit, without unpausing.
withdrawERC20ToSafeAddress(sender, d, amount) ==
    /\ MayRescue(sender)
    /\ d \in whitelist
    /\ hasRole(PCV_CONTROLLER_ROLE, PCVGuardian)
    /\ amount <= idle[d]
    /\ idle' = [idle EXCEPT ![d] = @ - amount]
    /\ safe' = safe + amount
    /\ UNCHANGED <<roleVars, whitelist, paused, supplied, elsewhere>>

\* withdrawAllERC20ToSafeAddress()
withdrawAllERC20ToSafeAddress(sender, d) ==
    withdrawERC20ToSafeAddress(sender, d, idle[d])

\* addWhitelistAddress() reverts for a deposit that is on the list.
addWhitelistAddress(sender, d) ==
    /\ hasRole(GOVERN_ROLE, sender)
    /\ d \notin whitelist
    /\ whitelist' = whitelist \cup {d}
    /\ UNCHANGED <<roleVars, paused, fundVars>>

\* removeWhitelistAddress() reverts for a deposit that is not on the list.
removeWhitelistAddress(sender, d) ==
    /\ GuardianOrGovernor(sender)
    /\ d \in whitelist
    /\ whitelist' = whitelist \ {d}
    /\ UNCHANGED <<roleVars, paused, fundVars>>

------------------------------------------------------------------------------

\* As deployed: every deposit is on the list and has supplied its PCV.
Init ==
    /\ RolesInit
    /\ whitelist = Deposits
    /\ paused = [d \in Deposits |-> FALSE]
    /\ idle = [d \in Deposits |-> 0]
    /\ supplied = [d \in Deposits |-> InitialPCV]
    /\ safe = 0
    /\ elsewhere = 0

Permission ==
    /\ \E user \in Users : RoleCall(user)
    /\ UNCHANGED <<whitelist, paused, fundVars>>

Rescue ==
    \E user \in Users, d \in Deposits :
        \/ withdrawAllToSafeAddress(user, d)
        \/ withdrawAllERC20ToSafeAddress(user, d)
        \/ \E n \in Amounts : \/ withdrawToSafeAddress(user, d, n)
                              \/ withdrawERC20ToSafeAddress(user, d, n)

Control ==
    \E user \in Users, d \in Deposits :
        \/ addWhitelistAddress(user, d) \/ removeWhitelistAddress(user, d)
        \/ \E value \in BOOLEAN : setPaused(user, d, value)
        \/ \E n \in Amounts : withdraw(user, d, n) \/ withdrawERC20(user, d, n)

Environment ==
    \E d \in Deposits : deposit(d) \/ \E n \in Amounts : Receive(d, n)

Next == Permission \/ Rescue \/ Control \/ Environment

Spec == Init /\ [][Next]_vars

------------------------------------------------------------------------------
(***************************************************************************)
(* Properties.                                                             *)
(***************************************************************************)

\* The users who hold a role.
People(role) == members[role] \cap Users

\* Once no user governs any more, what is left cannot grow: guardians may use
\* Core's own governor role to take roles away, but neither they nor anybody
\* else can grant one that no user administers, change who administers a role,
\* or take the governor role from Core.
UngovernedRolesOnlyShrink ==
    [][People(GOVERN_ROLE) = {} =>
          /\ UNCHANGED <<members[GOVERN_ROLE], roleAdmin>>
          /\ \A role \in Roles : People(roleAdmin[role]) = {} =>
                members'[role] \subseteq members[role]]_vars

\* Whichever of the two roles administers PCV guards, a guardian can take the
\* role from any of them, through Core or through PCVGuardAdmin, for as long as
\* governors leave these contracts the roles they were deployed with.
GuardiansCanDismissGuards ==
    /\ hasRole(GOVERN_ROLE, Core) /\ hasRole(PCV_GUARD_ADMIN_ROLE, GuardAdmin)
    /\ roleAdmin[PCV_GUARD_ROLE] \in {GOVERN_ROLE, PCV_GUARD_ADMIN_ROLE}
    => \A guardian \in People(GUARDIAN_ROLE), guard \in members[PCV_GUARD_ROLE] :
          \/ ENABLED revokeOverride(guardian, PCV_GUARD_ROLE, guard)
          \/ ENABLED revokePCVGuardRole(guardian, guard)

\* The PCV of a deposit, idle or supplied.
PCVOf(d) == idle[d] + supplied[d]

\* Where no user is a PCV controller, nobody gets at the PCV: all that a deposit
\* loses arrives at the safe address, whoever asks for it, from wherever.
PCVLeavesOnlyToSafe ==
    [][People(PCV_CONTROLLER_ROLE) = {} =>
          \A d \in Deposits : PCVOf(d) - PCVOf(d)' <= safe' - safe]_vars

\* As long as the guardian contract has the roles it was deployed with, whoever
\* may rescue PCV can rescue all of it from a deposit on the list, what is
\* supplied and what is idle, also when somebody has paused the deposit.
RescueAlwaysPossible ==
    /\ hasRole(PCV_CONTROLLER_ROLE, PCVGuardian)
    /\ hasRole(GUARDIAN_ROLE, PCVGuardian)
    => \A user \in Users, d \in whitelist : MayRescue(user) =>
          /\ ENABLED withdrawAllToSafeAddress(user, d)
          /\ ENABLED withdrawAllERC20ToSafeAddress(user, d)
==============================================================================

-------------------------- MODULE PCVGuardianProofs --------------------------
(***************************************************************************)
(* Proofs about PCVGuardian and the roles it rests on, for any accounts,   *)
(* deposits and amounts.                                                   *)
(*                                                                         *)
(* Types are inductive, and so is that governors administer themselves,    *)
(* for as long as they do not use createRole() to give the governor role   *)
(* itself another admin, which the theorem on roles assumes.  All that     *)
(* transactions can do to roles is gathered in RoleCallEffect.             *)
(*                                                                         *)
(* The theorems on money reduce each call to the one deposit it is about.  *)
(***************************************************************************)
EXTENDS PCVGuardian, FiniteSetTheorems, TLAPS

\* The roles are five different values.
LEMMA FiveRoles ==
    /\ GOVERN_ROLE \in Roles /\ GUARDIAN_ROLE \in Roles
    /\ PCV_CONTROLLER_ROLE \in Roles
    /\ PCV_GUARD_ROLE \in Roles /\ PCV_GUARD_ADMIN_ROLE \in Roles
    /\ StandardRoles \subseteq Roles
BY DEF Roles, StandardRoles

\* PCV guards are no governors.
LEMMA GuardsDoNotGovern == PCV_GUARD_ROLE # GOVERN_ROLE
<1> SUFFICES ASSUME PCV_GUARD_ROLE = GOVERN_ROLE PROVE FALSE
    OBVIOUS
<1> DEFINE two   == {GOVERN_ROLE} \cup {GUARDIAN_ROLE}
           three == two \cup {PCV_CONTROLLER_ROLE}
           four  == three \cup {PCV_GUARD_ADMIN_ROLE}
<1>1. IsFiniteSet({GOVERN_ROLE}) /\ Cardinality({GOVERN_ROLE}) = 1
    BY FS_Singleton
<1>2. IsFiniteSet(two) /\ Cardinality(two) \in 1..2
    BY <1>1, FS_AddElement
<1>3. IsFiniteSet(three) /\ Cardinality(three) \in 1..3
    BY <1>2, FS_AddElement
<1>4. Cardinality(four) \in 1..4
    BY <1>3, FS_AddElement
<1>5. Roles = four
    BY DEF Roles, StandardRoles
<1> QED BY <1>4, <1>5, PermissionsAssumption

\* What a step does to roles it does through one of these calls, or not at all.
LEMMA RoleSteps ==
    [Next]_vars => \/ \E user \in Users : RoleCall(user)
                   \/ UNCHANGED roleVars
<1> SUFFICES ASSUME [Next]_vars
             PROVE  \/ \E user \in Users : RoleCall(user)
                    \/ UNCHANGED roleVars
    OBVIOUS
<1>1. CASE Permission
    BY <1>1 DEF Permission
<1>2. CASE Rescue
    BY <1>2 DEF Rescue, withdrawAllToSafeAddress, withdrawAllERC20ToSafeAddress,
                withdrawToSafeAddress, withdrawERC20ToSafeAddress,
                withdrawToSafe, roleVars
<1>3. CASE Control
    BY <1>3 DEF Control, addWhitelistAddress, removeWhitelistAddress,
                setPaused, withdraw, withdrawERC20, roleVars
<1>4. CASE Environment
    BY <1>4 DEF Environment, deposit, Receive, roleVars
<1>5. CASE UNCHANGED vars
    BY <1>5 DEF vars, roleVars
<1> QED BY <1>1, <1>2, <1>3, <1>4, <1>5 DEF Next

\* A call on roles grants one role to one user, takes one role from one
\* account, or moves the administration of one role; this is what each asks of
\* the user who sends it.
LEMMA RoleCallEffect ==
    ASSUME RolesTypeOK, NEW user \in Users, RoleCall(user)
    PROVE  \/ \E role \in Roles, account \in Users :
                 /\ members' = [members EXCEPT ![role] = @ \cup {account}]
                 /\ roleAdmin' = roleAdmin
                 /\ \/ hasRole(roleAdmin[role], user)
                    \/ hasRole(GOVERN_ROLE, user)
           \/ \E role \in Roles, account \in Users \cup Contracts :
                 /\ members' = [members EXCEPT ![role] = @ \ {account}]
                 /\ roleAdmin' = roleAdmin
                 /\ \/ hasRole(roleAdmin[role], user)
                    \/ role # GOVERN_ROLE
                    \/ account = user
           \/ \E role \in CreatedRoles, adminRole \in AdminRoles :
                 /\ roleAdmin' = [roleAdmin EXCEPT ![role] = adminRole]
                 /\ members' = members
                 /\ hasRole(GOVERN_ROLE, user)
<1>1. CASE \E role \in Roles, account \in Users \cup Contracts :
              revokeRole(user, role, account) \/ revokeOverride(user, role, account)
    BY <1>1 DEF revokeRole, revokeOverride
<1>2. CASE \E role \in Roles, account \in Users : grantRole(user, role, account)
    BY <1>2 DEF grantRole
<1>3. CASE \E role \in StandardRoles, account \in Users :
              \/ revokeStandardRole(user, role, account)
              \/ grantStandardRole(user, role, account)
    BY <1>3, FiveRoles DEF revokeStandardRole, grantStandardRole, grantRole, revokeRole
<1>4. CASE \E role \in Roles : renounceRole(user, role)
    BY <1>4 DEF renounceRole
<1>5. CASE \E role \in CreatedRoles, adminRole \in AdminRoles :
              createRole(user, role, adminRole)
    BY <1>5 DEF createRole
<1>6. CASE \E account \in Users :
              grantPCVGuardRole(user, account) \/ revokePCVGuardRole(user, account)
    BY <1>6, FiveRoles, GuardsDoNotGovern
    DEF grantPCVGuardRole, revokePCVGuardRole, grantRole, revokeRole
<1> QED BY <1>1, <1>2, <1>3, <1>4, <1>5, <1>6 DEF RoleCall

\* Roles stay sets of accounts, and every role stays administered by a role.
LEMMA RolesTypeStep == RolesTypeOK /\ [Next]_vars => RolesTypeOK'
<1> SUFFICES ASSUME RolesTypeOK, [Next]_vars PROVE RolesTypeOK'
    OBVIOUS
<1>1. CASE UNCHANGED roleVars
    BY <1>1 DEF roleVars, RolesTypeOK
<1>2. ASSUME NEW user \in Users, RoleCall(user) PROVE RolesTypeOK'
    BY <1>2, RoleCallEffect, PermissionsAssumption DEF RolesTypeOK
<1> QED BY <1>1, <1>2, RoleSteps

\* As deployed, roles are well typed.
LEMMA RolesTypeInit == Init => RolesTypeOK
BY FiveRoles, PermissionsAssumption
DEF Init, RolesInit, RolesTypeOK, Roles, StandardRoles, Contracts

\* Every state of every behaviour is well typed: in particular no deposit, nor
\* the safe address, ever has less than nothing.
THEOREM TypeCorrect == Spec => []TypeOK
<1>1. Init => TypeOK
    BY RolesTypeInit, PCVGuardianAssumption DEF Init, TypeOK
<1>2. TypeOK /\ [Next]_vars => TypeOK'
    <2> SUFFICES ASSUME TypeOK, [Next]_vars PROVE TypeOK'
        OBVIOUS
    <2>0. RolesTypeOK' /\ Amounts \subseteq Nat
        BY RolesTypeStep, PCVGuardianAssumption DEF TypeOK
    <2>1. CASE Permission
        BY <2>0, <2>1 DEF Permission, TypeOK, fundVars
    <2>2. CASE Rescue
        <3>1. ASSUME NEW d \in Deposits, NEW n \in Nat, withdrawToSafe(d, n)
              PROVE  TypeOK'
            BY <2>0, <3>1 DEF withdrawToSafe, CanWithdraw, TypeOK
        <3>2. ASSUME NEW user \in Users, NEW d \in Deposits, NEW n \in Nat,
                     withdrawERC20ToSafeAddress(user, d, n)
              PROVE  TypeOK'
            BY <2>0, <3>2 DEF withdrawERC20ToSafeAddress, TypeOK
        <3>3. \A d \in Deposits : supplied[d] \in Nat /\ idle[d] \in Nat
            BY DEF TypeOK
        <3> QED BY <2>0, <2>2, <3>1, <3>2, <3>3
            DEF Rescue, withdrawToSafeAddress, withdrawAllToSafeAddress,
                withdrawAllERC20ToSafeAddress
    <2>3. CASE Control
        <3> PICK user \in Users, d \in Deposits :
               \/ addWhitelistAddress(user, d) \/ removeWhitelistAddress(user, d)
               \/ \E value \in BOOLEAN : setPaused(user, d, value)
               \/ \E n \in Amounts : withdraw(user, d, n) \/ withdrawERC20(user, d, n)
            BY <2>3 DEF Control
        <3>1. CASE addWhitelistAddress(user, d) \/ removeWhitelistAddress(user, d)
            BY <2>0, <3>1 DEF addWhitelistAddress, removeWhitelistAddress,
                              TypeOK, fundVars
        <3>2. ASSUME NEW value \in BOOLEAN, setPaused(user, d, value)
              PROVE  TypeOK'
            BY <2>0, <3>2 DEF setPaused, TypeOK, fundVars
        <3>3. ASSUME NEW n \in Amounts, withdraw(user, d, n) PROVE TypeOK'
            BY <2>0, <3>3 DEF withdraw, CanWithdraw, TypeOK
        <3>4. ASSUME NEW n \in Amounts, withdrawERC20(user, d, n) PROVE TypeOK'
            BY <2>0, <3>4 DEF withdrawERC20, TypeOK
        <3> QED BY <3>1, <3>2, <3>3, <3>4
    <2>4. CASE Environment
        <3>1. ASSUME NEW d \in Deposits, deposit(d) PROVE TypeOK'
            BY <2>0, <3>1 DEF deposit, TypeOK
        <3>2. ASSUME NEW d \in Deposits, NEW n \in Amounts, Receive(d, n)
              PROVE  TypeOK'
            BY <2>0, <3>2 DEF Receive, TypeOK
        <3> QED BY <2>4, <3>1, <3>2 DEF Environment
    <2>5. CASE UNCHANGED vars
        BY <2>5 DEF vars, fundVars, roleVars, TypeOK, RolesTypeOK
    <2> QED BY <2>1, <2>2, <2>3, <2>4, <2>5 DEF Next
<1> QED BY <1>1, <1>2, PTL DEF Spec

\* Governors are administered by nobody but governors.
GovernorsGovern == roleAdmin[GOVERN_ROLE] = GOVERN_ROLE

\* A step taken while no user governs leaves governors and the administration
\* of all roles as they are, and adds nobody to a role that no user
\* administers.
LEMMA UngovernedStep ==
    ASSUME RolesTypeOK, GovernorsGovern, [Next]_vars, People(GOVERN_ROLE) = {}
    PROVE  /\ UNCHANGED <<members[GOVERN_ROLE], roleAdmin>>
           /\ \A role \in Roles : People(roleAdmin[role]) = {} =>
                 members'[role] \subseteq members[role]
<1> DEFINE Shrinks ==
        /\ UNCHANGED <<members[GOVERN_ROLE], roleAdmin>>
        /\ \A role \in Roles : People(roleAdmin[role]) = {} =>
              members'[role] \subseteq members[role]
<1>1. CASE UNCHANGED roleVars
    BY <1>1 DEF roleVars
<1>2. ASSUME NEW user \in Users, RoleCall(user) PROVE Shrinks
    <2>1. ~hasRole(GOVERN_ROLE, user)
        BY DEF People, hasRole
    <2>2. ASSUME NEW r \in Roles, NEW account \in Users,
                 members' = [members EXCEPT ![r] = @ \cup {account}],
                 roleAdmin' = roleAdmin, hasRole(roleAdmin[r], user)
          PROVE  Shrinks
        <3>1. r # GOVERN_ROLE
            BY <2>1, <2>2 DEF GovernorsGovern
        <3>2. People(roleAdmin[r]) # {}
            BY <2>2 DEF People, hasRole
        <3> QED BY <2>2, <3>1, <3>2, FiveRoles DEF RolesTypeOK
    <2>3. ASSUME NEW r \in Roles, NEW account \in Users \cup Contracts,
                 members' = [members EXCEPT ![r] = @ \ {account}],
                 roleAdmin' = roleAdmin,
                 hasRole(roleAdmin[r], user) \/ r # GOVERN_ROLE \/ account = user
          PROVE  Shrinks
        <3>1. r = GOVERN_ROLE => account = user /\ account \notin members[r]
            BY <2>1, <2>3 DEF GovernorsGovern, hasRole
        <3> QED BY <2>3, <3>1, FiveRoles DEF RolesTypeOK
    <2> HIDE DEF Shrinks
    <2> QED BY <1>2, <2>1, <2>2, <2>3, RoleCallEffect
<1> QED BY <1>1, <1>2, RoleSteps

\* When the last governor is gone, nobody can appoint another, change who
\* administers a role, or add anybody to a role that no user administers, in
\* whatever way guardians use the governor role that Core lends them.
THEOREM UngovernedRoles ==
    ASSUME GOVERN_ROLE \notin CreatedRoles
    PROVE  Spec => UngovernedRolesOnlyShrink
<1>1. Init => GovernorsGovern
    BY FiveRoles, GuardsDoNotGovern DEF Init, RolesInit, GovernorsGovern
<1>2. RolesTypeOK /\ GovernorsGovern /\ [Next]_vars => GovernorsGovern'
    BY RoleSteps, RoleCallEffect, FiveRoles
    DEF GovernorsGovern, RolesTypeOK, roleVars
<1>3. TypeOK => RolesTypeOK
    BY DEF TypeOK
<1>4. RolesTypeOK /\ GovernorsGovern /\ [Next]_vars
        => [People(GOVERN_ROLE) = {} =>
              /\ UNCHANGED <<members[GOVERN_ROLE], roleAdmin>>
              /\ \A role \in Roles : People(roleAdmin[role]) = {} =>
                    members'[role] \subseteq members[role]]_vars
    BY UngovernedStep
<1> QED BY <1>1, <1>2, <1>3, <1>4, TypeCorrect, PTL
        DEF Spec, UngovernedRolesOnlyShrink

\* So it is for good: once the last user who governs has renounced the role or
\* lost it, the system never has a governor again.
THEOREM UngovernedForGood ==
    ASSUME GOVERN_ROLE \notin CreatedRoles
    PROVE  Spec => [](People(GOVERN_ROLE) = {} => [](People(GOVERN_ROLE) = {}))
<1> DEFINE Ungoverned == People(GOVERN_ROLE) = {}
<1>1. Spec => [][Ungoverned => UNCHANGED members[GOVERN_ROLE]]_vars
    <2>1. [People(GOVERN_ROLE) = {} =>
              /\ UNCHANGED <<members[GOVERN_ROLE], roleAdmin>>
              /\ \A role \in Roles : People(roleAdmin[role]) = {} =>
                    members'[role] \subseteq members[role]]_vars
            => [Ungoverned => UNCHANGED members[GOVERN_ROLE]]_vars
        OBVIOUS
    <2> QED BY <2>1, UngovernedRoles, PTL DEF UngovernedRolesOnlyShrink
<1>2. Ungoverned /\ [Ungoverned => UNCHANGED members[GOVERN_ROLE]]_vars
        => Ungoverned'
    BY DEF People, vars, roleVars
<1> HIDE DEF Ungoverned
<1>3. Spec => [](Ungoverned => []Ungoverned)
    BY <1>1, <1>2, PTL
<1> QED BY <1>3 DEF Ungoverned

\* While no user is a PCV controller, what any deposit loses in a step arrives
\* at the safe address.
LEMMA SafeStep ==
    ASSUME TypeOK, [Next]_vars, People(PCV_CONTROLLER_ROLE) = {}
    PROVE  \A d \in Deposits : PCVOf(d) - PCVOf(d)' <= safe' - safe
<1> DEFINE Kept == \A d \in Deposits : PCVOf(d) - PCVOf(d)' <= safe' - safe
<1> SUFFICES Kept
    OBVIOUS
<1>0. /\ Amounts \subseteq Nat /\ safe \in Nat
      /\ \A d \in Deposits : idle[d] \in Nat /\ supplied[d] \in Nat
    BY PCVGuardianAssumption DEF TypeOK
<1>1. CASE UNCHANGED fundVars
    BY <1>0, <1>1 DEF fundVars, PCVOf
<1>2. ASSUME NEW d \in Deposits, NEW n \in Nat, withdrawToSafe(d, n) PROVE Kept
    BY <1>0, <1>2 DEF withdrawToSafe, PCVOf, TypeOK
<1>3. ASSUME NEW user \in Users, NEW d \in Deposits, NEW n \in Nat,
             withdrawERC20ToSafeAddress(user, d, n)
      PROVE  Kept
    BY <1>0, <1>3 DEF withdrawERC20ToSafeAddress, PCVOf, TypeOK
<1>4. ASSUME NEW d \in Deposits, deposit(d) PROVE Kept
    BY <1>0, <1>4 DEF deposit, PCVOf, TypeOK
<1>5. ASSUME NEW d \in Deposits, NEW n \in Amounts, Receive(d, n) PROVE Kept
    BY <1>0, <1>5 DEF Receive, PCVOf, TypeOK
<1>6. ASSUME NEW user \in Users, NEW d \in Deposits, NEW n \in Amounts
      PROVE  ~withdraw(user, d, n) /\ ~withdrawERC20(user, d, n)
    BY DEF withdraw, withdrawERC20, CanWithdraw, People, hasRole
<1> HIDE DEF Kept
<1>7. CASE Permission
    BY <1>1, <1>7 DEF Permission
<1>8. CASE Rescue
    BY <1>0, <1>2, <1>3, <1>8
    DEF Rescue, withdrawToSafeAddress, withdrawAllToSafeAddress,
        withdrawAllERC20ToSafeAddress
<1>9. CASE Control
    BY <1>1, <1>6, <1>9 DEF Control, addWhitelistAddress,
                            removeWhitelistAddress, setPaused
<1>10. CASE Environment
    BY <1>4, <1>5, <1>10 DEF Environment
<1>11. CASE UNCHANGED vars
    BY <1>1, <1>11 DEF vars, fundVars
<1> QED BY <1>7, <1>8, <1>9, <1>10, <1>11 DEF Next

\* Guardians and PCV guards can move PCV to the safe address and nowhere else,
\* through whatever calls, from paused deposits and from others.
THEOREM RescuedPCVIsSafe == Spec => PCVLeavesOnlyToSafe
<1>1. TypeOK /\ [Next]_vars
        => [People(PCV_CONTROLLER_ROLE) = {} =>
              \A d \in Deposits : PCVOf(d) - PCVOf(d)' <= safe' - safe]_vars
    BY SafeStep
<1> QED BY <1>1, TypeCorrect, PTL DEF Spec, PCVLeavesOnlyToSafe

\* While no user is a PCV controller, tokens only reach deposits and the safe
\* address.
LEMMA NothingLeaves ==
    ASSUME TypeOK, [Next]_vars, People(PCV_CONTROLLER_ROLE) = {}
    PROVE  elsewhere' <= elsewhere
<1>0. Amounts \subseteq Nat /\ elsewhere \in Nat
    BY PCVGuardianAssumption DEF TypeOK
<1>1. ASSUME NEW user \in Users, NEW d \in Deposits, NEW n \in Amounts
      PROVE  ~withdraw(user, d, n) /\ ~withdrawERC20(user, d, n)
    BY DEF withdraw, withdrawERC20, CanWithdraw, People, hasRole
<1>2. ASSUME NEW d \in Deposits, NEW n \in Amounts, Receive(d, n)
      PROVE  elsewhere' <= elsewhere
    BY <1>0, <1>2 DEF Receive
<1>3. CASE UNCHANGED elsewhere
    BY <1>0, <1>3
<1>4. CASE Permission
    BY <1>3, <1>4 DEF Permission, fundVars
<1>5. CASE Rescue
    BY <1>3, <1>5
    DEF Rescue, withdrawToSafeAddress, withdrawAllToSafeAddress, withdrawToSafe,
        withdrawERC20ToSafeAddress, withdrawAllERC20ToSafeAddress
<1>6. CASE Control
    BY <1>1, <1>3, <1>6 DEF Control, addWhitelistAddress,
                            removeWhitelistAddress, setPaused, fundVars
<1>7. CASE Environment
    BY <1>2, <1>3, <1>7 DEF Environment, deposit
<1>8. CASE UNCHANGED vars
    BY <1>3, <1>8 DEF vars, fundVars
<1> QED BY <1>4, <1>5, <1>6, <1>7, <1>8 DEF Next

\* No user governs or controls PCV, and only governors appoint PCV controllers,
\* as deployed.
Locked ==
    /\ People(GOVERN_ROLE) = {}
    /\ People(PCV_CONTROLLER_ROLE) = {}
    /\ roleAdmin[PCV_CONTROLLER_ROLE] = GOVERN_ROLE

\* Guardians and PCV guards cannot help themselves to PCV in any number of steps:
\* once no user governs or controls PCV, nobody ever will again, and nothing ever
\* leaves the deposits and the safe address, although the guardian contract keeps
\* its own role as a PCV controller and Core its role as governor.
THEOREM LockedForGood ==
    ASSUME GOVERN_ROLE \notin CreatedRoles
    PROVE  Spec => [](Locked => []Locked /\ [][elsewhere' <= elsewhere]_vars)
<1>1. Spec => [](TypeOK /\ GovernorsGovern)
    <2>1. Init => GovernorsGovern
        BY FiveRoles, GuardsDoNotGovern DEF Init, RolesInit, GovernorsGovern
    <2>2. TypeOK /\ GovernorsGovern /\ [Next]_vars => GovernorsGovern'
        BY RoleSteps, RoleCallEffect, FiveRoles
        DEF GovernorsGovern, TypeOK, RolesTypeOK, roleVars
    <2> QED BY <2>1, <2>2, TypeCorrect, PTL DEF Spec
<1>2. TypeOK /\ GovernorsGovern /\ Locked /\ [Next]_vars
        => Locked' /\ elsewhere' <= elsewhere
    <2> SUFFICES ASSUME TypeOK, GovernorsGovern, Locked, [Next]_vars
                 PROVE  Locked' /\ elsewhere' <= elsewhere
        OBVIOUS
    <2>1. /\ UNCHANGED <<members[GOVERN_ROLE], roleAdmin>>
          /\ members'[PCV_CONTROLLER_ROLE] \subseteq members[PCV_CONTROLLER_ROLE]
        BY UngovernedStep, FiveRoles DEF Locked, TypeOK
    <2> QED BY <2>1, NothingLeaves DEF Locked, People
<1> QED BY <1>1, <1>2, PTL DEF Spec

\* At most one deposit is touched, and what it loses or gains is what the safe
\* address and the rest of the world have more or less.
OneDepositPays(d) ==
    /\ \A e \in Deposits \ {d} : PCVOf(e)' = PCVOf(e)
    /\ PCVOf(d)' + safe' + elsewhere' = PCVOf(d) + safe + elsewhere
    /\ safe' >= safe

\* No token appears or disappears on its way: every call leaves all deposits but
\* one as they were, and moves exactly what that one pays to the safe address or
\* elsewhere; and the safe address never gives anything back.
THEOREM TokensAreConserved ==
    Spec => [][\/ UNCHANGED fundVars
               \/ \E d \in Deposits : OneDepositPays(d)]_vars
<1>1. ASSUME TypeOK, [Next]_vars
      PROVE  UNCHANGED fundVars \/ \E d \in Deposits : OneDepositPays(d)
    <2>0. /\ Amounts \subseteq Nat /\ safe \in Nat /\ elsewhere \in Nat
          /\ \A d \in Deposits : idle[d] \in Nat /\ supplied[d] \in Nat
        BY <1>1, PCVGuardianAssumption DEF TypeOK
    <2>1. ASSUME NEW d \in Deposits, NEW n \in Nat, withdrawToSafe(d, n)
          PROVE  OneDepositPays(d)
        BY <1>1, <2>0, <2>1 DEF withdrawToSafe, OneDepositPays, PCVOf, TypeOK
    <2>2. ASSUME NEW user \in Users, NEW d \in Deposits, NEW n \in Nat,
                 withdrawERC20ToSafeAddress(user, d, n)
          PROVE  OneDepositPays(d)
        BY <1>1, <2>0, <2>2
        DEF withdrawERC20ToSafeAddress, OneDepositPays, PCVOf, TypeOK
    <2>3. ASSUME NEW user \in Users, NEW d \in Deposits, NEW n \in Amounts,
                 withdraw(user, d, n)
          PROVE  OneDepositPays(d)
        BY <1>1, <2>0, <2>3 DEF withdraw, OneDepositPays, PCVOf, TypeOK
    <2>4. ASSUME NEW user \in Users, NEW d \in Deposits, NEW n \in Amounts,
                 withdrawERC20(user, d, n)
          PROVE  OneDepositPays(d)
        BY <1>1, <2>0, <2>4 DEF withdrawERC20, OneDepositPays, PCVOf, TypeOK
    <2>5. ASSUME NEW d \in Deposits, deposit(d) PROVE OneDepositPays(d)
        BY <1>1, <2>0, <2>5 DEF deposit, OneDepositPays, PCVOf, TypeOK
    <2>6. ASSUME NEW d \in Deposits, NEW n \in Amounts, Receive(d, n)
          PROVE  OneDepositPays(d)
        BY <1>1, <2>0, <2>6 DEF Receive, OneDepositPays, PCVOf, TypeOK
    <2>7. CASE Permission
        BY <2>7 DEF Permission
    <2>8. CASE Rescue
        BY <2>0, <2>1, <2>2, <2>8
        DEF Rescue, withdrawToSafeAddress, withdrawAllToSafeAddress,
            withdrawAllERC20ToSafeAddress
    <2>9. CASE Control
        BY <2>3, <2>4, <2>9 DEF Control, addWhitelistAddress,
                                removeWhitelistAddress, setPaused
    <2>10. CASE Environment
        BY <2>5, <2>6, <2>10 DEF Environment
    <2>11. CASE UNCHANGED vars
        BY <2>11 DEF vars
    <2> QED BY <1>1, <2>7, <2>8, <2>9, <2>10, <2>11 DEF Next
<1> QED BY <1>1, TypeCorrect, PTL DEF Spec
==============================================================================

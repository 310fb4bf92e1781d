----------------------------- MODULE Permissions ------------------------------
(***************************************************************************)
(* contracts/core/Permissions.sol over OpenZeppelin's AccessControl, and   *)
(* contracts/pcv/PCVGuardAdmin.sol: who holds which role, which role       *)
(* administers which, and every call that changes it.  Core holds the      *)
(* governor role itself, so that a guardian can revoke through it.  There  *)
(* is no next-state relation of its own; PCVGuardian composes the calls    *)
(* with the deposits the roles protect.                                    *)
(***************************************************************************)
EXTENDS FiniteSets

CONSTANTS
    Users,                  \* accounts that send transactions
    Core, GuardAdmin,       \* the contracts Core and PCVGuardAdmin
    PCVGuardian,            \* the contract PCVGuardian
    GOVERN_ROLE, GUARDIAN_ROLE, PCV_CONTROLLER_ROLE,
    PCV_GUARD_ROLE, PCV_GUARD_ADMIN_ROLE,
    Governor, Guard,        \* the user who governs, the PCV guard, at first
    CreatedRoles,           \* roles whose admin governors may change
    AdminRoles              \* roles they may make an admin

\* Minters and burners are administered like PCV controllers and left out.
StandardRoles == {GOVERN_ROLE, GUARDIAN_ROLE, PCV_CONTROLLER_ROLE}
Roles     == StandardRoles \cup {PCV_GUARD_ROLE, PCV_GUARD_ADMIN_ROLE}
Contracts == {Core, GuardAdmin, PCVGuardian}

ASSUME PermissionsAssumption ==
    /\ Contracts \cap Users = {} /\ Cardinality(Contracts) = 3
    /\ Cardinality(Roles) = 5
    /\ CreatedRoles \subseteq Roles /\ AdminRoles \subseteq Roles
    /\ Governor \in Users /\ Guard \in Users

VARIABLES
    members,                \* [role -> accounts that hold it]
    roleAdmin               \* [role -> role that grants and revokes it]

roleVars == <<members, roleAdmin>>

RolesTypeOK ==
    /\ members \in [Roles -> SUBSET (Users \cup Contracts)]
    /\ roleAdmin \in [Roles -> Roles]

hasRole(role, account) == account \in members[role]

\* As deployed by scripts/l2configuration.ts: the deployer has handed over.
RolesInit ==
    /\ members = [role \in Roles |->
          CASE role = GOVERN_ROLE          -> {Core, Governor}
            [] role = PCV_CONTROLLER_ROLE  -> {PCVGuardian, Governor}
            [] role = GUARDIAN_ROLE        -> {PCVGuardian}
            [] role = PCV_GUARD_ADMIN_ROLE -> {GuardAdmin}
            [] role = PCV_GUARD_ROLE       -> {Guard}]
    /\ roleAdmin = [role \in Roles |->
          IF role = PCV_GUARD_ROLE THEN PCV_GUARD_ADMIN_ROLE ELSE GOVERN_ROLE]

------------------------------------------------------------------------------

\* AccessControl.grantRole()
grantRole(sender, role, account) ==
    /\ hasRole(roleAdmin[role], sender)
    /\ members' = [members EXCEPT ![role] = @ \cup {account}]
    /\ UNCHANGED roleAdmin

\* AccessControl.revokeRole()
revokeRole(sender, role, account) ==
    /\ hasRole(roleAdmin[role], sender)
    /\ members' = [members EXCEPT ![role] = @ \ {account}]
    /\ UNCHANGED roleAdmin

\* AccessControl.renounceRole()
renounceRole(sender, role) ==
    /\ members' = [members EXCEPT ![role] = @ \ {sender}]
    /\ UNCHANGED roleAdmin

\* grantGovernor(), grantGuardian(), grantPCVController()
grantStandardRole(sender, role, account) ==
    /\ hasRole(GOVERN_ROLE, sender)
    /\ grantRole(sender, role, account)

\* revokeGovernor(), revokeGuardian(), revokePCVController()
revokeStandardRole(sender, role, account) ==
    /\ hasRole(GOVERN_ROLE, sender)
    /\ revokeRole(sender, role, account)

\* createRole(): also changes the admin of a role that exists.
createRole(sender, role, adminRole) ==
    /\ hasRole(GOVERN_ROLE, sender)
    /\ roleAdmin' = [roleAdmin EXCEPT ![role] = adminRole]
    /\ UNCHANGED members

\* Faulty variant: governors are not spared.
revokeOverride_AnyRole(sender, role, account) ==
    /\ hasRole(GUARDIAN_ROLE, sender)
    /\ revokeRole(Core, role, account)

\* revokeOverride(): Core calls itself, so that its own roles count.
revokeOverride(sender, role, account) ==
    /\ hasRole(GUARDIAN_ROLE, sender)
    /\ role # GOVERN_ROLE
    /\ revokeRole(Core, role, account)

\* PCVGuardAdmin.grantPCVGuardRole()
grantPCVGuardRole(sender, newGuard) ==
    /\ hasRole(GOVERN_ROLE, sender)
    /\ grantRole(GuardAdmin, PCV_GUARD_ROLE, newGuard)

\* Faulty variant: the caller's own roles count towards the revocation.
revokePCVGuardRole_AsCaller(sender, oldGuard) ==
    /\ hasRole(GOVERN_ROLE, sender) \/ hasRole(GUARDIAN_ROLE, sender)
    /\ revokeRole(sender, PCV_GUARD_ROLE, oldGuard)

\* PCVGuardAdmin.revokePCVGuardRole()
revokePCVGuardRole(sender, oldGuard) ==
    /\ hasRole(GOVERN_ROLE, sender) \/ hasRole(GUARDIAN_ROLE, sender)
    /\ revokeRole(GuardAdmin, PCV_GUARD_ROLE, oldGuard)

\* What a user may do about roles.  To grant a role to an account that has it,
\* or revoke one it does not have, changes nothing and is left out.
RoleCall(user) ==
    \/ \E role \in Roles, account \in Users \cup Contracts :
          /\ account \in members[role]
          /\ revokeRole(user, role, account) \/ revokeOverride(user, role, account)
    \/ \E role \in Roles, account \in Users :
          account \notin members[role] /\ grantRole(user, role, account)
    \/ \E role \in StandardRoles, account \in Users :
          IF account \in members[role]
          THEN revokeStandardRole(user, role, account)
          ELSE grantStandardRole(user, role, account)
    \/ \E role \in Roles : renounceRole(user, role)
    \/ \E role \in CreatedRoles, adminRole \in AdminRoles :
          createRole(user, role, adminRole)
    \/ \E account \in Users :
          grantPCVGuardRole(user, account) \/ revokePCVGuardRole(user, account)
==============================================================================

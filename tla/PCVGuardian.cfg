SPECIFICATION Spec
CONSTANTS
    Users = {gov, ann}
    Core = Core
    GuardAdmin = GuardAdmin
    PCVGuardian = PCVGuardian
    GOVERN_ROLE = GOVERN
    GUARDIAN_ROLE = GUARDIAN
    PCV_CONTROLLER_ROLE = PCV_CONTROLLER
    PCV_GUARD_ROLE = PCV_GUARD
    PCV_GUARD_ADMIN_ROLE = PCV_GUARD_ADMIN
    Governor = gov
    Guard = ann
    CreatedRoles = {PCV_GUARD}
    AdminRoles = {GOVERN, PCV_GUARD_ADMIN}
    Deposits = {d}
    InitialPCV = 1
    Amounts = {1}
INVARIANTS
    GuardiansCanDismissGuards
    RescueAlwaysPossible
PROPERTIES
    UngovernedRolesOnlyShrink
    PCVLeavesOnlyToSafe

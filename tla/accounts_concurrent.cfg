SPECIFICATION Spec
CONSTANTS
    Users = {root, ann}
    BootstrapAdmin = root
    Passwords = {p1}
    NoPassword = empty
    Workspaces = {w1, w2}
    Provisioned = {w1}
    NoWorkspace = none
    RoleInputs = {"super_admin", "admin"}
    Requests = {r1, r2, r3}
SYMMETRY Symmetry
CHECK_DEADLOCK FALSE
INVARIANTS
    TypeOK
    ActiveHasPassword
    InviteLedger
    AccountComplete
    ActiveAdminRemainsAlone
    RedeemedOnceAlone
PROPERTIES
    DisabledUntilReactivatedAlone

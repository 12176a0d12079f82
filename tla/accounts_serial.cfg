SPECIFICATION Spec
CONSTANTS
    Users = {root, ann, bob}
    BootstrapAdmin = root
    Passwords = {p1}
    NoPassword = empty
    Workspaces = {w1, w2}
    Provisioned = {w1}
    NoWorkspace = none
    RoleInputs = {"super_admin", "admin"}
    Requests = {r1}

CHECK_DEADLOCK FALSE
PROPERTIES
    ContractSpec

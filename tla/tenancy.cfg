SPECIFICATION Spec
CONSTANTS
    Users = {u1, u2}
    Workspaces = {w1, w2}
    Environments = {e1, e2}
    Services = {s1}
    None = none
    Requests = {r1}
    MaxNames = 2
    MaxBatches = 1
SYMMETRY Symmetry
CHECK_DEADLOCK FALSE
INVARIANTS
    TypeOK
    OnlyAdmittedWrite
    TenantClosed
    WorkspaceComplete
    BatchWhole

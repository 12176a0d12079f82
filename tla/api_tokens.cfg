SPECIFICATION Spec
CONSTANTS
    Users = {ann, bob}
    Tokens = {t1}
    Requests = {r1, r2, r3}
    AccessTtls = {0, 7}
    Wrap = 8
    Leeway = 1
    MaxAccess = 2
    MaxTime = 3
SYMMETRY Symmetry
INVARIANTS
    TypeOK
    DisabledNotAdmitted
    ExpiredNotAdmitted
    UsedBeforeRevoked
PROPERTIES
    RevokedForGood
    RevocationKept

SPECIFICATION Spec
CONSTANTS
    Users = {u1}
    Tokens = {t1, t2, t3}
    NoToken = none
    Requests = {r1, r2, r3}
SYMMETRY Symmetry
CHECK_DEADLOCK FALSE
INVARIANTS
    TypeOK
    ExchangedIsRevoked
    OneLiveTokenAlone
    LogoutEndsSession

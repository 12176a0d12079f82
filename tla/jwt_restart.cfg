SPECIFICATION FairSpec
CONSTANTS
    Instances = {i1, i2}
    Keys = {k1, k2}
    DefaultKey = k1
    Unset = Unset
    Blank = Blank
    Malformed = Malformed
    Rolling = FALSE
INVARIANTS
    TypeOK
    TokensVerify
    HighestSourceDecides
PROPERTIES
    OldTokensStillVerify
    SigningRestored
    LoneInstanceSigns

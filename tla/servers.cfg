SPECIFICATION FairSpec
CONSTANTS
    k1 = k1
    k2 = k2
    Bits = {0, 1}
    Keys = {k1, k2}
    DefaultKey = k1
    Digest <- MCDigest
    TextBytes <- MCTextBytes
    PrivateMark <- MCMark
    Payloads <- MCPayloads
    Servers = {a, b}
    Requests = {r1}
    MaxTime = 2
    MaxRestarts = 1
    MaxFaults = 1
INVARIANTS
    TypeOK
    RecordCoherent
    SecretsRecovered
PROPERTIES
    LastCheckMonotone
    EveryServerChecked
    LastCheckCatchesUp

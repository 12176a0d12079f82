SPECIFICATION Spec
CONSTANTS
    NameLimit = 2
    ImageLimit = 3
    BodyLimit = 5
    DefaultRoot <- MCDefaultRoot
    DefaultContext <- MCDefaultContext
    Rejections <- MCRejections
    Symbols <- MCSymbols
    Services <- MCServices
    Roots <- MCRoots
    Contexts <- MCContexts
    NoImage = none
    MaxRequests = 1
INVARIANTS
    CommandsReadBack
    PathsUnderRoot
    StatusHonest
    InternalHidden
    StatusAndCodeAgree
CHECK_DEADLOCK FALSE

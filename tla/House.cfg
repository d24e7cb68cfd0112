SPECIFICATION Spec
CONSTANTS
    Workers = {"w1", "w2"}
    Nobody = "nobody"
    Users <- TwoUsers
    Markets <- FourMarkets
    Terms <- SomeTerms
    InitialFunds <- SomeFunds
    GrantTerms <- OneGrant
    Slips = {"k"}
    MaxBets = 3
    MaxStakes = 3
    Mixes <- AllLoads
    MaxGap = 9
    Excess <- SomeExcess
INVARIANTS
    TypeOK
    BetsPaidOnce
    SlipsAllOrNothing
    NothingLeftOpen
    GrantedOnce
    PoolMatchesStakes
    PoolPaysOut
    PathIndependent
    PositionsPaid
    CancelMakesWhole
    LedgerExplainsWallets
PROPERTIES
    QuotesKept
    CapKept
    PromiseKept
CHECK_DEADLOCK FALSE

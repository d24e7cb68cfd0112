SPECIFICATION Spec
CONSTANTS
    Workers = {"w1", "w2"}
    Nobody = "nobody"
    Users <- TwoUsers
    Markets <- FourMarkets
    Terms <- SomeTerms
    InitialFunds <- SomeFunds
    GrantTerms <- OneGrant
    Slips = {"k"}
    MaxBets = 3
    MaxStakes = 3
    Mixes <- CashoutLoad
    MaxGap = 9
    Excess <- SomeExcess
INVARIANT
    BetsPaidOnce
CHECK_DEADLOCK FALSE

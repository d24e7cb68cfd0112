CONSTANTS
    Users <- TwoUsers
    Markets <- OneMarket
    Tickets <- PairTickets
    MaxOrders = 3
    Workers = {w1, w2}
    Nobody = Nobody
    InitialFunds <- Rich2
    TakerFeeBps <- SomeFee
    TimedMarkets = {"m1"}
    Ops = {"place", "cancel", "settle", "annul"}
SPECIFICATION Spec
INVARIANTS EngineInv ContractsPair LedgerExplainsWallets
PROPERTIES FillsAreKept
CHECK_DEADLOCK FALSE

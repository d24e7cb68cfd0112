CONSTANTS
    Users <- TwoUsers
    Markets <- OneMarket
    Tickets <- PairTickets
    MaxOrders = 2
    Workers = {w1, w2}
    Nobody = Nobody
    InitialFunds <- Rich2
    TakerFeeBps <- SomeFee
    TimedMarkets = {"m1"}
    Ops = {"place", "cancel", "settle", "annul"}
SPECIFICATION FairSpec
PROPERTIES RequestsEnd
CHECK_DEADLOCK FALSE

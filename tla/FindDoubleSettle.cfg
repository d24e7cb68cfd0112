CONSTANTS
    Users <- TwoUsers
    Markets <- OneMarket
    Tickets <- PairTickets
    MaxOrders = 2
    Workers = {w1, w2}
    Nobody = Nobody
    InitialFunds <- Rich2
    TakerFeeBps <- SomeFee
    TimedMarkets = {}
    Ops = {"place", "settle"}
SPECIFICATION Spec
INVARIANTS PaidOnce
CHECK_DEADLOCK FALSE

CONSTANTS
    Users <- ThreeUsers
    Markets <- OneMarket
    Tickets <- BuyTickets
    MaxOrders = 4
    Workers = {w1}
    Nobody = Nobody
    InitialFunds <- Tight3
    TakerFeeBps <- SomeFee
    TimedMarkets = {}
    Ops = {"place", "cancel"}
SPECIFICATION Spec
INVARIANTS BookUncrossed
PROPERTIES PriceTimePriority

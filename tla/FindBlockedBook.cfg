CONSTANTS
    Users <- TwoUsers
    Markets <- OneMarket
    Tickets <- OfferTickets
    MaxOrders = 4
    Workers = {w1}
    Nobody = Nobody
    InitialFunds <- Rich2
    TakerFeeBps <- SomeFee
    TimedMarkets = {}
    Ops = {"place"}
SPECIFICATION Spec
INVARIANTS BookUncrossed
CHECK_DEADLOCK FALSE

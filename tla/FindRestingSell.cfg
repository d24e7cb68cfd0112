CONSTANTS
    Users <- ThreeUsers
    Markets <- OneMarket
    Tickets <- SelfTickets
    MaxOrders = 4
    Workers = {w1}
    Nobody = Nobody
    InitialFunds <- Rich3
    TakerFeeBps <- SomeFee
    TimedMarkets = {}
    Ops = {"place"}
SPECIFICATION Spec
INVARIANTS ReservedBacksOrders
CHECK_DEADLOCK FALSE

CONSTANTS
    Users <- ThreeUsers
    Markets <- OneMarket
    Tickets <- FinalTickets
    MaxOrders = 4
    Workers = {w1}
    Nobody = Nobody
    InitialFunds <- Rich3
    TakerFeeBps <- SomeFee
    TimedMarkets = {"m1"}
    Ops = {"place", "cancel", "settle", "annul"}
SPECIFICATION Spec
INVARIANTS NoOversell PaidOnce MadeWhole ClosedBooksAreEmpty Collateralised
CHECK_DEADLOCK FALSE

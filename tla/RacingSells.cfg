CONSTANTS
    Users <- ThreeUsers
    Markets <- OneMarket
    Tickets <- SellTickets
    MaxOrders = 4
    Workers = {w1, w2}
    Nobody = Nobody
    InitialFunds <- Rich3
    TakerFeeBps <- SomeFee
    TimedMarkets = {}
    Ops = {"place", "cancel"}
SPECIFICATION Spec
INVARIANTS RowsAddUp Collateralised

CONSTANTS
    Users <- TwoUsers
    Markets <- OneMarket
    Tickets <- RaceTickets
    MaxOrders = 4
    Workers = {w1, w2}
    Nobody = Nobody
    InitialFunds <- Tight2
    TakerFeeBps <- SomeFee
    TimedMarkets = {}
    Ops = {"place", "cancel"}
SPECIFICATION Spec
INVARIANTS RowsAddUp ReservedBacksOrders TakersNeverRest

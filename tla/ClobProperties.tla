--------------------------- MODULE ClobProperties ---------------------------
(***************************************************************************)
(* What the CLOB services promise, over the committed state of ClobEngine. *)
(***************************************************************************)
EXTENDS ClobEngine

Total(wallet) == wallet.available + wallet.reserved

\* Committed active rows, and those of one user.
Resting == {i \in Ids(orders) : Active(orders[i])}

Position(u, m, side) == NetPosition(orders, u, m, side)

\* The contracts of one side that users hold.
Outstanding(m, side) == SumFunction([u \in Users |-> Position(u, m, side)])

TypeOK ==
    /\ orders \in [OrderIds -> Row]
    /\ draft \in [OrderIds -> Row]
    /\ owner \in [OrderIds -> Workers \cup {Nobody}]
    /\ wallets \in [Users -> Wallet]
    /\ purse \in [Users -> Wallet]
    /\ holder \in [Users -> Workers \cup {Nobody}]
    /\ market \in [Markets -> MarketStatus]
    /\ keeper \in [Markets -> Workers \cup {Nobody}]
    /\ expired \in SUBSET Markets
    /\ pc \in [Workers -> Statement]
    /\ req \in [Workers -> Request]
    /\ tx \in [Workers -> [order : OrderIds \cup {0}, batch : [OrderIds -> Row],
                           payees : SUBSET Users, due : Nat, probed : BOOLEAN]]

\* A row's quantities account for its whole quantity exactly when it has left the
\* book: no fill and no cancellation is ever lost or counted twice, whatever
\* transactions worked on the row.  (Spec invariant 14 is its first half.)
RowsAddUp ==
    \A i \in Ids(orders) :
        /\ orders[i].filled + orders[i].cancelled <= orders[i].ticket.quantity
        /\ Active(orders[i]) <=> Unfilled(orders[i]) > 0

\* A committed fill stays: no transaction overwrites it from an older copy of the
\* row, and an order that has left the book does not come back.
FillsAreKept ==
    [][\A i \in OrderIds :
          /\ orders'[i].filled >= orders[i].filled
          /\ Exists(orders[i]) /\ ~Active(orders[i]) => ~Active(orders'[i])]_orders

\* The reserved column of a wallet is what its owner's resting buy orders need, and
\* nothing else: no fill or cancellation releases too much or too little.
ReservedBacksOrders ==
    \A u \in Users :
        wallets[u].reserved =
            SumFunctionOnSet([i \in OrderIds |-> Reserved(orders[i])],
                             {i \in Resting : orders[i].ticket.user = u})

\* Contracts exist in YES/NO pairs, however the fills that made and moved them
\* interleave.
ContractsPair ==
    \A m \in Markets :
        Outstanding(m, "YES") = Outstanding(m, "NO")

\* The platform can always pay: what users hold plus the payout of every pair that
\* is still outstanding never exceeds what was granted to them.
Collateralised ==
    LET live == {m \in Markets : market[m] \in {"open", "closed"}}
        pairs == [m \in Markets |-> Outstanding(m, "YES")]
    IN  SumFunction([u \in Users |-> Total(wallets[u])])
          + PayoutCents * SumFunctionOnSet(pairs, live)
            <= SumFunction(InitialFunds)

\* A wallet can be derived from the ledger, by the types of its entries: no balance moves
\* without its entry, and none is booked without a move.  It is not derived by their
\* directions: ORDER_FILL_CREDIT says "credit" of the stake that the maker pays, so that
\* credits less debits come out too high by twice the stakes of a user's fills as maker.
LedgerExplainsWallets ==
    \A u \in Users :
        Total(wallets[u]) = InitialFunds[u]
            + SumFunction([m \in Markets |-> wallets[u].won[m] - Outlay(wallets[u], m)])

\* Nobody promises or sells contracts they do not hold.
NoOversell ==
    \A u \in Users, m \in Markets, side \in Sides :
        Position(u, m, side) >= Committed(orders, u, m, side, 0)

\* FOK orders are filled completely or not at all and never rest; IOC orders never
\* rest.
TakersNeverRest ==
    \A i \in Ids(orders) :
        LET row == orders[i]
        IN  /\ row.ticket.tif # "gtc" => ~Active(row)
            /\ row.ticket.tif = "fok" => row.filled \in {0, row.ticket.quantity}

\* The book is never crossed: bids on the two sides do not add up to the payout, and
\* no bid reaches a resting sell of its side.
BookUncrossed ==
    \A i, j \in Resting :
        LET a == orders[i].ticket
            b == orders[j].ticket
        IN  a.market = b.market /\ Buys(a) =>
              /\ Buys(b) /\ a.side # b.side => a.price + b.price < PayoutCents
              /\ ~Buys(b) /\ a.side = b.side => a.price < b.price

\* Price-time priority among bids: one that rested before a transaction gets nothing
\* from it while a higher bid, or an older one of its price, keeps a remainder.
PriceTimePriority ==
    [][\A i, j \in Resting :
          LET a == orders[i].ticket
              b == orders[j].ticket
          IN  /\ a.market = b.market /\ a.side = b.side /\ Buys(a) /\ Buys(b)
              /\ a.price > b.price \/ (a.price = b.price /\ i < j)
              /\ orders'[j].filled > orders[j].filled
              => ~Active(orders'[i])]_orders

\* A settled market has paid every user for the net position on one and the same
\* side, once.
PaidOnce ==
    \A m \in Markets :
        market[m] = "settled" =>
            \E side \in Sides :
                \A u \in Users : wallets[u].won[m] = PayoutCents * Position(u, m, side)

\* Once every market is cancelled everyone has all their money back, and may use it.
MadeWhole ==
    (\A m \in Markets : market[m] = "cancelled") =>
        \A u \in Users :
            wallets[u].available = InitialFunds[u] /\ wallets[u].reserved = 0

\* No order of a market that is settled or cancelled is still in the book.
ClosedBooksAreEmpty ==
    \A i \in Resting : market[orders[i].ticket.market] \in {"open", "closed"}

\* Every request ends, whatever the lock waits and the deadlocks on its way.
RequestsEnd == \A w \in Workers : (pc[w] # "idle") ~> (pc[w] = "idle")

----------------------------------------------------------------------------
(***************************************************************************)
(* The inductive invariant behind FillsAreKept and TypeOK.                 *)
(***************************************************************************)

PlacePCs  == Placing \cup {"insert"}
CancelPCs == {"row", "unreserve"}
SettlePCs == {"snapshot", "sweep", "release", "pay", "credit"}
AnnulPCs  == {"annul", "wallet", "void", "refund"}

\* A worker at a statement of a service is serving a request for that service.
Serving(w) ==
    /\ pc[w] = "idle" => req[w] = NoRequest /\ tx[w] = NoTx
    /\ pc[w] \in PlacePCs => req[w].op = "place"
    /\ pc[w] = "insert" => tx[w] = NoTx
    /\ pc[w] \in {"reserve", "scan"} => Buys(req[w].ticket)
    /\ pc[w] \in Placing \cup {"release"} => tx[w].order \in OrderIds
    /\ pc[w] \in CancelPCs => req[w].op = "cancel"
    /\ pc[w] \in SettlePCs => req[w].op = "settle"
    /\ pc[w] \in AnnulPCs => req[w].op = "annul"

\* An active row has something left to fill; an absent row is blank.
RowOK(row) ==
    /\ Active(row) => Unfilled(row) > 0
    /\ ~Exists(row) => row = NoRow

\* Every row that w has still to visit was active when it was loaded.
BatchOK(w) ==
    \A i \in OrderIds :
        /\ RowOK(tx[w].batch[i])
        /\ Exists(tx[w].batch[i]) => Active(tx[w].batch[i])

\* A placement holds the locks of its own, uncommitted row and of the resting rows
\* it has still to visit, and what it has loaded of these is their current value.
PlacementOK(w) ==
    req[w].op = "place" =>
        LET i == tx[w].order
            batch == tx[w].batch
        IN  /\ i \in OrderIds =>
                 /\ owner[i] = w /\ ~Exists(orders[i]) /\ ~Exists(batch[i])
                 /\ draft[i].ticket = req[w].ticket
                 /\ Unfilled(draft[i]) >= 0
            /\ \A j \in OrderIds : Exists(batch[j]) => owner[j] = w /\ draft[j] = batch[j]

\* The row `new` may follow the committed row `old`.
Extends(new, old) ==
    /\ new.filled >= old.filled
    /\ Exists(old) => Exists(new)
    /\ Exists(old) /\ ~Active(old) => ~Active(new)

\* What a transaction may publish only adds to what is committed, and only rows
\* that exist are locked.
DraftsExtend ==
    \A i \in OrderIds :
        /\ RowOK(orders[i]) /\ RowOK(draft[i])
        /\ Extends(draft[i], orders[i])
        /\ owner[i] # Nobody => Exists(draft[i])

WorkersOK == \A w \in Workers : Serving(w) /\ BatchOK(w) /\ PlacementOK(w)

EngineInv == TypeOK /\ DraftsExtend /\ WorkersOK
=============================================================================

----------------------------- MODULE ClobEngine -----------------------------
(***************************************************************************)
(* The CLOB services as concurrent PostgreSQL transactions.                *)
(*                                                                         *)
(* A worker (a Puma thread or a job runner) serves one request at a time:  *)
(* Clob::OrderMatchingService, Clob::OrderCancellationService,             *)
(* SettlementService with its CLOB handler, or MarketCancellationService.  *)
(* Transactions run at READ COMMITTED.  A step runs one statement that may *)
(* wait for a row lock, and the code up to the next such statement.        *)
(*                                                                         *)
(* Of every order and wallet row there is the committed version and, while *)
(* a worker holds its lock, the version that worker has written.  Ledger   *)
(* entries are only written by the holder of their user's wallet row, so   *)
(* their sums are kept in it.                                              *)
(***************************************************************************)
EXTENDS ClobBook

CONSTANTS
    Workers,        \* server processes, each with a database connection
    Nobody,         \* the holder of an unlocked row
    InitialFunds,   \* [Users -> Nat]: what the faucet has granted
    TakerFeeBps,    \* [Markets -> 0 .. 200], hundredths of a percent
    TimedMarkets,   \* the markets that have a close_at
    Ops             \* bound: the requests clients make in a run

ASSUME NobodyAssumption == Nobody \notin Workers
ASSUME FundsAssumption == InitialFunds \in [Users -> Nat]
ASSUME FeesAssumption == TakerFeeBps \in [Markets -> 0 .. 200]
ASSUME OpsAssumption == Ops \subseteq {"place", "cancel", "settle", "annul"}

VARIABLES
    orders,    \* [OrderIds -> Row], committed
    draft,     \* [OrderIds -> Row], as written by the lock's holder
    owner,     \* [OrderIds -> Workers or Nobody], the row locks on orders
    wallets,   \* [Users -> Wallet], committed
    purse,     \* [Users -> Wallet], as written by the lock's holder
    holder,    \* [Users -> Workers or Nobody], the row locks on wallets
    market,    \* [Markets -> MarketStatus], committed
    keeper,    \* [Markets -> Workers or Nobody], who locked a market row for an update
    expired,   \* the markets whose close_at has passed
    pc,        \* [Workers -> statement about to run]
    req,       \* [Workers -> the request being served]
    tx         \* [Workers -> the request's local variables]

orderVars  == <<orders, draft, owner>>
walletVars == <<wallets, purse, holder>>
marketVars == <<market, keeper, expired>>
vars == <<orders, draft, owner, wallets, purse, holder, market, keeper, expired, pc, req, tx>>

MarketStatus == {"open", "closed", "settled", "cancelled"}

\* available and reserved are the columns; of each market, spent is
\* ORDER_FILL_STAKE + ORDER_FILL_CREDIT - CLOB_SELL_CREDIT, fees is CLOB_FEE and
\* won is SETTLEMENT_WIN + MARKET_CANCEL_REFUND - MARKET_CANCEL_CLAWBACK.  An
\* ORDER_FILL_CREDIT has the direction "credit", but is booked for the stake that a fill
\* takes out of the maker's reserved money: it is counted as paid, as
\* MarketCancellationService counts it, and not by its direction.
Wallet ==
    [available : Nat, reserved : Nat,
     spent : [Markets -> Int], fees : [Markets -> Nat], won : [Markets -> Int]]

NewWallet(funds) ==
    LET Zero == [m \in Markets |-> 0]
    IN  [available |-> funds, reserved |-> 0, spent |-> Zero, fees |-> Zero, won |-> Zero]

Request ==
    [op : {"place"}, ticket : Tickets]
      \cup [op : {"cancel"}, order : OrderIds]
      \cup [op : {"settle"}, market : Markets, outcome : Sides]
      \cup [op : {"annul"}, market : Markets]
      \cup [op : {"none"}]

NoRequest == [op |-> "none"]

NoBatch == [i \in OrderIds |-> NoRow]

\* order: the row worked on; batch: rows loaded and not yet visited; payees: users
\* not yet paid; due: an amount computed but not yet booked; probed: the FOK
\* check has passed.
NoTx == [order |-> 0, batch |-> NoBatch, payees |-> {}, due |-> 0, probed |-> FALSE]

\* Placements past their INSERT, whose foreign key share-locks the market row.
Placing == {"reserve", "position", "scan", "cross", "fill", "seller", "stamp"}

Statement ==
    Placing \cup {"idle", "insert", "commit", "row", "unreserve", "snapshot", "sweep",
                  "release", "pay", "credit", "annul", "wallet", "void", "refund"}

Init ==
    /\ orders = NoBatch
    /\ draft = NoBatch
    /\ owner = [i \in OrderIds |-> Nobody]
    /\ wallets = [u \in Users |-> NewWallet(InitialFunds[u])]
    /\ purse = wallets
    /\ holder = [u \in Users |-> Nobody]
    /\ market = [m \in Markets |-> "open"]
    /\ keeper = [m \in Markets |-> Nobody]
    /\ expired = {}
    /\ pc = [w \in Workers |-> "idle"]
    /\ req = [w \in Workers |-> NoRequest]
    /\ tx = [w \in Workers |-> NoTx]

----------------------------------------------------------------------------
(***************************************************************************)
(* Transactions.                                                           *)
(***************************************************************************)

\* What a plain SELECT of w's transaction sees.
OrdersSeenBy(w) == [i \in OrderIds |-> IF owner[i] = w THEN draft[i] ELSE orders[i]]
WalletSeenBy(w, u) == IF holder[u] = w THEN purse[u] ELSE wallets[u]

OrderFree(w, i)  == owner[i] \in {w, Nobody}
WalletFree(w, u) == holder[u] \in {w, Nobody}
MarketFree(w, m) == keeper[m] \in {w, Nobody}

LockOrder(w, i)  == owner' = [owner EXCEPT ![i] = w]
LockWallet(w, u) == holder' = [holder EXCEPT ![u] = w]
LockMarket(w, m) == keeper' = [keeper EXCEPT ![m] = w]

Goto(w, statement) == pc' = [pc EXCEPT ![w] = statement]

Unlock(w) ==
    /\ owner' = [i \in OrderIds |-> IF owner[i] = w THEN Nobody ELSE owner[i]]
    /\ holder' = [u \in Users |-> IF holder[u] = w THEN Nobody ELSE holder[u]]
    /\ keeper' = [m \in Markets |-> IF keeper[m] = w THEN Nobody ELSE keeper[m]]

EndRequest(w) ==
    /\ Goto(w, "idle")
    /\ req' = [req EXCEPT ![w] = NoRequest]
    /\ tx' = [tx EXCEPT ![w] = NoTx]

\* ROLLBACK, for whatever reason; the services answer with a failure.
Rollback(w) ==
    /\ draft' = [i \in OrderIds |-> IF owner[i] = w THEN orders[i] ELSE draft[i]]
    /\ purse' = [u \in Users |-> IF holder[u] = w THEN wallets[u] ELSE purse[u]]
    /\ Unlock(w)
    /\ EndRequest(w)
    /\ UNCHANGED <<orders, wallets, market, expired>>

\* The market status that the request writes, if it writes one.
FinalStatus(r, m) ==
    IF r.op = "settle" /\ r.market = m THEN "settled"
    ELSE IF r.op = "annul" /\ r.market = m THEN "cancelled"
    ELSE market[m]

Commit(w) ==
    /\ pc[w] = "commit"
    /\ orders' = [i \in OrderIds |-> IF owner[i] = w THEN draft[i] ELSE orders[i]]
    /\ wallets' = [u \in Users |-> IF holder[u] = w THEN purse[u] ELSE wallets[u]]
    /\ market' = [m \in Markets |-> FinalStatus(req[w], m)]
    /\ Unlock(w)
    /\ EndRequest(w)
    /\ UNCHANGED <<draft, purse, expired>>

\* Mutant: the reserved column is not validated.
AvailableSolvent(wallet) == wallet.available >= 0

\* Wallet#update! refuses a negative balance.
Solvent(wallet) == wallet.available >= 0 /\ wallet.reserved >= 0

\* amount: from available to reserved, back, or out of reserved for a fill on m.
Reserve(wallet, amount) ==
    [wallet EXCEPT !.available = @ - amount, !.reserved = @ + amount]
Release(wallet, amount) ==
    [wallet EXCEPT !.available = @ + amount, !.reserved = @ - amount]
\* Mutant: no ledger entry.
SpendUnbooked(wallet, m, amount) ==
    [wallet EXCEPT !.reserved = @ - amount]

SpendReserved(wallet, m, amount) ==
    [wallet EXCEPT !.reserved = @ - amount, !.spent[m] = @ + amount]

----------------------------------------------------------------------------
(***************************************************************************)
(* Clob::OrderMatchingService.                                             *)
(***************************************************************************)

\* The next value of the id sequence.
IsNextId(i) ==
    /\ ~Exists(draft[i])
    /\ \A j \in Ids(draft) : j < i
    /\ i = 1 \/ i - 1 \in Ids(draft)

\* Bound: StartPlace leaves a free id to every placement about to insert.
IdsLeft ==
    \E i \in OrderIds :
        IsNextId(i) /\ i + Cardinality({v \in Workers : pc[v] = "insert"}) <= MaxOrders

\* The market is loaded and its status and close_at are looked at here, once.
StartPlace(w, t) ==
    /\ pc[w] = "idle"
    /\ "place" \in Ops
    /\ IdsLeft
    /\ market[t.market] = "open"
    /\ t.market \notin expired
    /\ req' = [req EXCEPT ![w] = [op |-> "place", ticket |-> t]]
    /\ Goto(w, "insert")
    /\ UNCHANGED <<orderVars, walletVars, marketVars, tx>>

\* FOR UPDATE, as MarketCancellationService takes it, conflicts with every lock of
\* the market row; fills and settlements only with each other and with it.
AnnulHolds(m) == \E v \in Workers : keeper[m] = v /\ req[v].op = "annul"

Insert(w) ==
    LET t == req[w].ticket
    IN  /\ pc[w] = "insert"
        /\ ~AnnulHolds(t.market)
        /\ \E i \in OrderIds :
              /\ IsNextId(i)
              /\ draft' = [draft EXCEPT ![i] = NewRow(t)]
              /\ LockOrder(w, i)
              /\ tx' = [tx EXCEPT ![w].order = i]
        /\ Goto(w, IF Buys(t) THEN "reserve" ELSE "position")
        /\ UNCHANGED <<orders, walletVars, marketVars, req>>

\* reserve_funds!
ReserveFunds(w) ==
    LET u == req[w].ticket.user
        reservation == Reserved(draft[tx[w].order])
    IN  /\ pc[w] = "reserve"
        /\ WalletFree(w, u)
        /\ \/ /\ purse[u].available < reservation
              /\ Rollback(w)
           \/ /\ purse[u].available >= reservation
              /\ LockWallet(w, u)
              /\ purse' = [purse EXCEPT ![u] = Reserve(@, reservation)]
              /\ Goto(w, "scan")
              /\ UNCHANGED <<orderVars, wallets, marketVars, req, tx>>

\* Mutant: contracts promised to other resting sells count as free.
HeldPosition(w) ==
    LET t == req[w].ticket
    IN  NetPosition(OrdersSeenBy(w), t.user, t.market, t.side)

\* The contracts that the user of w's sell order may still promise.
FreePosition(w) ==
    LET t == req[w].ticket
        rows == OrdersSeenBy(w)
    IN  NetPosition(rows, t.user, t.market, t.side)
          - Committed(rows, t.user, t.market, t.side, tx[w].order)

\* validate_sell_position!, which locks nothing.
CheckPosition(w) ==
    LET t == req[w].ticket
    IN  /\ pc[w] = "position"
        /\ \/ /\ FreePosition(w) < t.quantity
              /\ Rollback(w)
           \/ /\ FreePosition(w) >= t.quantity
              /\ Goto(w, "cross")
              /\ UNCHANGED <<orderVars, walletVars, marketVars, req, tx>>

\* Mutant: the query does not lock, and sees rows that others are working on.
Matching(w, side, direction) ==
    {i \in OrderIds : Listed(draft[i], req[w].ticket.market, side, direction)}

\* FOR UPDATE SKIP LOCKED: the matching rows that no other transaction holds.
Lockable(w, side, direction) ==
    {i \in OrderIds : OrderFree(w, i)
                        /\ Listed(draft[i], req[w].ticket.market, side, direction)}

LockAll(w, S) == owner' = [i \in OrderIds |-> IF i \in S THEN w ELSE owner[i]]

\* A batch with the rows S read into it.
Loaded(batch, S) == [i \in OrderIds |-> IF i \in S THEN draft[i] ELSE batch[i]]

\* resting_for: the first query of a buy order, for resting sells of its side.
Scan(w) ==
    LET S == Lockable(w, req[w].ticket.side, "sell")
    IN  /\ pc[w] = "scan"
        /\ LockAll(w, S)
        /\ tx' = [tx EXCEPT ![w].batch = Loaded(NoBatch, S)]
        /\ Goto(w, "cross")
        /\ UNCHANGED <<orders, draft, walletVars, marketVars, req>>

\* The rows of the last query of resting_for.
CrossRows(w) ==
    LET t == req[w].ticket
    IN  Lockable(w, IF Buys(t) THEN Opposite(t.side) ELSE t.side, "buy")

\* What is left of an IOC or FOK order is cancelled, and a buy gets it back.  S are
\* the rows that the statement before locked.
DropRemainder(w, S) ==
    LET i == tx[w].order
        u == req[w].ticket.user
        p == Release(purse[u], Reserved(draft[i]))
    IN  \/ /\ ~Solvent(p)
           /\ Rollback(w)
        \/ /\ Solvent(p)
           /\ draft' = [draft EXCEPT ![i] = CancelRemainder(@)]
           /\ purse' = [purse EXCEPT ![u] = p]
           /\ LockAll(w, S)
           /\ Goto(w, "commit")
           /\ UNCHANGED <<orders, wallets, holder, marketVars, req, tx>>

\* The last query.  A FOK order counts what it found first; it queries again if
\* that suffices and is cancelled if not.
Cross(w) ==
    LET t == req[w].ticket
        batch == Loaded(tx[w].batch, CrossRows(w))
        probing == t.tif = "fok" /\ ~tx[w].probed
    IN  /\ pc[w] = "cross"
        /\ \/ /\ ~probing
              /\ LockAll(w, CrossRows(w))
              /\ tx' = [tx EXCEPT ![w].batch = batch]
              /\ Goto(w, "fill")
              /\ UNCHANGED <<orders, draft, walletVars, marketVars, req>>
           \/ /\ probing /\ Matchable(t, batch) >= t.quantity
              /\ LockAll(w, CrossRows(w))
              /\ tx' = [tx EXCEPT ![w].batch = NoBatch, ![w].probed = TRUE]
              /\ Goto(w, IF Buys(t) THEN "scan" ELSE "cross")
              /\ UNCHANGED <<orders, draft, walletVars, marketVars, req>>
           \/ /\ probing /\ Matchable(t, batch) < t.quantity
              /\ DropRemainder(w, CrossRows(w))

\* May the loop of match! go on, and with which resting row?
Fillable(w, r) ==
    /\ Unfilled(draft[tx[w].order]) > 0
    /\ IsFirst(tx[w].batch, r)
    /\ Compatible(req[w].ticket, tx[w].batch[r].ticket)

\* The wallets after a fill of q: the resting order's stake leaves its owner's
\* reservation, and so does the incoming one's if it buys.
AfterFill(w, r, q) ==
    LET t == req[w].ticket
        resting == tx[w].batch[r]
        u == resting.ticket.user
        m == t.market
        p == [purse EXCEPT ![u] = SpendReserved(@, m, Stake(resting, q))]
    IN  IF Buys(t)
        THEN [p EXCEPT ![t.user] = SpendReserved(@, m, Stake(draft[tx[w].order], q))]
        ELSE p

\* execute_fill! and execute_sell_fill! up to the update of the market row.  due
\* is the fee of a buy, or the proceeds of a sell.
FillOrder(w, r) ==
    LET t == req[w].ticket
        i == tx[w].order
        resting == tx[w].batch[r]
        u == resting.ticket.user
        q == Smaller(Unfilled(draft[i]), Unfilled(resting))
        p == AfterFill(w, r, q)
    IN  /\ pc[w] = "fill"
        /\ Fillable(w, r)
        /\ WalletFree(w, u)
        /\ \/ /\ ~(Solvent(p[u]) /\ Solvent(p[t.user]))
              /\ Rollback(w)
           \/ /\ Solvent(p[u]) /\ Solvent(p[t.user])
              /\ draft' = [draft EXCEPT ![i] = FillRow(@, q), ![r] = FillRow(resting, q)]
              /\ LockWallet(w, u)
              /\ purse' = p
              /\ tx' = [tx EXCEPT ![w].batch[r] = NoRow,
                                  ![w].due = IF Buys(t)
                                             THEN TakerFee(Stake(draft[i], q),
                                                           TakerFeeBps[t.market])
                                             ELSE Stake(resting, q)]
              /\ Goto(w, IF Buys(t) THEN "stamp" ELSE "seller")
              /\ UNCHANGED <<orders, owner, wallets, marketVars, req>>

\* The seller is credited under the wallet lock, taken after the buyer's.
CreditSeller(w) ==
    LET t == req[w].ticket
    IN  /\ pc[w] = "seller"
        /\ WalletFree(w, t.user)
        /\ LockWallet(w, t.user)
        /\ purse' = [purse EXCEPT ![t.user].available = @ + tx[w].due,
                                  ![t.user].spent[t.market] = @ - tx[w].due]
        /\ tx' = [tx EXCEPT ![w].due = 0]
        /\ Goto(w, "stamp")
        /\ UNCHANGED <<orderVars, wallets, marketVars, req>>

\* The fill price is written to the market row, then the taker pays the fee.
StampMarket(w) ==
    LET t == req[w].ticket
        fee == tx[w].due
    IN  /\ pc[w] = "stamp"
        /\ MarketFree(w, t.market)
        /\ \/ /\ purse[t.user].available < fee
              /\ Rollback(w)
           \/ /\ purse[t.user].available >= fee
              /\ LockMarket(w, t.market)
              /\ purse' = [purse EXCEPT ![t.user].available = @ - fee,
                                        ![t.user].fees[t.market] = @ + fee]
              /\ tx' = [tx EXCEPT ![w].due = 0]
              /\ Goto(w, "fill")
              /\ UNCHANGED <<orderVars, wallets, holder, market, expired, req>>

\* The end of the loop: apply_tif_cancellation!, then the audit events.
FinishPlace(w) ==
    LET drop == req[w].ticket.tif = "ioc" /\ Unfilled(draft[tx[w].order]) > 0
    IN  /\ pc[w] = "fill"
        /\ \A r \in OrderIds : ~Fillable(w, r)
        /\ \/ /\ drop
              /\ DropRemainder(w, {})
           \/ /\ ~drop
              /\ Goto(w, "commit")
              /\ UNCHANGED <<orderVars, walletVars, marketVars, req, tx>>

----------------------------------------------------------------------------
(***************************************************************************)
(* Clob::OrderCancellationService.                                         *)
(***************************************************************************)

StartCancel(w, i) ==
    /\ pc[w] = "idle"
    /\ "cancel" \in Ops
    /\ Exists(orders[i])
    /\ req' = [req EXCEPT ![w] = [op |-> "cancel", order |-> i]]
    /\ Goto(w, "row")
    /\ UNCHANGED <<orderVars, walletVars, marketVars, tx>>

\* The row is locked and read again; only an active order can be cancelled.
CancelOrder(w) ==
    LET i == req[w].order
    IN  /\ pc[w] = "row"
        /\ OrderFree(w, i)
        /\ \/ /\ ~Active(draft[i])
              /\ Rollback(w)
           \/ /\ Active(draft[i])
              /\ LockOrder(w, i)
              /\ draft' = [draft EXCEPT ![i] = CancelRow(@, @)]
              /\ tx' = [tx EXCEPT ![w].due = Reserved(draft[i])]
              /\ Goto(w, "unreserve")
              /\ UNCHANGED <<orders, walletVars, marketVars, req>>

\* The wallet update of a cancellation of order i that ends at `next`.
ReleaseFunds(w, i, next) ==
    LET u == draft[i].ticket.user
        p == Release(purse[u], tx[w].due)
    IN  /\ WalletFree(w, u)
        /\ \/ /\ ~Solvent(p)
              /\ Rollback(w)
           \/ /\ Solvent(p)
              /\ LockWallet(w, u)
              /\ purse' = [purse EXCEPT ![u] = p]
              /\ tx' = [tx EXCEPT ![w].due = 0, ![w].order = 0]
              /\ Goto(w, next)
              /\ UNCHANGED <<orderVars, wallets, marketVars, req>>

Unreserve(w) == pc[w] = "unreserve" /\ ReleaseFunds(w, req[w].order, "commit")

----------------------------------------------------------------------------
(***************************************************************************)
(* SettlementService and Settlement::ClobSettlementHandler.                *)
(***************************************************************************)

\* Mutant: a settled market may be settled again.
NotCancelled(m) == market[m] # "cancelled"

Settleable(m) == market[m] \in {"open", "closed"}

\* The market is loaded, and its status checked, without a lock.
StartSettle(w, m, outcome) ==
    /\ pc[w] = "idle"
    /\ "settle" \in Ops
    /\ Settleable(m)
    /\ req' = [req EXCEPT ![w] = [op |-> "settle", market |-> m, outcome |-> outcome]]
    /\ Goto(w, "snapshot")
    /\ UNCHANGED <<orderVars, walletVars, marketVars, tx>>

\* Mutant: partially filled orders are forgotten.
OpenRows(w, m) ==
    [i \in OrderIds |->
        IF OrdersSeenBy(w)[i].status = "open" /\ OrdersSeenBy(w)[i].ticket.market = m
        THEN OrdersSeenBy(w)[i] ELSE NoRow]

\* find_each loads the market's active orders in one query, unlocked.
ActiveRows(w, m) ==
    [i \in OrderIds |->
        IF Active(OrdersSeenBy(w)[i]) /\ OrdersSeenBy(w)[i].ticket.market = m
        THEN OrdersSeenBy(w)[i] ELSE NoRow]

Snapshot(w) ==
    /\ pc[w] = "snapshot"
    /\ tx' = [tx EXCEPT ![w].batch = ActiveRows(w, req[w].market)]
    /\ Goto(w, "sweep")
    /\ UNCHANGED <<orderVars, walletVars, marketVars, req>>

\* The next row of a batch, in id order.
IsNext(batch, i) == i \in Ids(batch) /\ \A j \in Ids(batch) : i <= j

\* Pass 1: cancel the row as it was loaded; a buy's reservation is then released.
SweepOrder(w, i) ==
    LET seen == tx[w].batch[i]
    IN  /\ pc[w] = "sweep"
        /\ IsNext(tx[w].batch, i)
        /\ OrderFree(w, i)
        /\ LockOrder(w, i)
        /\ draft' = [draft EXCEPT ![i] = CancelRow(@, seen)]
        /\ tx' = [tx EXCEPT ![w].batch[i] = NoRow, ![w].order = i, ![w].due = Reserved(seen)]
        /\ Goto(w, IF Reserved(seen) = 0 THEN "sweep" ELSE "release")
        /\ UNCHANGED <<orders, walletVars, marketVars, req>>

ReleaseSwept(w) == pc[w] = "release" /\ ReleaseFunds(w, tx[w].order, "sweep")

\* Mutant: only the owners of completely filled orders.
FilledWinners(w) ==
    {u \in Users : \E i \in OrderIds :
        LET row == OrdersSeenBy(w)[i]
        IN  /\ row.status = "filled"
            /\ row.ticket.user = u
            /\ row.ticket.market = req[w].market /\ row.ticket.side = req[w].outcome}

\* Pass 2: the users who ever filled on the winning side.
Winners(w) ==
    {u \in Users : \E i \in OrderIds :
        LET row == OrdersSeenBy(w)[i]
        IN  /\ Exists(row) /\ row.filled # 0
            /\ row.ticket.user = u
            /\ row.ticket.market = req[w].market /\ row.ticket.side = req[w].outcome}

StartPayout(w) ==
    /\ pc[w] = "sweep"
    /\ Ids(tx[w].batch) = {}
    /\ tx' = [tx EXCEPT ![w].payees = Winners(w)]
    /\ Goto(w, "pay")
    /\ UNCHANGED <<orderVars, walletVars, marketVars, req>>

IsNextPayee(w, u) == u \in tx[w].payees /\ \A v \in tx[w].payees : u <= v

\* The position is read before the wallet is locked; none, or a short one, is
\* skipped.
Assess(w, u) ==
    LET net == NetPosition(OrdersSeenBy(w), u, req[w].market, req[w].outcome)
    IN  /\ pc[w] = "pay"
        /\ IsNextPayee(w, u)
        /\ \/ /\ net \in Nat \ {0}
              /\ tx' = [tx EXCEPT ![w].due = PayoutCents * net]
              /\ Goto(w, "credit")
           \/ /\ net \notin Nat \ {0}
              /\ tx' = [tx EXCEPT ![w].payees = @ \ {u}]
              /\ UNCHANGED pc
        /\ UNCHANGED <<orderVars, walletVars, marketVars, req>>

PayWinner(w, u) ==
    /\ pc[w] = "credit"
    /\ IsNextPayee(w, u)
    /\ WalletFree(w, u)
    /\ LockWallet(w, u)
    /\ purse' = [purse EXCEPT ![u].available = @ + tx[w].due,
                              ![u].won[req[w].market] = @ + tx[w].due]
    /\ tx' = [tx EXCEPT ![w].due = 0, ![w].payees = @ \ {u}]
    /\ Goto(w, "pay")
    /\ UNCHANGED <<orderVars, wallets, marketVars, req>>

\* market.update!(status: :settled)
FinishSettle(w) ==
    /\ pc[w] = "pay"
    /\ tx[w].payees = {}
    /\ MarketFree(w, req[w].market)
    /\ LockMarket(w, req[w].market)
    /\ Goto(w, "commit")
    /\ UNCHANGED <<orderVars, walletVars, market, expired, req, tx>>

----------------------------------------------------------------------------
(***************************************************************************)
(* MarketCancellationService, refund_clob!.                                *)
(***************************************************************************)

StartAnnul(w, m) ==
    /\ pc[w] = "idle"
    /\ "annul" \in Ops
    /\ req' = [req EXCEPT ![w] = [op |-> "annul", market |-> m]]
    /\ Goto(w, "annul")
    /\ UNCHANGED <<orderVars, walletVars, marketVars, tx>>

\* Transactions that share-lock the row of market m for an order they inserted.
Sharers(m) ==
    {v \in Workers : req[v].op = "place" /\ tx[v].order # 0 /\ req[v].ticket.market = m}

\* Market.lock.find, the status check on the locked row, and the load of the orders.
LockForAnnul(w) ==
    LET m == req[w].market
    IN  /\ pc[w] = "annul"
        /\ MarketFree(w, m) /\ Sharers(m) = {}
        /\ \/ /\ market[m] \notin {"open", "closed"}
              /\ Rollback(w)
           \/ /\ market[m] \in {"open", "closed"}
              /\ LockMarket(w, m)
              /\ tx' = [tx EXCEPT ![w].batch = ActiveRows(w, m)]
              /\ Goto(w, "wallet")
              /\ UNCHANGED <<orderVars, walletVars, market, expired, req>>

\* The wallet of the next order is locked, and then the order's own row.
LockForVoid(w, i) ==
    LET u == tx[w].batch[i].ticket.user
    IN  /\ pc[w] = "wallet"
        /\ IsNext(tx[w].batch, i)
        /\ WalletFree(w, u)
        /\ LockWallet(w, u)
        /\ Goto(w, "void")
        /\ UNCHANGED <<orderVars, wallets, purse, marketVars, req, tx>>

VoidOrder(w, i) ==
    LET seen == tx[w].batch[i]
        u == seen.ticket.user
    IN  /\ pc[w] = "void"
        /\ IsNext(tx[w].batch, i)
        /\ OrderFree(w, i)
        /\ LockOrder(w, i)
        /\ draft' = [draft EXCEPT ![i] = CancelRow(@, seen)]
        /\ purse' = [purse EXCEPT ![u] = Release(@, Smaller(Reserved(seen), @.reserved))]
        /\ tx' = [tx EXCEPT ![w].batch[i] = NoRow]
        /\ Goto(w, "wallet")
        /\ UNCHANGED <<orders, wallets, holder, marketVars, req>>

\* Mutant: fees are left out.
Spending(wallet, m) == wallet.spent[m]

\* A user's net cash outlay on m, as the ledger has it.
Outlay(wallet, m) == wallet.spent[m] + wallet.fees[m]

StartRefund(w) ==
    LET m == req[w].market
    IN  /\ pc[w] = "wallet"
        /\ Ids(tx[w].batch) = {}
        /\ tx' = [tx EXCEPT ![w].payees = {u \in Users : Outlay(WalletSeenBy(w, u), m) # 0}]
        /\ Goto(w, "refund")
        /\ UNCHANGED <<orderVars, walletVars, marketVars, req>>

\* credit! or clawback!.  A clawback takes what is available; if that is nothing its
\* ledger entry is invalid and the whole cancellation fails.  Placements cannot
\* change an outlay while w holds the market row, so it is read here.
Refund(w, u) ==
    LET m == req[w].market
        outlay == Outlay(purse[u], m)
        amount == IF outlay > 0 THEN outlay ELSE -Smaller(-outlay, purse[u].available)
    IN  /\ pc[w] = "refund"
        /\ u \in tx[w].payees
        /\ WalletFree(w, u)
        /\ \/ /\ amount = 0
              /\ Rollback(w)
           \/ /\ amount # 0
              /\ LockWallet(w, u)
              /\ purse' = [purse EXCEPT ![u].available = @ + amount, ![u].won[m] = @ + amount]
              /\ tx' = [tx EXCEPT ![w].payees = @ \ {u}]
              /\ UNCHANGED <<orderVars, wallets, marketVars, pc, req>>

FinishAnnul(w) ==
    /\ pc[w] = "refund"
    /\ tx[w].payees = {}
    /\ Goto(w, "commit")
    /\ UNCHANGED <<orderVars, walletVars, marketVars, req, tx>>

----------------------------------------------------------------------------
(***************************************************************************)
(* Time, the close job, crashes and deadlocks.                             *)
(***************************************************************************)

Expire(m) ==
    /\ m \in TimedMarkets \ expired
    /\ expired' = expired \cup {m}
    /\ UNCHANGED <<orderVars, walletVars, market, keeper, pc, req, tx>>

\* CloseExpiredMarketsJob: UPDATE ... WHERE status = open, in a statement of its own.
CloseExpired(m) ==
    /\ m \in expired
    /\ keeper[m] = Nobody
    /\ market[m] = "open"
    /\ market' = [market EXCEPT ![m] = "closed"]
    /\ UNCHANGED <<orderVars, walletVars, keeper, expired, pc, req, tx>>

\* The process dies and the server rolls its transaction back.
Crash(w) == pc[w] # "idle" /\ Rollback(w)

\* The wallets and order rows that w's next statement locks.
WalletsWanted(w) ==
    {u \in Users :
        \/ pc[w] \in {"reserve", "seller"} /\ u = req[w].ticket.user
        \/ pc[w] = "fill" /\ \E r \in OrderIds :
              Fillable(w, r) /\ u = tx[w].batch[r].ticket.user
        \/ pc[w] = "unreserve" /\ u = orders[req[w].order].ticket.user
        \/ pc[w] = "release" /\ u = draft[tx[w].order].ticket.user
        \/ pc[w] = "credit" /\ IsNextPayee(w, u)
        \/ pc[w] = "wallet" /\ \E i \in OrderIds :
              IsNext(tx[w].batch, i) /\ u = tx[w].batch[i].ticket.user
        \/ pc[w] = "refund" /\ u \in tx[w].payees}

OrdersWanted(w) ==
    {i \in OrderIds :
        \/ pc[w] = "row" /\ i = req[w].order
        \/ pc[w] \in {"sweep", "void"} /\ IsNext(tx[w].batch, i)}

\* The transactions that conflict with w's next lock of a market row.
MarketConflicts(w) ==
    CASE pc[w] = "insert" -> {v \in Workers : keeper[req[w].ticket.market] = v
                                                 /\ req[v].op = "annul"}
      [] pc[w] = "stamp" -> {keeper[req[w].ticket.market]}
      [] pc[w] = "pay" /\ tx[w].payees = {} -> {keeper[req[w].market]}
      [] pc[w] = "annul" -> {keeper[req[w].market]} \cup Sharers(req[w].market)
      [] OTHER -> {}

\* The transactions that w waits for.  A refund whose first users are locked could
\* begin with another one here, which the code's fixed order does not.
WaitsFor(w) ==
    ({holder[u] : u \in WalletsWanted(w)} \cup {owner[i] : i \in OrdersWanted(w)}
        \cup MarketConflicts(w)) \ {w, Nobody}

\* Mutant: deadlocks are not detected.
NeverInDeadlock(w) == FALSE

\* w is on a cycle of the waits-for graph.
InDeadlock(w) ==
    \E S \in SUBSET Workers :
        /\ w \in S
        /\ \A v \in S : WaitsFor(v) \cap S # {} /\ \E x \in S : v \in WaitsFor(x)

\* The server's deadlock detector fails the statement of one of them.
DeadlockVictim(w) == InDeadlock(w) /\ Rollback(w)

----------------------------------------------------------------------------
(***************************************************************************)
(* The specification.                                                      *)
(***************************************************************************)

Start(w) ==
    \/ \E t \in Tickets : StartPlace(w, t)
    \/ \E i \in OrderIds : StartCancel(w, i)
    \/ \E m \in Markets, outcome \in Sides : StartSettle(w, m, outcome)
    \/ \E m \in Markets : StartAnnul(w, m)

PlaceStep(w) ==
    \/ Insert(w)
    \/ ReserveFunds(w)
    \/ CheckPosition(w)
    \/ Scan(w)
    \/ Cross(w)
    \/ \E r \in OrderIds : FillOrder(w, r)
    \/ CreditSeller(w)
    \/ StampMarket(w)
    \/ FinishPlace(w)

CancelStep(w) == CancelOrder(w) \/ Unreserve(w)

SettleStep(w) ==
    \/ Snapshot(w)
    \/ \E i \in OrderIds : SweepOrder(w, i)
    \/ ReleaseSwept(w)
    \/ StartPayout(w)
    \/ \E u \in Users : Assess(w, u) \/ PayWinner(w, u)
    \/ FinishSettle(w)

AnnulStep(w) ==
    \/ LockForAnnul(w)
    \/ \E i \in OrderIds : LockForVoid(w, i) \/ VoidOrder(w, i)
    \/ StartRefund(w)
    \/ \E u \in Users : Refund(w, u)
    \/ FinishAnnul(w)

Step(w) == PlaceStep(w) \/ CancelStep(w) \/ SettleStep(w) \/ AnnulStep(w) \/ Commit(w)

Next ==
    \/ \E w \in Workers : Start(w) \/ Step(w) \/ Crash(w) \/ DeadlockVictim(w)
    \/ \E m \in Markets : Expire(m) \/ CloseExpired(m)

Spec == Init /\ [][Next]_vars

\* Row locks are granted in the order they were asked for, so a request that is
\* not starved of them goes on; the deadlock detector runs after deadlock_timeout.
Fairness ==
    /\ \A w \in Workers : SF_vars(Step(w))
    /\ WF_vars(\E w \in Workers : DeadlockVictim(w))

FairSpec == Spec /\ Fairness
=============================================================================

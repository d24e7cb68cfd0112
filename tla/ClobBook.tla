------------------------------ MODULE ClobBook ------------------------------
(***************************************************************************)
(* The order book of a CLOB market as data: tickets, order rows, and the   *)
(* pure functions of Order and Clob::OrderMatchingService on them.  Nothing*)
(* here has state; ClobEngine runs these operators inside transactions.    *)
(*                                                                         *)
(* Contracts are sold on two sides, YES and NO, and one contract of each   *)
(* side together pays PayoutCents at settlement.                           *)
(***************************************************************************)
EXTENDS Integers, FiniteSetsExt

CONSTANTS
    Users,        \* ids of the users who trade; find_each visits them in id order
    Markets,      \* the CLOB markets
    Tickets,      \* the orders that clients may submit
    MaxOrders     \* bound: how many order rows a run may insert

PayoutCents == 100

Sides == {"YES", "NO"}

Opposite(side) == IF side = "YES" THEN "NO" ELSE "YES"

\* What the caller of the matching service chooses.
Ticket ==
    [user : Users, market : Markets, side : Sides, direction : {"buy", "sell"},
     price : 1 .. 99, quantity : Nat \ {0}, tif : {"gtc", "ioc", "fok"}]

ASSUME TicketsAssumption == Tickets \subseteq Ticket /\ Tickets # {}
ASSUME UsersAssumption == Users \subseteq Nat
ASSUME FiniteAssumption == IsFiniteSet(Users) /\ IsFiniteSet(Markets)
ASSUME MaxOrdersAssumption == MaxOrders \in Nat

\* Rows are numbered in insertion order, which stands for created_at too.
OrderIds == 1 .. MaxOrders

ActiveStatuses == {"open", "partial"}

\* An order row; status "none" is a row that does not exist.
Row ==
    [ticket : Tickets, filled : Nat, cancelled : Nat,
     status : ActiveStatuses \cup {"filled", "cancelled", "none"}]

NoRow ==
    [ticket |-> CHOOSE t \in Tickets : TRUE, filled |-> 0, cancelled |-> 0, status |-> "none"]

NewRow(ticket) == [ticket |-> ticket, filled |-> 0, cancelled |-> 0, status |-> "open"]

Exists(row) == row.status # "none"

Active(row) == row.status \in ActiveStatuses

Buys(ticket) == ticket.direction = "buy"

Unfilled(row) == row.ticket.quantity - row.filled - row.cancelled

\* The columns of rows that sums are taken over.
Fills(rows) == [i \in OrderIds |-> rows[i].filled]
Remainders(rows) == [i \in OrderIds |-> Unfilled(rows[i])]

\* What a fill of quantity q takes out of the reservation of a buy order.
Stake(row, q) == row.ticket.price * q

Reserved(row) == IF Buys(row.ticket) THEN Stake(row, Unfilled(row)) ELSE 0

Smaller(m, n) == IF m <= n THEN m ELSE n

----------------------------------------------------------------------------
(***************************************************************************)
(* Changes to a row.                                                       *)
(***************************************************************************)

\* Mutant: an order is filled when one fill has its whole quantity.
FillRowAtOnce(row, q) ==
    [row EXCEPT !.filled = @ + q,
                !.status = IF row.ticket.quantity = q THEN "filled" ELSE "partial"]

FillRow(row, q) ==
    [row EXCEPT !.filled = @ + q,
                !.status = IF Unfilled(row) = q THEN "filled" ELSE "partial"]

\* Mutant: the status that a partly filled order had.
CancelRemainderOnly(row) ==
    [row EXCEPT !.cancelled = @ + Unfilled(row),
                !.status = IF row.filled = 0 THEN "cancelled" ELSE "partial"]

\* cancel_remainder!: an IOC or FOK order that did not fill completely.
CancelRemainder(row) ==
    [row EXCEPT !.cancelled = @ + Unfilled(row),
                !.status = IF row.filled = 0 THEN "cancelled" ELSE "filled"]

\* Mutant: the whole row is written as it was loaded.
CancelStaleRow(row, seen) ==
    [seen EXCEPT !.cancelled = @ + Unfilled(seen), !.status = "cancelled"]

\* Mutant: the filled contracts are counted as cancelled too.
CancelWholeRow(row, seen) ==
    [row EXCEPT !.cancelled = row.ticket.quantity, !.status = "cancelled"]

\* Every other cancellation.  The row written is `row` with the two columns
\* that were dirty in `seen`, the copy the caller had loaded.
CancelRow(row, seen) ==
    [row EXCEPT !.cancelled = seen.cancelled + Unfilled(seen), !.status = "cancelled"]

----------------------------------------------------------------------------
(***************************************************************************)
(* Matching.                                                               *)
(***************************************************************************)

\* The rows of one query of resting_for.
Listed(row, market, side, direction) ==
    /\ Active(row)
    /\ row.ticket.market = market
    /\ row.ticket.side = side
    /\ row.ticket.direction = direction

\* Mutant: bids that add up to the payout exactly do not match.
CompatibleAbove(incoming, resting) ==
    IF ~Buys(incoming) THEN resting.price >= incoming.price
    ELSE IF ~Buys(resting) THEN incoming.price >= resting.price
    ELSE incoming.price + resting.price > PayoutCents

\* Mutant: opposite bids match at any price.
CompatibleAlways(incoming, resting) ==
    IF ~Buys(incoming) THEN resting.price >= incoming.price
    ELSE Buys(resting) \/ incoming.price >= resting.price

\* compatible?: may the incoming ticket match this resting one?
Compatible(incoming, resting) ==
    IF ~Buys(incoming) THEN resting.price >= incoming.price
    ELSE IF ~Buys(resting) THEN incoming.price >= resting.price
    ELSE incoming.price + resting.price >= PayoutCents

\* Mutant: the newer of two rows of one price first.
PrecedesNewestFirst(rows, i, j) ==
    LET a == rows[i].ticket
        b == rows[j].ticket
    IN  \/ ~Buys(a) /\ Buys(b)
        \/ /\ a.direction = b.direction
           /\ \/ ~Buys(a) /\ a.price < b.price
              \/ Buys(a) /\ a.price > b.price
              \/ a.price = b.price /\ i > j

\* The order in which resting_for lists the rows i and j: resting sells, lowest
\* price first, then resting buys, highest price first; the older row first.
Precedes(rows, i, j) ==
    LET a == rows[i].ticket
        b == rows[j].ticket
    IN  \/ ~Buys(a) /\ Buys(b)
        \/ /\ a.direction = b.direction
           /\ \/ ~Buys(a) /\ a.price < b.price
              \/ Buys(a) /\ a.price > b.price
              \/ a.price = b.price /\ i < j

\* The ids present in a batch, and the first of them in matching order.
Ids(batch) == {i \in OrderIds : Exists(batch[i])}

IsFirst(batch, i) ==
    i \in Ids(batch) /\ \A j \in Ids(batch) \ {i} : Precedes(batch, i, j)

\* count_matchable_quantity: the loop stops at the first incompatible row.
Matchable(incoming, batch) ==
    LET Reached(i) ==
            \A j \in Ids(batch) :
                j = i \/ Precedes(batch, j, i) => Compatible(incoming, batch[j].ticket)
    IN  SumFunctionOnSet(Remainders(batch), {i \in Ids(batch) : Reached(i)})

----------------------------------------------------------------------------
(***************************************************************************)
(* Positions.                                                              *)
(***************************************************************************)

OrdersOf(rows, user, market, side, direction) ==
    {i \in Ids(rows) :
        /\ rows[i].ticket.user = user /\ rows[i].ticket.market = market
        /\ rows[i].ticket.side = side /\ rows[i].ticket.direction = direction}

\* NetPositionService: filled buys less filled sells.
NetPosition(rows, user, market, side) ==
    LET Filled(direction) ==
            SumFunctionOnSet(Fills(rows), OrdersOf(rows, user, market, side, direction))
    IN  Filled("buy") - Filled("sell")

\* Contracts promised to the user's active sell orders, `mine` excepted.
Committed(rows, user, market, side, mine) ==
    SumFunctionOnSet(Remainders(rows),
                     {i \in OrdersOf(rows, user, market, side, "sell") :
                         i # mine /\ Active(rows[i])})

\* The taker fee, rounded up to a whole cent; bps is hundredths of a percent.
TakerFee(stake, bps) == (bps * stake + 9999) \div 10000
=============================================================================

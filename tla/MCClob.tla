------------------------------- MODULE MCClob -------------------------------
(***************************************************************************)
(* Small instances of the CLOB engine for TLC.                             *)
(***************************************************************************)
EXTENDS ClobProperties

T(user, side, direction, price, quantity, tif) ==
    [user |-> user, market |-> "m1", side |-> side, direction |-> direction,
     price |-> price, quantity |-> quantity, tif |-> tif]

OneMarket == {"m1"}
TwoUsers == {1, 2}
ThreeUsers == {1, 2, 3}

\* The highest fee that a market may charge: 2%.
SomeFee == [m \in OneMarket |-> 200]

Rich2 == [u \in TwoUsers |-> 400]
Rich3 == [u \in ThreeUsers |-> 400]

\* Too little for some bids, and just enough for others but not for their fees.
Tight2 == [u \in TwoUsers |-> IF u = 1 THEN 100 ELSE 160]
Tight3 == [u \in ThreeUsers |-> IF u = 3 THEN 184 ELSE 120]

\* Bids on both sides at prices that cross, do not cross, and improve on each other.
BuyTickets ==
    {T(1, "YES", "buy", 40, 1, "gtc"), T(1, "YES", "buy", 60, 2, "gtc"),
     T(2, "NO", "buy", 40, 2, "gtc"), T(2, "NO", "buy", 70, 1, "gtc"),
     T(3, "NO", "buy", 40, 1, "gtc"),
     T(3, "YES", "buy", 60, 3, "fok"), T(3, "YES", "buy", 60, 3, "ioc")}

\* For two workers: two bids that rest side by side, and two that each take the
\* other user's, so that either worker can hold the wallet the other one needs.
RaceTickets ==
    {T(1, "YES", "buy", 40, 1, "gtc"), T(2, "NO", "buy", 50, 2, "gtc"),
     T(1, "YES", "buy", 60, 1, "fok"), T(2, "NO", "buy", 70, 2, "ioc")}

\* Positions are bought and then sold, by orders that rest and that take; the callers
\* of the service only ever sell GTC.
SellTickets ==
    {T(1, "YES", "buy", 60, 2, "gtc"), T(2, "NO", "buy", 50, 2, "gtc"),
     T(1, "YES", "sell", 30, 1, "gtc"), T(1, "YES", "sell", 70, 2, "gtc"),
     T(1, "YES", "sell", 50, 1, "gtc"),
     T(3, "YES", "buy", 40, 1, "gtc")}

\* And a bid that the user's own resting sell can take part of.
SelfTickets == SellTickets \cup {T(1, "YES", "buy", 60, 2, "ioc")}

\* A fill, a resting order, and a sale at a profit, for settlement and cancellation.
FinalTickets ==
    {T(1, "YES", "buy", 40, 2, "gtc"), T(2, "NO", "buy", 60, 2, "gtc"),
     T(2, "NO", "buy", 70, 1, "ioc"),
     T(1, "YES", "sell", 50, 1, "gtc"), T(3, "YES", "buy", 60, 1, "gtc")}

\* One pair of bids that match.
PairTickets == {T(1, "YES", "buy", 50, 1, "gtc"), T(2, "NO", "buy", 50, 1, "gtc")}

\* A position, offered at a price that the next bid does not reach, while the bid
\* that made it has a remainder which that bid does reach.
OfferTickets ==
    {T(1, "YES", "buy", 50, 1, "gtc"), T(2, "NO", "buy", 50, 2, "gtc"),
     T(1, "YES", "sell", 90, 1, "gtc")}
=============================================================================

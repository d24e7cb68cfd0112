-------------------------- MODULE ClobSerialProofs --------------------------
(***************************************************************************)
(* What one worker promises.  The services read positions, books and       *)
(* market rows without locking them, so some of what they maintain holds   *)
(* only of requests that do not overlap: a single worker, which may still  *)
(* fail and crash between any two statements.  Its transaction then sees   *)
(* every row and wallet as it has written it, and draft and purse are the  *)
(* state of the system.                                                    *)
(***************************************************************************)
EXTENDS ClobTradeProofs

OneWorker == \A v, w \in Workers : v = w

----------------------------------------------------------------------------
(***************************************************************************)
(* A single worker's view.                                                 *)
(***************************************************************************)

\* What it does not hold is held by nobody.
LEMMA SoleHolder ==
    ASSUME OneWorker, LocksInv, NEW w \in Workers
    PROVE  /\ \A i \in OrderIds : owner[i] \in {w, Nobody}
           /\ \A i \in OrderIds : OrderFree(w, i) /\ OrdersSeenBy(w)[i] = draft[i]
           /\ \A u \in Users : WalletFree(w, u) /\ WalletSeenBy(w, u) = purse[u]
<1>1. /\ owner \in [OrderIds -> Workers \cup {Nobody}]
      /\ holder \in [Users -> Workers \cup {Nobody}]
  BY Typed DEF LocksInv, RowsInv
<1>2. RowsClean /\ WalletsClean
  BY DEF LocksInv, RowsInv
<1>. QED
  BY <1>1, <1>2 DEF OneWorker, OrderFree, OrdersSeenBy, RowsClean, WalletFree, WalletSeenBy,
                    WalletsClean

\* A request that has ended leaves one version of everything.
LEMMA OneVersion ==
    ASSUME OneWorker, LocksInv', NEW w \in Workers, Rollback(w) \/ Commit(w)
    PROVE  /\ \A i \in OrderIds : draft'[i] = orders'[i]
           /\ \A u \in Users : purse'[u] = wallets'[u]
<1>1. /\ owner' \in [OrderIds -> Workers \cup {Nobody}]
      /\ holder' \in [Users -> Workers \cup {Nobody}]
  BY DEF LocksInv, RowsInv, EngineInv, TypeOK
<1>2. /\ \A i \in OrderIds : owner'[i] # w
      /\ \A u \in Users : holder'[u] # w
  BY NobodyAssumption DEF Rollback, Commit, Unlock
<1>3. RowsClean' /\ WalletsClean'
  BY DEF LocksInv, RowsInv
<1>. QED
  BY <1>1, <1>2, <1>3 DEF OneWorker, RowsClean, WalletsClean

\* A commit publishes the whole view.
LEMMA ViewCommitted ==
    ASSUME OneWorker, LocksInv, NEW w \in Workers, Commit(w)
    PROVE  /\ \A i \in OrderIds : orders'[i] = draft[i] /\ draft'[i] = draft[i]
           /\ \A u \in Users : wallets'[u] = purse[u] /\ purse'[u] = purse[u]
<1>1. /\ \A i \in OrderIds : owner[i] \in {w, Nobody}
      /\ \A u \in Users : holder[u] \in {w, Nobody}
  BY SoleHolder DEF WalletFree
<1>2. RowsClean /\ WalletsClean
  BY DEF LocksInv, RowsInv
<1>. QED
  BY <1>1, <1>2 DEF Commit, RowsClean, WalletsClean

\* And a rollback returns to what is committed.
LEMMA ViewDropped ==
    ASSUME OneWorker, LocksInv, NEW w \in Workers, Rollback(w)
    PROVE  /\ \A i \in OrderIds : orders'[i] = orders[i] /\ draft'[i] = orders[i]
           /\ \A u \in Users : wallets'[u] = wallets[u] /\ purse'[u] = wallets[u]
<1>1. /\ \A i \in OrderIds : owner[i] \in {w, Nobody}
      /\ \A u \in Users : holder[u] \in {w, Nobody}
  BY SoleHolder DEF WalletFree
<1>2. RowsClean /\ WalletsClean
  BY DEF LocksInv, RowsInv
<1>. QED
  BY <1>1, <1>2 DEF Rollback, RowsClean, WalletsClean

\* Only a commit and the close job change the status of a market.
LEMMA MarketKept ==
    ASSUME NEW w \in Workers, Start(w) \/ Step(w), ~Commit(w)
    PROVE  market' = market
<1>1. CASE Rollback(w)
  BY <1>1 DEF Rollback
<1>2. CASE Start(w)
  BY <1>2 DEF Start, StartPlace, StartCancel, StartSettle, StartAnnul, marketVars
<1>3. CASE PlaceStep(w) /\ ~Rollback(w)
  BY <1>3 DEF PlaceStep, Insert, ReserveFunds, CheckPosition, Scan, Cross, FillOrder,
              CreditSeller, StampMarket, FinishPlace, DropRemainder, marketVars
<1>4. CASE CancelStep(w) /\ ~Rollback(w)
  BY <1>4 DEF CancelStep, CancelOrder, Unreserve, ReleaseFunds, marketVars
<1>5. CASE SettleStep(w) /\ ~Rollback(w)
  BY <1>5 DEF SettleStep, Snapshot, SweepOrder, ReleaseSwept, ReleaseFunds, StartPayout,
              Assess, PayWinner, FinishSettle, marketVars
<1>6. CASE AnnulStep(w) /\ ~Rollback(w)
  BY <1>6, Zenon DEF AnnulStep, LockForAnnul, LockForVoid, VoidOrder, StartRefund, Refund,
              FinishAnnul, marketVars
<1>. QED
  BY <1>1, <1>2, <1>3, <1>4, <1>5, <1>6 DEF Step

LEMMA MarketSteps ==
    ASSUME EngineInv, [Next]_vars, \A w \in Workers : ~Commit(w), NEW m \in Markets
    PROVE  \/ market'[m] = market[m]
           \/ market[m] = "open" /\ market'[m] = "closed"
<1>1. market \in [Markets -> MarketStatus]
  BY Typed
<1>2. ASSUME NEW w \in Workers, Start(w) \/ Step(w) \/ Crash(w) \/ DeadlockVictim(w)
      PROVE  market' = market
  BY <1>2, MarketKept DEF Crash, DeadlockVictim, Rollback
<1>3. ASSUME NEW n \in Markets, Expire(n) PROVE market' = market
  BY <1>3 DEF Expire
<1>4. ASSUME NEW n \in Markets, CloseExpired(n)
      PROVE  market'[m] = market[m] \/ (market[m] = "open" /\ market'[m] = "closed")
  BY <1>1, <1>4 DEF CloseExpired
<1>5. CASE UNCHANGED vars
  BY <1>5 DEF vars
<1>. QED
  BY <1>2, <1>3, <1>4, <1>5 DEF Next

\* Apart from the statements that insert and that fill an order, those that write a
\* row take it off the book, with its fills.
LEMMA RowsCalm ==
    ASSUME EngineInv, NEW w \in Workers, Start(w) \/ Step(w), ~Rollback(w), ~Commit(w),
           ~Insert(w), \A r \in OrderIds : ~FillOrder(w, r), NEW i \in OrderIds
    PROVE  \/ draft'[i] = draft[i]
           \/ /\ ~Active(draft'[i])
              /\ draft'[i].ticket = draft[i].ticket /\ draft'[i].filled = draft[i].filled
<1>1. draft \in [OrderIds -> Row]
  BY Typed
<1>2. CASE Start(w)
  BY <1>2 DEF Start, StartPlace, StartCancel, StartSettle, StartAnnul, orderVars
<1>3. CASE \/ ReserveFunds(w) \/ CheckPosition(w) \/ Scan(w) \/ CreditSeller(w)
           \/ StampMarket(w)
  BY <1>3, Zenon DEF ReserveFunds, CheckPosition, Scan, CreditSeller, StampMarket, orderVars
<1>4. CASE Cross(w) \/ FinishPlace(w)
  <2>1. req[w].op = "place" /\ tx[w].order \in OrderIds
    BY <1>4, Served DEF Cross, FinishPlace
  <2>2. draft' = draft \/ \E S : DropRemainder(w, S)
    BY <1>4 DEF Cross, FinishPlace, orderVars
  <2>3. PICK k \in OrderIds : k = tx[w].order
    BY <2>1
  <2>4. draft[k] \in Row /\ Unfilled(draft[k]) >= 0 /\ Exists(draft[k])
    BY <2>1, <2>3, OwnRow
  <2>5. draft' = draft \/ draft' = [draft EXCEPT ![k] = CancelRemainder(draft[k])]
    BY <2>2, <2>3 DEF DropRemainder
  <2>. QED
    BY <1>1, <2>4, <2>5, CancelRemainderType
<1>5. CASE CancelOrder(w)
  <2>1. req[w].order \in OrderIds
    BY <1>5, Served DEF CancelOrder
  <2>2. PICK k \in OrderIds : k = req[w].order
    BY <2>1
  <2>3. Active(draft[k]) /\ draft' = [draft EXCEPT ![k] = CancelRow(draft[k], draft[k])]
    BY <1>5, <2>2 DEF CancelOrder
  <2>4. RowOK(draft[k]) /\ Exists(draft[k])
    BY <2>3 DEF EngineInv, DraftsExtend, Exists, Active, ActiveStatuses
  <2>. QED
    BY <1>1, <2>3, <2>4, CancelRowType
<1>6. ASSUME NEW k \in OrderIds, SweepOrder(w, k) \/ VoidOrder(w, k)
      PROVE  \/ draft'[i] = draft[i]
             \/ /\ ~Active(draft'[i])
                /\ draft'[i].ticket = draft[i].ticket /\ draft'[i].filled = draft[i].filled
  <2>1. /\ IsNext(tx[w].batch, k)
        /\ draft' = [draft EXCEPT ![k] = CancelRow(draft[k], tx[w].batch[k])]
    BY <1>6 DEF SweepOrder, VoidOrder
  <2>2. PICK seen \in Row : seen = tx[w].batch[k] /\ Active(seen) /\ RowOK(seen)
    BY <2>1, NextRow
  <2>. QED
    BY <1>1, <2>1, <2>2, CancelRowType
<1>7. CASE Unreserve(w) \/ ReleaseSwept(w)
  BY <1>7 DEF Unreserve, ReleaseSwept, ReleaseFunds, orderVars
<1>8. CASE \/ Snapshot(w) \/ StartPayout(w) \/ FinishSettle(w)
           \/ \E u \in Users : Assess(w, u) \/ PayWinner(w, u)
  BY <1>8 DEF Snapshot, StartPayout, FinishSettle, Assess, PayWinner, orderVars
<1>9. CASE \/ LockForAnnul(w) \/ StartRefund(w) \/ FinishAnnul(w)
           \/ \E k \in OrderIds : LockForVoid(w, k)
           \/ \E u \in Users : Refund(w, u)
  BY <1>9 DEF LockForAnnul, StartRefund, FinishAnnul, LockForVoid, Refund, orderVars
<1>. QED
  BY <1>2, <1>3, <1>4, <1>5, <1>6, <1>7, <1>8, <1>9
     DEF Step, PlaceStep, CancelStep, SettleStep, AnnulStep

----------------------------------------------------------------------------
(***************************************************************************)
(* The books of finished markets are empty.                                *)
(***************************************************************************)

\* w is ending a market, and has loaded the market's active orders.
Sweeping(w) == req[w].op \in {"settle", "annul"} /\ pc[w] \notin {"snapshot", "annul"}

\* What it has not visited of them is all that is left of the book.
Unvisited(w) ==
    \A i \in OrderIds :
        Active(draft[i]) /\ draft[i].ticket.market = req[w].market => Exists(tx[w].batch[i])

\* A request finds its market as it found it when it looked.
MarketLasts(w) ==
    /\ req[w].op = "place" => Settleable(req[w].ticket.market)
    /\ req[w].op = "settle" \/ Sweeping(w) => Settleable(req[w].market)

BookSwept(w) ==
    Sweeping(w) =>
        /\ Unvisited(w)
        /\ pc[w] \in {"pay", "credit", "refund", "commit"} => Ids(tx[w].batch) = {}

\* An order in the book is in the book of a market that lasts.
OnLiveBook(row) == Active(row) => Settleable(row.ticket.market)

BooksInv ==
    /\ LocksInv
    /\ \A w \in Workers : MarketLasts(w) /\ BookSwept(w)
    /\ \A i \in OrderIds : OnLiveBook(orders[i]) /\ OnLiveBook(draft[i])

\* The requests of a step.
LEMMA StepRequest ==
    ASSUME EngineInv, NEW w \in Workers, Step(w), ~Rollback(w), ~Commit(w)
    PROVE  req'[w] = req[w] /\ (PlaceStep(w) <=> req[w].op = "place")
  BY PlacementKeepsRequest, OtherKeepsRequest DEF Step

\* A request starts on a market that lasts, and nothing ends a market under it.
LEMMA LastsStep ==
    ASSUME EngineInv, NEW w \in Workers, Start(w) \/ Step(w), ~Rollback(w), ~Commit(w),
           MarketLasts(w)
    PROVE  MarketLasts(w)'
<1>1. market' = market /\ req \in [Workers -> Request] /\ pc \in [Workers -> Statement]
  BY Typed, MarketKept
<1>2. CASE Start(w)
  <2>1. ASSUME NEW t \in Tickets, StartPlace(w, t)
        PROVE  /\ req'[w].op = "place" /\ req'[w].ticket = t
               /\ market[t.market] = "open"
    BY <1>1, <2>1 DEF StartPlace
  <2>2. ASSUME NEW m \in Markets, NEW outcome \in Sides, StartSettle(w, m, outcome)
        PROVE  req'[w].op = "settle" /\ req'[w].market = m /\ Settleable(m)
    BY <1>1, <2>2 DEF StartSettle
  <2>3. ASSUME NEW i \in OrderIds, StartCancel(w, i) PROVE req'[w].op = "cancel"
    BY <1>1, <2>3 DEF StartCancel
  <2>4. ASSUME NEW m \in Markets, StartAnnul(w, m)
        PROVE  req'[w].op = "annul" /\ pc'[w] = "annul"
    BY <1>1, <2>4 DEF StartAnnul, Goto
  <2>5. CASE \E t \in Tickets : StartPlace(w, t)
    BY <1>1, <2>1, <2>5 DEF MarketLasts, Sweeping, Settleable
  <2>6. CASE \E m \in Markets, outcome \in Sides : StartSettle(w, m, outcome)
    BY <1>1, <2>2, <2>6 DEF MarketLasts, Sweeping, Settleable
  <2>7. CASE \E i \in OrderIds : StartCancel(w, i)
    BY <2>3, <2>7 DEF MarketLasts, Sweeping
  <2>8. CASE \E m \in Markets : StartAnnul(w, m)
    BY <2>4, <2>8 DEF MarketLasts, Sweeping
  <2>. QED
    BY <1>2, <2>5, <2>6, <2>7, <2>8 DEF Start
<1>3. CASE Step(w)
  <2>1. req'[w] = req[w]
    BY <1>3, StepRequest
  <2>2. CASE Sweeping(w) \/ req[w].op # "annul"
    BY <1>1, <2>1, <2>2 DEF MarketLasts, Settleable, Sweeping
  <2>3. CASE req[w].op = "annul" /\ pc[w] \in {"snapshot", "annul"}
    <3>1. pc[w] = "annul"
      BY <2>3, Served
    <3>2. LockForAnnul(w)
      BY <1>3, <3>1 DEF Step, PlaceStep, Insert, ReserveFunds, CheckPosition, Scan, Cross,
         FillOrder, CreditSeller, StampMarket, FinishPlace, CancelStep, CancelOrder,
         Unreserve, SettleStep, Snapshot, SweepOrder, ReleaseSwept, StartPayout, Assess,
         PayWinner, FinishSettle, AnnulStep, LockForVoid, VoidOrder, StartRefund, Refund,
         FinishAnnul, Commit
    <3>3. Settleable(req[w].market)
      BY <3>2 DEF LockForAnnul, Settleable
    <3>. QED
      BY <1>1, <2>1, <2>3, <3>3 DEF MarketLasts, Settleable, Sweeping
  <2>. QED
    BY <2>2, <2>3 DEF Sweeping
<1>. QED
  BY <1>2, <1>3

\* What a request that ends a market loads is what the book has of it.
LEMMA LoadedBook ==
    ASSUME OneWorker, LocksInv, NEW w \in Workers, NEW m, req'[w].market = m,
           draft' = draft, tx'[w].batch = ActiveRows(w, m)
    PROVE  Unvisited(w)'
<1>1. SUFFICES ASSUME NEW i \in OrderIds, Active(draft[i]), draft[i].ticket.market = m
               PROVE  Exists(ActiveRows(w, m)[i])
  BY DEF Unvisited
<1>2. OrdersSeenBy(w)[i] = draft[i]
  BY SoleHolder
<1>3. ActiveRows(w, m)[i] = draft[i]
  BY <1>1, <1>2 DEF ActiveRows
<1>. QED
  BY <1>1, <1>3 DEF Exists, Active, ActiveStatuses

\* The next row is visited.
LEMMA VisitedBook ==
    ASSUME EngineInv, NEW w \in Workers, Unvisited(w), req'[w] = req[w],
           NEW k \in OrderIds, SweepOrder(w, k) \/ VoidOrder(w, k)
    PROVE  Unvisited(w)'
<1>1. /\ IsNext(tx[w].batch, k)
      /\ draft' = [draft EXCEPT ![k] = CancelRow(draft[k], tx[w].batch[k])]
  BY Zenon DEF SweepOrder, VoidOrder
<1>2. draft[k] \in Row /\ draft \in [OrderIds -> Row]
  BY Typed
<1>3. PICK seen \in Row : seen = tx[w].batch[k] /\ Active(seen) /\ RowOK(seen)
  BY <1>1, NextRow
<1>4. ~Active(draft'[k]) /\ \A i \in OrderIds \ {k} : draft'[i] = draft[i]
  BY <1>1, <1>2, <1>3, CancelRowType
<1>5. PICK x \in TxType : x = tx[w]
  BY Typed
<1>6. \A i \in OrderIds \ {k} : tx'[w].batch[i] = x.batch[i]
  BY <1>5, Typed DEF SweepOrder, VoidOrder, TxType
<1>. QED
  BY <1>4, <1>5, <1>6 DEF Unvisited

\* The passes of a settlement and of a market cancellation.
LEMMA SweptStep ==
    ASSUME OneWorker, LocksInv, NEW w \in Workers, Step(w), ~Rollback(w), ~Commit(w),
           BookSwept(w)
    PROVE  BookSwept(w)'
<1>1. EngineInv
  BY DEF LocksInv, RowsInv
<1>2. /\ req'[w] = req[w] /\ pc \in [Workers -> Statement] /\ tx \in [Workers -> TxType]
  BY <1>1, Typed, StepRequest
<1>3. CASE PlaceStep(w)
  BY <1>1, <1>2, <1>3, StepRequest DEF BookSwept, Sweeping
<1>4. CASE CancelStep(w)
  BY <1>1, <1>2, <1>4, Served DEF CancelStep, CancelOrder, Unreserve, BookSwept, Sweeping
<1>5. CASE Snapshot(w)
  <2>1. /\ draft' = draft /\ pc'[w] = "sweep"
        /\ tx'[w].batch = ActiveRows(w, req[w].market)
    BY <1>2, <1>5 DEF Snapshot, Goto, orderVars, TxType
  <2>. QED
    BY <1>2, <2>1, LoadedBook DEF BookSwept
<1>6. CASE LockForAnnul(w)
  <2>1. /\ draft' = draft /\ pc'[w] = "wallet"
        /\ tx'[w].batch = ActiveRows(w, req[w].market)
    BY <1>2, <1>6 DEF LockForAnnul, Goto, orderVars, TxType
  <2>. QED
    BY <1>2, <2>1, LoadedBook DEF BookSwept
<1>7. ASSUME pc[w] \in {"sweep", "release", "pay", "credit", "wallet", "void", "refund"}
      PROVE  Sweeping(w) /\ Unvisited(w)
                /\ (pc[w] \in {"pay", "credit", "refund"} => Ids(tx[w].batch) = {})
  BY <1>1, <1>7, Served DEF BookSwept, Sweeping
<1>8. ASSUME NEW i \in OrderIds, SweepOrder(w, i) \/ VoidOrder(w, i)
      PROVE  BookSwept(w)'
  <2>1. pc'[w] \in {"sweep", "release", "wallet"}
    BY <1>2, <1>8 DEF SweepOrder, VoidOrder, Goto
  <2>2. Unvisited(w)
    BY <1>7, <1>8, Zenon DEF SweepOrder, VoidOrder
  <2>3. Unvisited(w)'
    BY <1>1, <1>2, <1>8, <2>2, VisitedBook
  <2>. QED
    BY <2>1, <2>3 DEF BookSwept
<1>9. ASSUME pc[w] \in {"sweep", "release", "pay", "credit", "wallet", "void", "refund"},
             draft' = draft, tx'[w].batch = tx[w].batch,
             pc'[w] \in {"pay", "credit", "refund", "commit"} => Ids(tx[w].batch) = {}
      PROVE  BookSwept(w)'
  BY <1>2, <1>7, <1>9 DEF BookSwept, Unvisited
<1>10. CASE ReleaseSwept(w)
  <2>1. /\ draft' = draft /\ tx'[w].batch = tx[w].batch /\ pc[w] = "release"
        /\ pc'[w] = "sweep"
    BY <1>2, <1>10 DEF ReleaseSwept, ReleaseFunds, Goto, orderVars, TxType
  <2>. QED
    BY <1>9, <2>1
<1>11. CASE StartPayout(w) \/ StartRefund(w)
  <2>1. /\ draft' = draft /\ tx'[w].batch = tx[w].batch /\ pc[w] \in {"sweep", "wallet"}
        /\ Ids(tx[w].batch) = {}
    BY <1>2, <1>11 DEF StartPayout, StartRefund, orderVars, TxType
  <2>. QED
    BY <1>9, <2>1
<1>12. ASSUME NEW u \in Users, Assess(w, u) \/ PayWinner(w, u) \/ Refund(w, u)
       PROVE  BookSwept(w)'
  <2>1. /\ draft' = draft /\ tx'[w].batch = tx[w].batch
        /\ pc[w] \in {"pay", "credit", "refund"}
    BY <1>2, <1>12 DEF Assess, PayWinner, Refund, orderVars, TxType
  <2>. QED
    BY <1>7, <1>9, <2>1
<1>13. CASE FinishSettle(w) \/ FinishAnnul(w)
  <2>1. /\ draft' = draft /\ tx'[w].batch = tx[w].batch /\ pc[w] \in {"pay", "refund"}
    BY <1>13 DEF FinishSettle, FinishAnnul, orderVars
  <2>. QED
    BY <1>7, <1>9, <2>1
<1>14. ASSUME NEW i \in OrderIds, LockForVoid(w, i) PROVE BookSwept(w)'
  <2>1. /\ draft' = draft /\ tx'[w].batch = tx[w].batch /\ pc[w] = "wallet"
        /\ pc'[w] = "void"
    BY <1>2, <1>14 DEF LockForVoid, Goto, orderVars
  <2>. QED
    BY <1>9, <2>1
<1>. QED
  BY <1>3, <1>4, <1>5, <1>6, <1>8, <1>10, <1>11, <1>12, <1>13, <1>14
     DEF Step, SettleStep, AnnulStep

\* A statement of a request writes only orders of markets that last.
LEMMA LiveRows ==
    ASSUME EngineInv, NEW w \in Workers, Start(w) \/ Step(w), ~Rollback(w), ~Commit(w),
           MarketLasts(w), NEW i \in OrderIds, OnLiveBook(draft[i])
    PROVE  OnLiveBook(draft'[i])
<1>1. draft \in [OrderIds -> Row]
  BY Typed
<1>2. CASE Insert(w)
  <2>1. req[w].op = "place" /\ req[w].ticket \in Tickets
    BY <1>2, Served DEF Insert
  <2>2. PICK t \in Tickets : t = req[w].ticket /\ Settleable(t.market)
    BY <2>1 DEF MarketLasts
  <2>3. draft'[i] = draft[i] \/ draft'[i] = NewRow(t)
    BY <1>1, <1>2, <2>2 DEF Insert
  <2>. QED
    BY <2>2, <2>3, NewRowType DEF OnLiveBook
<1>3. ASSUME NEW r \in OrderIds, FillOrder(w, r) PROVE OnLiveBook(draft'[i])
  <2>1. PICK k \in OrderIds, q \in Nat, t \in Tickets, own \in Row, resting \in Row :
           /\ k = tx[w].order /\ k # r /\ t = req[w].ticket
           /\ own = draft[k] /\ resting = draft[r] /\ resting = tx[w].batch[r]
           /\ own.ticket = t /\ Exists(own) /\ Exists(resting)
           /\ q = Smaller(Unfilled(own), Unfilled(resting))
           /\ q <= Unfilled(own) /\ q <= Unfilled(resting)
           /\ Unfilled(own) \in Nat \ {0} /\ Unfilled(resting) \in Nat \ {0}
           /\ draft' = [draft EXCEPT ![k] = FillRow(own, q), ![r] = FillRow(resting, q)]
           /\ Compatible(t, resting.ticket)
           /\ owner[k] = w /\ owner[r] = w
    BY <1>3, FilledRows
  <2>2. req[w].op = "place"
    BY <1>3, Served DEF FillOrder
  <2>3. Settleable(t.market) /\ Active(resting)
    BY <2>1, <2>2, LoadedRow DEF MarketLasts
  <2>4. FillRow(own, q).ticket = t /\ FillRow(resting, q).ticket = resting.ticket
    BY <2>1, FillRowType
  <2>5. \/ draft'[i] = draft[i]
        \/ i = k /\ draft'[i] = FillRow(own, q)
        \/ i = r /\ draft'[i] = FillRow(resting, q)
    BY <1>1, <2>1
  <2>. QED
    BY <2>1, <2>3, <2>4, <2>5 DEF OnLiveBook
<1>4. CASE ~Insert(w) /\ \A r \in OrderIds : ~FillOrder(w, r)
  BY <1>4, RowsCalm DEF OnLiveBook
<1>. QED
  BY <1>2, <1>3, <1>4

LEMMA BooksInit == Init => BooksInv
<1> SUFFICES ASSUME Init PROVE BooksInv
  OBVIOUS
<1>1. LocksInv
  BY LocksInit
<1>2. \A w \in Workers : MarketLasts(w) /\ BookSwept(w)
  BY DEF Init, NoRequest, MarketLasts, BookSwept, Sweeping
<1>3. \A i \in OrderIds : OnLiveBook(orders[i]) /\ OnLiveBook(draft[i])
  BY NoRowType DEF Init, NoBatch, OnLiveBook
<1>. QED
  BY <1>1, <1>2, <1>3 DEF BooksInv

LEMMA BooksNext == OneWorker /\ BooksInv /\ [Next]_vars => BooksInv'
<1> SUFFICES ASSUME OneWorker, BooksInv, [Next]_vars PROVE BooksInv'
  OBVIOUS
<1>1. LocksInv /\ LocksInv' /\ EngineInv /\ EngineInv'
  BY LocksNext DEF BooksInv, LocksInv, RowsInv
<1>2. /\ market \in [Markets -> MarketStatus]
      /\ \A i \in OrderIds : orders[i].ticket.market \in Markets
      /\ \A i \in OrderIds : draft[i].ticket.market \in Markets
  BY <1>1, Typed, TicketType DEF Row
<1>3. ASSUME NEW w \in Workers, (Start(w) \/ Step(w)) /\ ~Rollback(w) /\ ~Commit(w)
      PROVE  BooksInv'
  <2>1. MarketLasts(w)'
    BY <1>1, <1>3, LastsStep DEF BooksInv
  <2>2. BookSwept(w)'
    <3>1. CASE Step(w)
      BY <1>1, <1>3, <3>1, SweptStep DEF BooksInv
    <3>2. CASE Start(w)
      <4>1. /\ req'[w].op = "settle" => pc'[w] = "snapshot"
            /\ req'[w].op = "annul" => pc'[w] = "annul"
        BY <1>1, <3>2, Typed DEF Start, StartPlace, StartCancel, StartSettle, StartAnnul, Goto
      <4>. QED
        BY <4>1 DEF BookSwept, Sweeping
    <3>. QED
      BY <1>3, <3>1, <3>2
  <2>3. market' = market
    BY <1>3, MarketKept
  <2>4. orders' = orders
    BY <1>1, <1>3, RowMoves DEF OwnRows
  <2>5. \A i \in OrderIds : OnLiveBook(draft'[i])
    BY <1>1, <1>3, LiveRows DEF BooksInv
  <2>6. \A i \in OrderIds : OnLiveBook(orders[i])' /\ OnLiveBook(draft[i])'
    BY <2>3, <2>4, <2>5 DEF BooksInv, OnLiveBook, Settleable
  <2>7. \A v \in Workers : v = w
    BY DEF OneWorker
  <2>. QED
    BY <1>1, <2>1, <2>2, <2>6, <2>7 DEF BooksInv
<1>4. ASSUME NEW w \in Workers, Rollback(w) \/ Commit(w)
      PROVE  \A v \in Workers : MarketLasts(v)' /\ BookSwept(v)'
  <2>1. req'[w] = NoRequest
    BY <1>1, <1>4, Typed DEF Rollback, Commit, EndRequest
  <2>2. MarketLasts(w)' /\ BookSwept(w)'
    BY <2>1 DEF NoRequest, MarketLasts, BookSwept, Sweeping
  <2>. QED
    BY <2>2 DEF OneWorker
<1>5. ASSUME NEW w \in Workers, Rollback(w) PROVE BooksInv'
  <2>1. market' = market
    BY <1>5 DEF Rollback
  <2>2. \A i \in OrderIds : orders'[i] = orders[i] /\ draft'[i] = orders[i]
    BY <1>1, <1>5, ViewDropped
  <2>3. \A i \in OrderIds : OnLiveBook(orders[i])' /\ OnLiveBook(draft[i])'
    BY <2>1, <2>2 DEF BooksInv, OnLiveBook, Settleable
  <2>. QED
    BY <1>1, <1>4, <1>5, <2>3 DEF BooksInv
<1>6. ASSUME NEW w \in Workers, Commit(w) PROVE BooksInv'
  <2>1. \A i \in OrderIds : orders'[i] = draft[i] /\ draft'[i] = draft[i]
    BY <1>1, <1>6, ViewCommitted
  <2>2. \A m \in Markets : market'[m] = FinalStatus(req[w], m)
    BY <1>6 DEF Commit
  <2>3. ASSUME NEW i \in OrderIds, Active(draft[i])
        PROVE  market'[draft[i].ticket.market] = market[draft[i].ticket.market]
    <3>1. CASE req[w].op \in {"settle", "annul"}
      <4>1. Sweeping(w) /\ pc[w] = "commit"
        BY <1>6, <3>1 DEF Sweeping, Commit
      <4>2. draft[i].ticket.market # req[w].market
        BY <2>3, <4>1 DEF BooksInv, BookSwept, Unvisited, Ids
      <4>. QED
        BY <1>2, <2>2, <4>2 DEF FinalStatus
    <3>2. CASE req[w].op \notin {"settle", "annul"}
      BY <1>2, <2>2, <3>2 DEF FinalStatus
    <3>. QED
      BY <3>1, <3>2
  <2>4. \A i \in OrderIds : OnLiveBook(orders[i])' /\ OnLiveBook(draft[i])'
    BY <2>1, <2>3 DEF BooksInv, OnLiveBook, Settleable
  <2>. QED
    BY <1>1, <1>4, <1>6, <2>4 DEF BooksInv
<1>7. ASSUME UNCHANGED <<orders, draft, owner, wallets, purse, holder, keeper, pc, req, tx>>,
             \A w \in Workers : ~Commit(w)
      PROVE  BooksInv'
  <2>1. \A m \in Markets : market[m] \in {"open", "closed"} => market'[m] \in {"open", "closed"}
    BY <1>1, <1>7, MarketSteps
  <2>2. \A i \in OrderIds : OnLiveBook(orders[i])' /\ OnLiveBook(draft[i])'
    BY <1>2, <1>7, <2>1 DEF BooksInv, OnLiveBook, Settleable
  <2>3. ASSUME NEW w \in Workers PROVE MarketLasts(w)' /\ BookSwept(w)'
    <3>1. /\ req[w].op = "place" => req[w].ticket.market \in Markets
          /\ req[w].op \in {"settle", "annul"} => req[w].market \in Markets
      BY <1>1, Typed, RequestType, TicketType
    <3>2. MarketLasts(w)'
      BY <1>7, <2>1, <3>1 DEF BooksInv, MarketLasts, Settleable, Sweeping
    <3>. QED
      BY <1>7, <3>2 DEF BooksInv, BookSwept, Sweeping, Unvisited
  <2>. QED
    BY <1>1, <2>2, <2>3 DEF BooksInv
<1>. QED
  BY <1>3, <1>5, <1>6, <1>7, EngineSteps

\* While requests do not overlap, no order of a settled or cancelled market is in the
\* book: a settlement cancels all it loaded, and nothing is placed behind it.
THEOREM FinishedBooksAreEmpty ==
    ASSUME OneWorker
    PROVE  Spec => []ClosedBooksAreEmpty
<1>1. BooksInv => ClosedBooksAreEmpty
  <2> SUFFICES ASSUME BooksInv, NEW i \in Resting
               PROVE  market[orders[i].ticket.market] \in {"open", "closed"}
    BY DEF ClosedBooksAreEmpty
  <2>1. i \in OrderIds /\ Active(orders[i])
    BY DEF Resting, Ids
  <2>. QED
    BY <2>1 DEF BooksInv, OnLiveBook, Settleable
<1>2. BooksInv /\ [Next]_vars => BooksInv'
  BY BooksNext
<1>. QED
  BY <1>1, <1>2, BooksInit, PTL DEF Spec

----------------------------------------------------------------------------
(***************************************************************************)
(* Nobody promises more contracts than they hold.                          *)
(***************************************************************************)

\* A sum over the rows as the worker sees them.
Seen(f) == SumFunctionOnSet([i \in OrderIds |-> f[draft[i]]], OrderIds)

\* What a row adds to the contracts that a user holds and has not promised.
Spare(u, m, side) ==
    [row \in Row |->
        IF row.ticket.user = u /\ row.ticket.market = m /\ row.ticket.side = side
        THEN IF Buys(row.ticket) THEN row.filled
             ELSE -row.filled - (IF Active(row) THEN Unfilled(row) ELSE 0)
        ELSE 0]

LEMMA SpareType ==
    ASSUME NEW u, NEW m, NEW side
    PROVE  Spare(u, m, side) \in [Row -> Int]
<1>1. ASSUME NEW row \in Row
      PROVE  /\ row.filled \in Int
             /\ -row.filled - (IF Active(row) THEN Unfilled(row) ELSE 0) \in Int
  <2>1. row.filled \in Int /\ Unfilled(row) \in Int
    BY UnfilledType DEF Row
  <2>. QED
    BY <2>1
<1>. QED
  BY <1>1 DEF Spare

\* A row that has sold a part of what it promised has as much to spare, and one that
\* has bought has more.
LEMMA SpareFill ==
    ASSUME NEW u, NEW m, NEW side, NEW row \in Row, NEW q \in Nat, q <= Unfilled(row),
           Active(row) \/ Buys(row.ticket)
    PROVE  Spare(u, m, side)[FillRow(row, q)] >= Spare(u, m, side)[row]
<1>1. PICK new \in Row : /\ new = FillRow(row, q) /\ new.ticket = row.ticket
                         /\ new.filled = row.filled + q
  BY FillRowType
<1>2. /\ Unfilled(new) = Unfilled(row) - q
      /\ Active(new) <=> Unfilled(row) # q
  <2>1. new.cancelled = row.cancelled
    BY <1>1 DEF FillRow, Row
  <2>2. new.status = IF Unfilled(row) = q THEN "filled" ELSE "partial"
    BY <1>1 DEF FillRow, Row
  <2>3. row.ticket.quantity \in Int /\ row.filled \in Int /\ row.cancelled \in Int
    BY TicketType DEF Row
  <2>4. Unfilled(new) = Unfilled(row) - q
    BY <1>1, <2>1, <2>3 DEF Unfilled
  <2>. QED
    BY <2>2, <2>4 DEF Active, ActiveStatuses
<1>3. row.filled \in Int /\ Unfilled(row) \in Int
  BY UnfilledType DEF Row
<1>4. /\ Spare(u, m, side)[row]
           = IF row.ticket.user = u /\ row.ticket.market = m /\ row.ticket.side = side
             THEN IF Buys(row.ticket) THEN row.filled
                  ELSE -row.filled - (IF Active(row) THEN Unfilled(row) ELSE 0)
             ELSE 0
      /\ Spare(u, m, side)[new]
           = IF row.ticket.user = u /\ row.ticket.market = m /\ row.ticket.side = side
             THEN IF Buys(row.ticket) THEN new.filled
                  ELSE -new.filled - (IF Active(new) THEN Unfilled(new) ELSE 0)
             ELSE 0
  BY <1>1 DEF Spare
<1>5. CASE Buys(row.ticket)
  BY <1>1, <1>3, <1>4, <1>5
<1>6. CASE ~Buys(row.ticket)
  BY <1>1, <1>2, <1>3, <1>4, <1>6
<1>. QED
  BY <1>1, <1>5, <1>6

\* An order that leaves the book takes its promise back.
LEMMA SpareOff ==
    ASSUME NEW u, NEW m, NEW side, NEW row \in Row, NEW new \in Row, RowOK(row),
           ~Active(new), new.ticket = row.ticket, new.filled = row.filled
    PROVE  Spare(u, m, side)[new] >= Spare(u, m, side)[row]
<1>1. row.filled \in Int /\ Unfilled(row) \in Int /\ (Active(row) => Unfilled(row) > 0)
  BY UnfilledType DEF Row, RowOK
<1>2. /\ Spare(u, m, side)[row]
           = IF row.ticket.user = u /\ row.ticket.market = m /\ row.ticket.side = side
             THEN IF Buys(row.ticket) THEN row.filled
                  ELSE -row.filled - (IF Active(row) THEN Unfilled(row) ELSE 0)
             ELSE 0
      /\ Spare(u, m, side)[new]
           = IF row.ticket.user = u /\ row.ticket.market = m /\ row.ticket.side = side
             THEN IF Buys(row.ticket) THEN row.filled ELSE -row.filled - 0
             ELSE 0
  BY DEF Spare
<1>. QED
  BY <1>1, <1>2

\* How the worker's view of a sum changes.
LEMMA SeenInt ==
    ASSUME EngineInv, NEW f \in [Row -> Int]
    PROVE  /\ IsFiniteSet(OrderIds) /\ Seen(f) \in Int
           /\ \A i \in OrderIds : [j \in OrderIds |-> f[draft[j]]][i] \in Int
<1>1. IsFiniteSet(OrderIds) /\ \A i \in OrderIds : f[draft[i]] \in Int
  BY RowSums
<1> DEFINE a == [i \in OrderIds |-> f[draft[i]]]
<1>2. \A i \in OrderIds : a[i] \in Int
  BY <1>1
<1> HIDE DEF a
<1>3. SumFunctionOnSet(a, OrderIds) \in Int
  BY <1>1, <1>2, SumInt
<1>. QED
  BY <1>1, <1>2, <1>3 DEF Seen, a

LEMMA SeenOne ==
    ASSUME EngineInv, EngineInv', NEW f \in [Row -> Int], NEW k \in OrderIds,
           \A i \in OrderIds \ {k} : draft'[i] = draft[i]
    PROVE  Seen(f)' = Seen(f) + (f[draft'[k]] - f[draft[k]])
<1>1. PICK a : a = [i \in OrderIds |-> f[draft[i]]]
  OBVIOUS
<1>2. PICK b : b = [i \in OrderIds |-> f[draft'[i]]]
  OBVIOUS
<1>3. IsFiniteSet(OrderIds) /\ \A i \in OrderIds : a[i] \in Int
  BY <1>1, SeenInt
<1>4. draft'[k] \in Row
  BY DEF EngineInv, TypeOK
<1>5. b[k] \in Int /\ \A i \in OrderIds \ {k} : b[i] = a[i]
  BY <1>1, <1>2, <1>4
<1>6. SumFunctionOnSet(b, OrderIds) = SumFunctionOnSet(a, OrderIds) + (b[k] - a[k])
  BY <1>3, <1>5, SumChanged
<1>. QED
  BY <1>1, <1>2, <1>6 DEF Seen

LEMMA SeenGrows ==
    ASSUME EngineInv, EngineInv', NEW f \in [Row -> Int],
           \A i \in OrderIds : f[draft'[i]] >= f[draft[i]]
    PROVE  Seen(f)' >= Seen(f)
<1>1. PICK a : a = [i \in OrderIds |-> f[draft[i]]]
  OBVIOUS
<1>2. PICK b : b = [i \in OrderIds |-> f[draft'[i]]]
  OBVIOUS
<1>3. PICK d : d = [i \in OrderIds |-> b[i] - a[i]]
  OBVIOUS
<1>4. IsFiniteSet(OrderIds) /\ \A i \in OrderIds : a[i] \in Int
  BY <1>1, SeenInt
<1>5. \A i \in OrderIds : draft'[i] \in Row
  BY DEF EngineInv, TypeOK
<1>6. \A i \in OrderIds : b[i] \in Int /\ b[i] >= a[i]
  BY <1>1, <1>2, <1>5
<1>7. \A i \in OrderIds : d[i] \in Nat /\ d[i] \in Int /\ b[i] = a[i] + d[i]
  BY <1>3, <1>4, <1>6
<1>8. SumFunctionOnSet(d, OrderIds) \in Nat
  BY <1>4, <1>7, SumNat
<1>9. SumFunctionOnSet(b, OrderIds) = SumFunctionOnSet(a, OrderIds) + SumFunctionOnSet(d, OrderIds)
  BY <1>4, <1>6, <1>7, SumPlus
<1>10. SumFunctionOnSet(a, OrderIds) \in Int
  BY <1>4, SumInt
<1>. QED
  BY <1>1, <1>2, <1>8, <1>9, <1>10 DEF Seen

\* What a row adds to the contracts that a user holds.
Owned(u, m, side) ==
    [row \in Row |-> IF row.ticket.user = u THEN Contracts(m, side)[row] ELSE 0]

LEMMA OwnedType ==
    ASSUME NEW u, NEW m, NEW side
    PROVE  Owned(u, m, side) \in [Row -> Int]
<1>1. \A row \in Row : Contracts(m, side)[row] \in Int
  BY ContractsType
<1>. QED
  BY <1>1 DEF Owned

LEMMA OwnedSum ==
    ASSUME NEW rows \in [OrderIds -> Row], \A i \in OrderIds : RowOK(rows[i]),
           NEW u, NEW m, NEW side
    PROVE  NetPosition(rows, u, m, side)
             = SumFunctionOnSet([i \in OrderIds |-> Owned(u, m, side)[rows[i]]], OrderIds)
<1> DEFINE Mine == {i \in OrderIds : rows[i].ticket.user = u}
           c == [i \in OrderIds |-> Contracts(m, side)[rows[i]]]
           g == [i \in OrderIds |-> Owned(u, m, side)[rows[i]]]
<1>1. IsFiniteSet(OrderIds) /\ Mine \in SUBSET OrderIds
  BY MaxOrdersAssumption, FS_Interval DEF OrderIds
<1>2. \A i \in OrderIds : c[i] \in Int
  BY ContractsType
<1>3. \A i \in OrderIds : g[i] = IF i \in Mine THEN c[i] ELSE 0
  BY DEF Owned
<1>4. NetPosition(rows, u, m, side) = SumFunctionOnSet(c, Mine)
  BY PositionSum
<1> HIDE DEF c, g, Mine
<1>5. SumFunctionOnSet(c, Mine) = SumFunctionOnSet(g, OrderIds)
  BY <1>1, <1>2, <1>3, SumOfSome
<1>. QED
  BY <1>4, <1>5 DEF g

\* Positions and promises are numbers.
LEMMA PositionInt ==
    ASSUME NEW rows \in [OrderIds -> Row], \A i \in OrderIds : RowOK(rows[i]),
           NEW u, NEW m, NEW side, NEW mine
    PROVE  /\ NetPosition(rows, u, m, side) \in Int
           /\ Committed(rows, u, m, side, mine) \in Int
<1>1. IsFiniteSet(OrderIds)
  BY MaxOrdersAssumption, FS_Interval DEF OrderIds
<1>2. PICK c : c = [i \in OrderIds |-> Owned(u, m, side)[rows[i]]]
  OBVIOUS
<1>3. \A i \in OrderIds : c[i] \in Int
  BY <1>2, OwnedType
<1>4. SumFunctionOnSet(c, OrderIds) \in Int
  BY <1>1, <1>3, SumInt
<1>5. PICK T \in SUBSET OrderIds :
         T = {i \in OrdersOf(rows, u, m, side, "sell") : i # mine /\ Active(rows[i])}
  BY DEF OrdersOf, Ids
<1>6. \A i \in OrderIds : Remainders(rows)[i] \in Int
  BY UnfilledType DEF Remainders
<1>7. IsFiniteSet(T)
  BY <1>1, <1>5, FS_Subset
<1>8. SumFunctionOnSet(Remainders(rows), T) \in Int
  BY <1>5, <1>6, <1>7, SumInt
<1>9. NetPosition(rows, u, m, side) \in Int
  BY <1>2, <1>4, OwnedSum
<1>10. Committed(rows, u, m, side, mine) \in Int
  BY <1>5, <1>8 DEF Committed
<1>. QED
  BY <1>9, <1>10

\* The contracts held and not promised to sells other than `mine`, as one sum.
LEMMA SpareSum ==
    ASSUME NEW rows \in [OrderIds -> Row], \A i \in OrderIds : RowOK(rows[i]),
           NEW u, NEW m, NEW side, NEW mine
    PROVE  LET f == Spare(u, m, side)
               spared == SumFunctionOnSet([i \in OrderIds |-> f[rows[i]]], OrderIds)
               free == NetPosition(rows, u, m, side) - Committed(rows, u, m, side, mine)
           IN  /\ mine \notin OrderIds => free = spared
               /\ mine \in OrdersOf(rows, u, m, side, "sell") /\ Active(rows[mine])
                     => free = spared + Unfilled(rows[mine])
<1> DEFINE f == Spare(u, m, side)
           T == {i \in OrdersOf(rows, u, m, side, "sell") : i # mine /\ Active(rows[i])}
           R == Remainders(rows)
           c == [i \in OrderIds |-> Owned(u, m, side)[rows[i]]]
           left == [i \in OrderIds |-> IF i \in T THEN R[i] ELSE 0]
           s == [i \in OrderIds |-> c[i] - left[i]]
           h == [i \in OrderIds |-> f[rows[i]]]
<1>1. IsFiniteSet(OrderIds) /\ T \in SUBSET OrderIds
  BY MaxOrdersAssumption, FS_Interval DEF OrderIds, OrdersOf, Ids
<1>2. \A i \in OrderIds : c[i] \in Int /\ R[i] \in Int /\ h[i] \in Int
  BY OwnedType, SpareType, UnfilledType DEF Remainders
<1>3. \A i \in OrderIds : left[i] \in Int /\ s[i] \in Int /\ c[i] = s[i] + left[i]
  BY <1>2
<1>4. \A i \in OrderIds :
         h[i] = IF i = mine /\ i \in OrdersOf(rows, u, m, side, "sell") /\ Active(rows[i])
                THEN s[i] - R[i] ELSE s[i]
  <2> SUFFICES ASSUME NEW i \in OrderIds
               PROVE  h[i] = IF i = mine /\ i \in OrdersOf(rows, u, m, side, "sell")
                                /\ Active(rows[i])
                             THEN s[i] - R[i] ELSE s[i]
    OBVIOUS
  <2>1. PICK row \in Row : row = rows[i]
    OBVIOUS
  <2>2. /\ row.filled \in Int /\ Unfilled(row) \in Int /\ R[i] = Unfilled(row)
        /\ row.ticket.direction \in {"buy", "sell"}
        /\ Active(row) => Exists(row)
    BY <2>1, TicketType, UnfilledType DEF Row, Remainders, Active, ActiveStatuses, Exists
  <2>3. (i \in OrdersOf(rows, u, m, side, "sell") /\ Active(rows[i]))
          <=> (/\ row.ticket.user = u /\ row.ticket.market = m /\ row.ticket.side = side
               /\ ~Buys(row.ticket) /\ Active(row))
    <3>1. ~Buys(row.ticket) <=> row.ticket.direction = "sell"
      BY <2>2 DEF Buys
    <3>2. i \in OrdersOf(rows, u, m, side, "sell")
            <=> (/\ Exists(row) /\ row.ticket.user = u /\ row.ticket.market = m
                 /\ row.ticket.side = side /\ row.ticket.direction = "sell")
      BY <2>1 DEF OrdersOf, Ids
    <3>. QED
      BY <2>1, <2>2, <3>1, <3>2
  <2>4. c[i] = IF row.ticket.user = u /\ row.ticket.market = m /\ row.ticket.side = side
               THEN IF Buys(row.ticket) THEN row.filled ELSE -row.filled
               ELSE 0
    BY <2>1 DEF Owned, Contracts
  <2>5. left[i] = IF i # mine /\ i \in OrdersOf(rows, u, m, side, "sell") /\ Active(rows[i])
                  THEN Unfilled(row) ELSE 0
    BY <2>2
  <2>6. h[i] = IF row.ticket.user = u /\ row.ticket.market = m /\ row.ticket.side = side
               THEN IF Buys(row.ticket) THEN row.filled
                    ELSE -row.filled - (IF Active(row) THEN Unfilled(row) ELSE 0)
               ELSE 0
    BY <2>1 DEF Spare
  <2>7. s[i] = c[i] - left[i]
    OBVIOUS
  <2> HIDE DEF c, left, s, h, R, T
  <2>. QED
    BY <2>2, <2>3, <2>4, <2>5, <2>6, <2>7
<1>5. NetPosition(rows, u, m, side) = SumFunctionOnSet(c, OrderIds)
  BY OwnedSum
<1>6. Committed(rows, u, m, side, mine) = SumFunctionOnSet(R, T)
  BY DEF Committed
<1>7. /\ \A x \in T : R[x] \in Int /\ left[x] = R[x]
      /\ \A x \in OrderIds \ T : left[x] = 0
  BY <1>1, <1>2
<1>8. mine \in OrdersOf(rows, u, m, side, "sell") => mine \in OrderIds /\ R[mine] = Unfilled(rows[mine])
  BY DEF OrdersOf, Ids, Remainders
<1> HIDE DEF c, left, s, h, R, T
<1>9. SumFunctionOnSet(R, T) = SumFunctionOnSet(left, OrderIds)
  BY <1>1, <1>7, SumOfSome
<1>10. SumFunctionOnSet(c, OrderIds) = SumFunctionOnSet(s, OrderIds) + SumFunctionOnSet(left, OrderIds)
  BY <1>1, <1>3, SumPlus
<1>11. /\ SumFunctionOnSet(s, OrderIds) \in Int
       /\ SumFunctionOnSet(left, OrderIds) \in Int
  BY <1>1, <1>3, SumInt
<1>12. ASSUME mine \notin OrderIds
       PROVE  SumFunctionOnSet(h, OrderIds) = SumFunctionOnSet(s, OrderIds)
  <2>1. \A i \in OrderIds : h[i] = s[i]
    BY <1>4, <1>12
  <2>. QED
    BY <1>1, <2>1, SumEqual
<1>13. ASSUME mine \in OrdersOf(rows, u, m, side, "sell"), Active(rows[mine])
       PROVE  SumFunctionOnSet(s, OrderIds) = SumFunctionOnSet(h, OrderIds) + R[mine]
  <2>1. mine \in OrderIds /\ h[mine] = s[mine] - R[mine]
    BY <1>4, <1>8, <1>13
  <2>2. \A x \in OrderIds \ {mine} : h[x] = s[x]
    BY <1>4
  <2>3. SumFunctionOnSet(h, OrderIds) = SumFunctionOnSet(s, OrderIds) + (h[mine] - s[mine])
    BY <1>1, <1>2, <1>3, <2>1, <2>2, SumChanged
  <2>4. SumFunctionOnSet(h, OrderIds) \in Int
    BY <1>1, <1>2, SumInt
  <2>. QED
    BY <1>2, <1>3, <1>11, <2>1, <2>3, <2>4
<1>. QED
  BY <1>5, <1>6, <1>8, <1>9, <1>10, <1>11, <1>12, <1>13 DEF h

\* The order being placed is in the book while something of it is left.
OwnOpen(w) ==
    LET own == draft[tx[w].order]
    IN  /\ pc[w] = "position" => Active(own)
        /\ pc[w] \in Placing /\ Unfilled(own) > 0 => Active(own)

\* A sell that waits for its check has promised its contracts already.
Promise(w, f) == IF pc[w] = "position" THEN f[draft[tx[w].order]] ELSE 0

SpareInv ==
    /\ LocksInv
    /\ \A w \in Workers : OwnOpen(w)
    /\ \A u \in Users, m \in Markets, side \in Sides :
          /\ Booked(Spare(u, m, side)) >= 0
          /\ \A w \in Workers : Seen(Spare(u, m, side)) >= Promise(w, Spare(u, m, side))

\* Only an insert leads to the check of a position, and only the check leads on.
LEMMA PositionSteps ==
    ASSUME EngineInv, NEW w \in Workers, Start(w) \/ Step(w), ~Rollback(w), ~Commit(w)
    PROVE  /\ pc[w] = "position" => CheckPosition(w)
           /\ pc'[w] = "position" => Insert(w) /\ ~Buys(req[w].ticket)
           /\ Insert(w) => pc[w] = "insert" /\ pc'[w] \in {"reserve", "position"}
           /\ pc'[w] \in Placing => PlaceStep(w)
<1>1. pc \in [Workers -> Statement]
  BY Typed
<1>2. CASE Start(w)
  <2>1. pc[w] = "idle" /\ pc'[w] \in {"insert", "row", "snapshot", "annul"}
    BY <1>2, StartRequest
  <2>. QED
    BY <2>1 DEF Insert, Placing
<1>3. CASE Insert(w)
  BY <1>1, <1>3 DEF Insert, Goto, PlaceStep
<1>4. CASE PlaceStep(w) /\ ~Insert(w)
  BY <1>1, <1>4 DEF PlaceStep, ReserveFunds, CheckPosition, Scan, Cross, FillOrder,
                    CreditSeller, StampMarket, FinishPlace, DropRemainder, Goto
<1>5. CASE CancelStep(w)
  BY <1>1, <1>5 DEF CancelStep, CancelOrder, Unreserve, ReleaseFunds, Goto, Insert, Placing
<1>6. CASE SettleStep(w)
  BY <1>1, <1>6 DEF SettleStep, Snapshot, SweepOrder, ReleaseSwept, ReleaseFunds,
                    StartPayout, Assess, PayWinner, FinishSettle, Goto, Insert, Placing
<1>7. CASE AnnulStep(w)
  BY <1>1, <1>7, Zenon DEF AnnulStep, LockForAnnul, LockForVoid, VoidOrder, StartRefund, Refund,
                    FinishAnnul, Goto, Insert, Placing
<1>. QED
  BY <1>2, <1>3, <1>4, <1>5, <1>6, <1>7 DEF Step

\* Where a statement that neither inserts nor fills leads, its order is as it was.
LEMMA OwnKept ==
    ASSUME EngineInv, NEW w \in Workers, PlaceStep(w), ~Rollback(w), ~Insert(w),
           \A r \in OrderIds : ~FillOrder(w, r), pc'[w] \in Placing
    PROVE  pc[w] \in Placing /\ draft' = draft /\ tx'[w].order = tx[w].order
<1>1. pc \in [Workers -> Statement]
  BY Typed
<1>2. tx'[w].order = tx[w].order
  BY PlacementKeepsRequest
<1>3. pc[w] \in Placing /\ draft' = draft
  BY <1>1, Zenon DEF PlaceStep, ReserveFunds, CheckPosition, Scan, Cross, CreditSeller, StampMarket,
              FinishPlace, DropRemainder, Goto, Placing, orderVars
<1>. QED
  BY <1>2, <1>3

LEMMA OpenStep ==
    ASSUME EngineInv, NEW w \in Workers, Start(w) \/ Step(w), ~Rollback(w), ~Commit(w),
           OwnOpen(w)
    PROVE  OwnOpen(w)'
<1>1. pc \in [Workers -> Statement] /\ draft \in [OrderIds -> Row]
  BY Typed
<1>2. CASE pc'[w] \notin Placing
  BY <1>2 DEF OwnOpen, Placing
<1>3. CASE Insert(w)
  <2>1. PICK t \in Tickets : t = req[w].ticket
    BY <1>3, Served DEF Insert
  <2>2. PICK i \in OrderIds : draft' = [draft EXCEPT ![i] = NewRow(t)]
                                /\ tx' = [tx EXCEPT ![w].order = i]
    BY <1>3, <2>1 DEF Insert
  <2>3. tx'[w].order = i
    <3>1. tx \in [Workers -> TxType]
      BY Typed
    <3>. QED
      BY <2>2, <3>1 DEF TxType
  <2>4. Active(draft'[tx'[w].order])
    BY <1>1, <2>2, <2>3 DEF NewRow, Active, ActiveStatuses
  <2>. QED
    BY <2>4 DEF OwnOpen
<1>4. ASSUME NEW r \in OrderIds, FillOrder(w, r), pc'[w] \in Placing PROVE OwnOpen(w)'
  <2>1. PICK k \in OrderIds, q \in Nat, t \in Tickets, own \in Row, resting \in Row :
           /\ k = tx[w].order /\ k # r /\ t = req[w].ticket
           /\ own = draft[k] /\ resting = draft[r] /\ resting = tx[w].batch[r]
           /\ own.ticket = t /\ Exists(own) /\ Exists(resting)
           /\ q = Smaller(Unfilled(own), Unfilled(resting))
           /\ q <= Unfilled(own) /\ q <= Unfilled(resting)
           /\ Unfilled(own) \in Nat \ {0} /\ Unfilled(resting) \in Nat \ {0}
           /\ draft' = [draft EXCEPT ![k] = FillRow(own, q), ![r] = FillRow(resting, q)]
           /\ Compatible(t, resting.ticket)
           /\ owner[k] = w /\ owner[r] = w
    BY <1>4, FilledRows
  <2>2. tx'[w].order = k
    <3>1. PlaceStep(w) /\ ~Insert(w)
      BY <1>4 DEF PlaceStep, FillOrder, Insert
    <3>. QED
      BY <2>1, <3>1, PlacementKeepsRequest
  <2>3. draft'[k] = FillRow(own, q) /\ pc'[w] # "position"
    <3>1. pc'[w] # "position"
      BY <1>1, <1>4, PositionSteps, Zenon DEF FillOrder, Insert
    <3>. QED
      BY <1>1, <2>1, <3>1
  <2>4. Unfilled(FillRow(own, q)) > 0 => Active(FillRow(own, q))
    <3>1. PICK new \in Row : new = FillRow(own, q) /\ new.ticket = own.ticket
                                /\ new.filled = own.filled + q
      BY <2>1, FillRowType
    <3>2. /\ new.cancelled = own.cancelled
          /\ new.status = IF Unfilled(own) = q THEN "filled" ELSE "partial"
      BY <3>1 DEF FillRow, Row
    <3>3. own.ticket.quantity \in Int /\ own.filled \in Int /\ own.cancelled \in Int
      BY TicketType DEF Row
    <3>. QED
      BY <3>1, <3>2, <3>3 DEF Unfilled, Active, ActiveStatuses
  <2>. QED
    BY <2>2, <2>3, <2>4 DEF OwnOpen
<1>5. CASE pc'[w] \in Placing /\ ~Insert(w) /\ \A r \in OrderIds : ~FillOrder(w, r)
  <2>1. PlaceStep(w) /\ pc'[w] # "position"
    BY <1>5, PositionSteps
  <2>2. pc[w] \in Placing /\ draft' = draft /\ tx'[w].order = tx[w].order
    BY <1>5, <2>1, OwnKept
  <2>. QED
    BY <2>1, <2>2 DEF OwnOpen
<1>. QED
  BY <1>2, <1>3, <1>4, <1>5

\* A new order has nothing; a sell's promise is not held against it yet.
LEMMA InsertSpares ==
    ASSUME EngineInv, EngineInv', NEW w \in Workers, Insert(w), ~Rollback(w), ~Commit(w),
           NEW u \in Users, NEW m \in Markets, NEW side \in Sides,
           Seen(Spare(u, m, side)) >= Promise(w, Spare(u, m, side))
    PROVE  Seen(Spare(u, m, side))' >= Promise(w, Spare(u, m, side))'
<1>1. PICK f \in [Row -> Int] : f = Spare(u, m, side)
  BY SpareType
<1>2. PICK t \in Tickets : t = req[w].ticket
  BY Served DEF Insert
<1>3. PICK i \in OrderIds : /\ IsNextId(i) /\ draft' = [draft EXCEPT ![i] = NewRow(t)]
                            /\ tx' = [tx EXCEPT ![w].order = i]
  BY <1>2 DEF Insert
<1>4. draft \in [OrderIds -> Row] /\ tx \in [Workers -> TxType]
  BY Typed
<1>5. tx'[w].order = i
  BY <1>3, <1>4 DEF TxType
<1>6. draft'[i] = NewRow(t) /\ \A j \in OrderIds \ {i} : draft'[j] = draft[j]
  BY <1>3, <1>4
<1>7. f[draft[i]] = 0
  <2>1. draft[i] = NoRow
    BY <1>3 DEF IsNextId, EngineInv, DraftsExtend, RowOK
  <2>2. NoRow \in Row /\ ~Active(NoRow) /\ NoRow.filled = 0
    BY NoRowType DEF NoRow
  <2>. QED
    BY <1>1, <2>1, <2>2 DEF Spare
<1>8. f[draft'[i]] \in Int /\ (Buys(t) => f[draft'[i]] = 0)
  <2>1. NewRow(t) \in Row /\ NewRow(t).ticket = t /\ NewRow(t).filled = 0
    BY NewRowType
  <2>. QED
    BY <1>1, <1>6, <2>1 DEF Spare
<1>9. Seen(f)' = Seen(f) + (f[draft'[i]] - f[draft[i]])
  BY <1>6, SeenOne
<1>10. Seen(f) \in Int
  BY SeenInt
<1>11. pc'[w] = IF Buys(t) THEN "reserve" ELSE "position"
  BY <1>2, Typed DEF Insert, Goto
<1>12. Promise(w, f) = 0
  BY DEF Promise, Insert
<1>13. Promise(w, f)' = IF Buys(t) THEN 0 ELSE f[draft'[i]]
  BY <1>5, <1>11 DEF Promise
<1>. QED
  BY <1>1, <1>7, <1>8, <1>9, <1>10, <1>12, <1>13

\* The check sees all that its user holds and has promised.
LEMMA CheckSpares ==
    ASSUME OneWorker, LocksInv, EngineInv', NEW w \in Workers, CheckPosition(w),
           ~Rollback(w), OwnOpen(w),
           NEW u \in Users, NEW m \in Markets, NEW side \in Sides,
           Seen(Spare(u, m, side)) >= Promise(w, Spare(u, m, side))
    PROVE  Seen(Spare(u, m, side))' >= Promise(w, Spare(u, m, side))'
<1>1. EngineInv
  BY DEF LocksInv, RowsInv
<1>2. PICK f \in [Row -> Int] : f = Spare(u, m, side)
  BY SpareType
<1>3. PICK t \in Tickets : t = req[w].ticket
  BY <1>1, Served DEF CheckPosition
<1>4. /\ pc[w] = "position" /\ draft' = draft /\ pc'[w] = "cross"
      /\ FreePosition(w) >= t.quantity
  BY <1>1, <1>3, Typed DEF CheckPosition, Goto, orderVars
<1>5. PICK k \in OrderIds : k = tx[w].order
  BY <1>1, <1>4, Served
<1>6. PICK own \in Row : own = draft[k] /\ own.ticket = t /\ Active(own) /\ ~Buys(t)
  <2>1. draft[k] \in Row /\ draft[k].ticket = t
    BY <1>1, <1>3, <1>4, <1>5, OwnRow, Served
  <2>2. Active(draft[k])
    BY <1>4, <1>5 DEF OwnOpen
  <2>3. ~Buys(t)
    BY <1>3, <1>4 DEF LocksInv, Holding
  <2>. QED
    BY <2>1, <2>2, <2>3
<1>7. Seen(f) \in Int /\ Seen(f)' = Seen(f) /\ Promise(w, f)' = 0
  BY <1>1, <1>4, SeenInt DEF Seen, Promise
<1>8. CASE t.user = u /\ t.market = m /\ t.side = side
  <2>1. draft \in [OrderIds -> Row] /\ \A i \in OrderIds : RowOK(draft[i])
    BY <1>1, Typed DEF EngineInv, DraftsExtend
  <2>2. OrdersSeenBy(w) = draft
    BY SoleHolder, <2>1 DEF OrdersSeenBy
  <2>3. FreePosition(w) = NetPosition(draft, u, m, side) - Committed(draft, u, m, side, k)
    BY <1>3, <1>5, <1>8, <2>2 DEF FreePosition
  <2>4. k \in OrdersOf(draft, u, m, side, "sell") /\ Active(draft[k])
    <3>1. t.direction = "sell"
      BY <1>6, TicketType DEF Buys
    <3>. QED
      BY <1>6, <1>8, <3>1 DEF OrdersOf, Ids, Exists, Active, ActiveStatuses
  <2>5. NetPosition(draft, u, m, side) - Committed(draft, u, m, side, k)
          = Seen(f) + Unfilled(draft[k])
    BY <1>2, <2>1, <2>4, SpareSum DEF Seen
  <2>6. Unfilled(own) <= t.quantity /\ Unfilled(own) \in Int /\ t.quantity \in Int
    BY <1>6, TicketType DEF Unfilled, Row
  <2>. QED
    BY <1>2, <1>4, <1>6, <1>7, <2>3, <2>5, <2>6
<1>9. CASE ~(t.user = u /\ t.market = m /\ t.side = side)
  <2>1. f[own] = 0
    BY <1>2, <1>6, <1>9 DEF Spare
  <2>2. Promise(w, f) = 0
    BY <1>4, <1>5, <1>6, <2>1 DEF Promise
  <2>. QED
    BY <1>2, <1>7, <2>2
<1>. QED
  BY <1>8, <1>9

\* A fill delivers what was promised, and every other statement takes promises back.
LEMMA OtherSpares ==
    ASSUME EngineInv, EngineInv', NEW w \in Workers, Start(w) \/ Step(w), ~Rollback(w),
           ~Commit(w), ~Insert(w), ~CheckPosition(w), OwnOpen(w),
           NEW u \in Users, NEW m \in Markets, NEW side \in Sides,
           Seen(Spare(u, m, side)) >= Promise(w, Spare(u, m, side))
    PROVE  Seen(Spare(u, m, side))' >= Promise(w, Spare(u, m, side))'
<1>1. PICK f \in [Row -> Int] : f = Spare(u, m, side)
  BY SpareType
<1>2. pc[w] # "position" /\ pc'[w] # "position"
  BY PositionSteps
<1>3. Promise(w, f) = 0 /\ Promise(w, f)' = 0
  BY <1>2 DEF Promise
<1>4. /\ draft \in [OrderIds -> Row] /\ draft' \in [OrderIds -> Row]
      /\ \A i \in OrderIds : RowOK(draft[i])
  BY Typed DEF EngineInv, DraftsExtend, TypeOK
<1>5. ASSUME NEW r \in OrderIds, FillOrder(w, r), NEW i \in OrderIds
      PROVE  f[draft'[i]] >= f[draft[i]]
  <2>1. PICK k \in OrderIds, q \in Nat, t \in Tickets, own \in Row, resting \in Row :
           /\ k = tx[w].order /\ k # r /\ t = req[w].ticket
           /\ own = draft[k] /\ resting = draft[r] /\ resting = tx[w].batch[r]
           /\ own.ticket = t /\ Exists(own) /\ Exists(resting)
           /\ q = Smaller(Unfilled(own), Unfilled(resting))
           /\ q <= Unfilled(own) /\ q <= Unfilled(resting)
           /\ Unfilled(own) \in Nat \ {0} /\ Unfilled(resting) \in Nat \ {0}
           /\ draft' = [draft EXCEPT ![k] = FillRow(own, q), ![r] = FillRow(resting, q)]
           /\ Compatible(t, resting.ticket)
           /\ owner[k] = w /\ owner[r] = w
    BY <1>5, FilledRows
  <2>2. Active(resting)
    <3>1. req[w].op = "place"
      BY <1>5, Served, Zenon DEF FillOrder
    <3>2. Exists(tx[w].batch[r])
      BY <2>1
    <3>3. Active(draft[r])
      BY <3>1, <3>2, LoadedRow
    <3>. QED
      BY <2>1, <3>3
  <2>3. Active(own)
    <3>1. own = draft[tx[w].order] /\ Unfilled(own) > 0
      BY <2>1
    <3>2. pc[w] \in Placing
      BY <1>5, Zenon DEF FillOrder, Placing
    <3>. QED
      BY <3>1, <3>2 DEF OwnOpen
  <2>4. /\ f[FillRow(own, q)] >= f[own]
        /\ f[FillRow(resting, q)] >= f[resting]
    BY <1>1, <2>1, <2>2, <2>3, SpareFill
  <2>5. f[draft[i]] \in Int
    BY <1>4
  <2>6. \/ draft'[i] = draft[i]
        \/ i = k /\ draft'[i] = FillRow(own, q)
        \/ i = r /\ draft'[i] = FillRow(resting, q)
    BY <1>4, <2>1, Zenon
  <2>7. CASE draft'[i] = draft[i]
    BY <2>5, <2>7
  <2>. QED
    BY <2>1, <2>4, <2>6, <2>7, Zenon
<1>6. ASSUME \A r \in OrderIds : ~FillOrder(w, r), NEW i \in OrderIds
      PROVE  f[draft'[i]] >= f[draft[i]]
  <2>1. f[draft[i]] \in Int
    BY <1>4
  <2>2. CASE draft'[i] = draft[i]
    BY <2>1, <2>2
  <2>3. CASE /\ ~Active(draft'[i])
             /\ draft'[i].ticket = draft[i].ticket /\ draft'[i].filled = draft[i].filled
    <3>1. draft[i] \in Row /\ draft'[i] \in Row /\ RowOK(draft[i])
      BY <1>4
    <3>. QED
      BY <1>1, <2>3, <3>1, SpareOff
  <2>. QED
    BY <1>6, <2>2, <2>3, RowsCalm
<1>7. Seen(f)' >= Seen(f)
  BY <1>5, <1>6, SeenGrows
<1>8. Seen(f) \in Int /\ Seen(f)' \in Int
  <2>1. Seen(f) \in Int
    BY SeenInt
  <2>2. PICK b : b = [i \in OrderIds |-> f[draft'[i]]]
    OBVIOUS
  <2>3. IsFiniteSet(OrderIds) /\ \A i \in OrderIds : b[i] \in Int
    BY <1>4, <2>2, SeenInt
  <2>4. SumFunctionOnSet(b, OrderIds) \in Int
    BY <2>3, SumInt
  <2>. QED
    BY <2>1, <2>2, <2>4 DEF Seen
<1>. QED
  BY <1>1, <1>3, <1>7, <1>8

LEMMA SpareStep ==
    ASSUME OneWorker, LocksInv, EngineInv', NEW w \in Workers, Start(w) \/ Step(w),
           ~Rollback(w), ~Commit(w), OwnOpen(w),
           NEW u \in Users, NEW m \in Markets, NEW side \in Sides,
           Seen(Spare(u, m, side)) >= Promise(w, Spare(u, m, side))
    PROVE  Seen(Spare(u, m, side))' >= Promise(w, Spare(u, m, side))'
<1>1. EngineInv
  BY DEF LocksInv, RowsInv
<1>2. CASE Insert(w)
  BY <1>1, <1>2, InsertSpares
<1>3. CASE CheckPosition(w)
  BY <1>3, CheckSpares
<1>4. CASE ~Insert(w) /\ ~CheckPosition(w)
  BY <1>1, <1>4, OtherSpares
<1>. QED
  BY <1>2, <1>3, <1>4

LEMMA SpareInit == Init => SpareInv
<1> SUFFICES ASSUME Init PROVE SpareInv
  OBVIOUS
<1>1. LocksInv
  BY LocksInit
<1>2. \A w \in Workers : OwnOpen(w)
  BY DEF Init, OwnOpen, Placing
<1>3. ASSUME NEW u \in Users, NEW m \in Markets, NEW side \in Sides
      PROVE  /\ Booked(Spare(u, m, side)) >= 0
             /\ \A w \in Workers : Seen(Spare(u, m, side)) >= Promise(w, Spare(u, m, side))
  <2>1. PICK f \in [Row -> Int] : f = Spare(u, m, side)
    BY SpareType
  <2>2. f[NoRow] = 0
    <3>1. NoRow \in Row /\ ~Active(NoRow) /\ NoRow.filled = 0
      BY NoRowType DEF NoRow
    <3>. QED
      BY <2>1, <3>1 DEF Spare
  <2>3. PICK a : a = [i \in OrderIds |-> f[orders[i]]]
    OBVIOUS
  <2>4. IsFiniteSet(OrderIds) /\ \A i \in OrderIds : a[i] = 0
    BY <2>2, <2>3, MaxOrdersAssumption, FS_Interval DEF Init, NoBatch, OrderIds
  <2>5. SumFunctionOnSet(a, OrderIds) = 0
    BY <2>4, SumZero
  <2>6. draft = orders /\ \A w \in Workers : Promise(w, f) = 0
    BY DEF Init, Promise
  <2>. QED
    BY <2>1, <2>3, <2>5, <2>6 DEF Booked, Seen
<1>. QED
  BY <1>1, <1>2, <1>3 DEF SpareInv

LEMMA SpareNext == OneWorker /\ SpareInv /\ [Next]_vars => SpareInv'
<1> SUFFICES ASSUME OneWorker, SpareInv, [Next]_vars PROVE SpareInv'
  OBVIOUS
<1>1. LocksInv /\ LocksInv' /\ EngineInv /\ EngineInv'
  BY LocksNext DEF SpareInv, LocksInv, RowsInv
<1>2. ASSUME NEW w \in Workers, (Start(w) \/ Step(w)) /\ ~Rollback(w) /\ ~Commit(w)
      PROVE  SpareInv'
  <2>1. OwnOpen(w)'
    BY <1>1, <1>2, OpenStep DEF SpareInv
  <2>2. orders' = orders
    BY <1>1, <1>2, RowMoves DEF OwnRows
  <2>3. \A v \in Workers : v = w
    BY DEF OneWorker
  <2>4. ASSUME NEW u \in Users, NEW m \in Markets, NEW side \in Sides
        PROVE  /\ Booked(Spare(u, m, side))' >= 0
               /\ Seen(Spare(u, m, side))' >= Promise(w, Spare(u, m, side))'
    <3>1. Booked(Spare(u, m, side))' = Booked(Spare(u, m, side))
      BY <2>2 DEF Booked
    <3>2. Booked(Spare(u, m, side)) >= 0 /\ OwnOpen(w)
      BY DEF SpareInv
    <3>3. Seen(Spare(u, m, side)) >= Promise(w, Spare(u, m, side))
      BY DEF SpareInv
    <3>4. Seen(Spare(u, m, side))' >= Promise(w, Spare(u, m, side))'
      BY <1>1, <1>2, <3>2, <3>3, SpareStep
    <3>. QED
      BY <3>1, <3>2, <3>4
  <2>. QED
    BY <1>1, <2>1, <2>3, <2>4 DEF SpareInv
<1>3. ASSUME NEW w \in Workers, Rollback(w) \/ Commit(w) PROVE SpareInv'
  <2>1. pc'[w] = "idle"
    BY <1>1, <1>3, Typed DEF Rollback, Commit, EndRequest, Goto
  <2>2. \A v \in Workers : v = w
    BY DEF OneWorker
  <2>3. \A v \in Workers : OwnOpen(v)'
    BY <2>1, <2>2 DEF OwnOpen, Placing
  <2>4. ASSUME NEW u \in Users, NEW m \in Markets, NEW side \in Sides
        PROVE  /\ Booked(Spare(u, m, side))' >= 0
               /\ \A v \in Workers :
                     Seen(Spare(u, m, side))' >= Promise(v, Spare(u, m, side))'
    <3>1. PICK f \in [Row -> Int] : f = Spare(u, m, side)
      BY SpareType
    <3>2. Seen(f)' = Booked(f)'
      <4>1. \A i \in OrderIds : draft'[i] = orders'[i]
        BY <1>1, <1>3, OneVersion
      <4>2. [i \in OrderIds |-> f[draft[i]]]' = [i \in OrderIds |-> f[orders[i]]]'
        BY <4>1
      <4>. QED
        BY <4>2 DEF Seen, Booked
    <3>3. \A v \in Workers : Promise(v, f)' = 0
      BY <2>1, <2>2 DEF Promise
    <3>4. Booked(f)' >= 0
      <4>1. CASE Rollback(w)
        <5>1. orders' = orders
          BY <4>1 DEF Rollback
        <5>. QED
          BY <3>1, <5>1 DEF SpareInv, Booked
      <4>2. CASE Commit(w)
        <5>1. \A i \in OrderIds : orders'[i] = draft[i]
          BY <1>1, <4>2, ViewCommitted
        <5>2. [i \in OrderIds |-> f[orders[i]]]' = [i \in OrderIds |-> f[draft[i]]]
          BY <5>1
        <5>3. Booked(f)' = Seen(f)
          BY <5>2 DEF Seen, Booked
        <5>4. Promise(w, f) = 0
          BY <4>2 DEF Promise, Commit
        <5>5. Seen(f) >= Promise(w, f)
          BY <3>1 DEF SpareInv
        <5>. QED
          BY <5>3, <5>4, <5>5
      <4>. QED
        BY <1>3, <4>1, <4>2
    <3>. QED
      BY <3>1, <3>2, <3>3, <3>4
  <2>. QED
    BY <1>1, <2>3, <2>4 DEF SpareInv
<1>4. ASSUME UNCHANGED <<orders, draft, owner, wallets, purse, holder, keeper, pc, req, tx>>
      PROVE  SpareInv'
  BY <1>1, <1>4 DEF SpareInv, OwnOpen, Booked, Seen, Promise
<1>. QED
  BY <1>2, <1>3, <1>4, EngineSteps

\* While requests do not overlap nobody promises or sells contracts they do not hold:
\* validate_sell_position! counts every promise made before it, and a fill takes no
\* more than was promised.
THEOREM NothingIsOversold ==
    ASSUME OneWorker
    PROVE  Spec => []NoOversell
<1>1. SpareInv => NoOversell
  <2> SUFFICES ASSUME SpareInv, NEW u \in Users, NEW m \in Markets, NEW side \in Sides
               PROVE  Position(u, m, side) >= Committed(orders, u, m, side, 0)
    BY DEF NoOversell
  <2>1. orders \in [OrderIds -> Row] /\ \A i \in OrderIds : RowOK(orders[i])
    BY Typed DEF SpareInv, LocksInv, RowsInv, EngineInv, DraftsExtend
  <2>2. 0 \notin OrderIds
    BY DEF OrderIds
  <2>3. NetPosition(orders, u, m, side) - Committed(orders, u, m, side, 0)
          = Booked(Spare(u, m, side))
    BY <2>1, <2>2, SpareSum DEF Booked
  <2>4. Booked(Spare(u, m, side)) >= 0
    BY DEF SpareInv
  <2>5. NetPosition(orders, u, m, side) \in Int /\ Committed(orders, u, m, side, 0) \in Int
    <3>1. NetPosition(orders, u, m, side) \in Int
      BY <2>1, PositionInt
    <3>2. Committed(orders, u, m, side, 0) \in Int
      BY <2>1, PositionInt
    <3>. QED
      BY <3>1, <3>2
  <2>. QED
    BY <2>3, <2>4, <2>5 DEF Position
<1>2. SpareInv /\ [Next]_vars => SpareInv'
  BY SpareNext
<1>. QED
  BY <1>1, <1>2, SpareInit, PTL DEF Spec

----------------------------------------------------------------------------
(***************************************************************************)
(* A settlement pays every position once.                                  *)
(***************************************************************************)

\* What u holds in the worker's view.
Net(u, m, side) == NetPosition(draft, u, m, side)

\* The users whose position the settlement that w runs has still to pay.
Unpaid(w) ==
    IF pc[w] \in {"snapshot", "sweep", "release"} THEN Users
    ELSE IF pc[w] \in {"pay", "credit"} THEN tx[w].payees ELSE {}

PaidSoFar(w) ==
    LET m == req[w].market
        side == req[w].outcome
    IN  req[w].op = "settle" =>
            /\ \A u \in Users :
                  purse[u].won[m] = IF u \in Unpaid(w) THEN 0 ELSE PayoutCents * Net(u, m, side)
            /\ \A u \in Users :
                  pc[w] = "credit" /\ IsNextPayee(w, u)
                      => tx[w].due = PayoutCents * Net(u, m, side)

\* w is ending market m.
Ends(w, m) == req[w].op \in {"settle", "annul"} /\ req[w].market = m

\* The orders of m are worked on without changing what anyone holds.
Frozen(m) ==
    \A u \in Users, side \in Sides, i \in OrderIds :
        Owned(u, m, side)[draft[i]] = Owned(u, m, side)[orders[i]]

PaidUp(m) ==
    /\ Settleable(m) => \A u \in Users : wallets[u].won[m] = 0
    /\ ~Settleable(m) => Frozen(m)
    /\ market[m] = "settled" =>
          \E side \in Sides : \A u \in Users :
              wallets[u].won[m] = PayoutCents * Position(u, m, side)

PaidInv ==
    /\ BooksInv
    /\ SpareInv
    /\ \A m \in Markets : PaidUp(m)
    /\ \A w \in Workers :
          /\ PaidSoFar(w)
          /\ \A m \in Markets, u \in Users : Ends(w, m) \/ purse[u].won[m] = wallets[u].won[m]

LEMMA OwnedAlike ==
    ASSUME NEW old \in Row, NEW new \in Row, new.ticket = old.ticket,
           new.filled = old.filled, NEW u, NEW m, NEW side
    PROVE  Owned(u, m, side)[new] = Owned(u, m, side)[old]
BY DEF Owned, Contracts

LEMMA OwnedNothing ==
    ASSUME NEW row \in Row, NEW u, NEW m, NEW side, row.filled = 0 \/ row.ticket.market # m
    PROVE  Owned(u, m, side)[row] = 0
BY DEF Owned, Contracts

\* A placement fills orders of its own market, which lasts, and everything else keeps
\* the fills it finds.
LEMMA OwnedKept ==
    ASSUME RowsInv, EngineInv', NEW w \in Workers, Start(w) \/ Step(w), ~Rollback(w),
           ~Commit(w), MarketLasts(w), NEW m \in Markets, ~Settleable(m),
           NEW u, NEW side, NEW i \in OrderIds
    PROVE  Owned(u, m, side)[draft'[i]] = Owned(u, m, side)[draft[i]]
<1>1. EngineInv
  BY DEF RowsInv
<1>2. draft \in [OrderIds -> Row] /\ draft'[i] \in Row
  BY <1>1, Typed DEF EngineInv, TypeOK
<1>3. CASE Insert(w)
  <2>1. req[w].op = "place" /\ req[w].ticket \in Tickets
    BY <1>1, <1>3, Served DEF Insert
  <2>2. PICK t \in Tickets : t = req[w].ticket /\ Settleable(t.market)
    BY <2>1 DEF MarketLasts
  <2>3. PICK k \in OrderIds : IsNextId(k) /\ draft' = [draft EXCEPT ![k] = NewRow(t)]
    BY <1>3, <2>2 DEF Insert
  <2>4. draft[k].filled = 0
    <3>1. draft[k] = NoRow
      BY <1>1, <2>3 DEF IsNextId, EngineInv, DraftsExtend, RowOK
    <3>. QED
      BY <3>1 DEF NoRow
  <2>5. NewRow(t) \in Row /\ NewRow(t).ticket = t /\ NewRow(t).filled = 0
    BY NewRowType
  <2>6. i = k => draft'[i].filled = 0 /\ draft[i].filled = 0
    BY <1>2, <2>3, <2>4, <2>5
  <2>7. i # k => draft'[i] = draft[i]
    BY <1>2, <2>3
  <2>. QED
    BY <1>2, <2>6, <2>7, OwnedNothing
<1>4. ASSUME NEW r \in OrderIds, FillOrder(w, r)
      PROVE  Owned(u, m, side)[draft'[i]] = Owned(u, m, side)[draft[i]]
  <2>1. PICK k \in OrderIds, q \in Nat, t \in Tickets, own \in Row, resting \in Row :
           /\ k = tx[w].order /\ k # r /\ t = req[w].ticket
           /\ own = draft[k] /\ resting = draft[r] /\ resting = tx[w].batch[r]
           /\ own.ticket = t /\ Exists(own) /\ Exists(resting)
           /\ q = Smaller(Unfilled(own), Unfilled(resting))
           /\ q <= Unfilled(own) /\ q <= Unfilled(resting)
           /\ Unfilled(own) \in Nat \ {0} /\ Unfilled(resting) \in Nat \ {0}
           /\ draft' = [draft EXCEPT ![k] = FillRow(own, q), ![r] = FillRow(resting, q)]
           /\ Compatible(t, resting.ticket)
           /\ owner[k] = w /\ owner[r] = w
    BY <1>1, <1>4, FilledRows
  <2>2. req[w].op = "place" /\ Settleable(t.market)
    BY <1>1, <1>4, <2>1, Served DEF FillOrder, MarketLasts
  <2>3. resting.ticket.market = t.market
    <3>1. Exists(tx[w].batch[r]) /\ Counterparts(w)
      BY <2>1 DEF RowsInv
    <3>2. Counterpart(req[w].ticket, tx[w].batch[r].ticket)
      BY <2>2, <3>1 DEF Counterparts
    <3>. QED
      BY <2>1, <3>2 DEF Counterpart
  <2>4. /\ FillRow(own, q) \in Row /\ FillRow(own, q).ticket = t
        /\ FillRow(resting, q) \in Row /\ FillRow(resting, q).ticket = resting.ticket
    BY <2>1, FillRowType
  <2>5. t.market # m
    BY <2>2
  <2>6. \/ draft'[i] = draft[i]
        \/ i \in {k, r} /\ draft'[i].ticket.market = t.market
    BY <1>2, <2>1, <2>3, <2>4, Zenon
  <2>7. i \in {k, r} => draft[i].ticket.market = t.market
    BY <2>1, <2>3
  <2>. QED
    BY <1>2, <2>5, <2>6, <2>7, OwnedNothing
<1>5. CASE ~Insert(w) /\ \A r \in OrderIds : ~FillOrder(w, r)
  BY <1>1, <1>2, <1>5, RowsCalm, OwnedAlike
<1>. QED
  BY <1>3, <1>4, <1>5

\* Positions are sums of what the rows add.
LEMMA SameNet ==
    ASSUME NEW a \in [OrderIds -> Row], NEW b \in [OrderIds -> Row],
           \A i \in OrderIds : RowOK(a[i]) /\ RowOK(b[i]), NEW u, NEW m, NEW side,
           \A i \in OrderIds : Owned(u, m, side)[a[i]] = Owned(u, m, side)[b[i]]
    PROVE  NetPosition(a, u, m, side) = NetPosition(b, u, m, side)
<1>1. [i \in OrderIds |-> Owned(u, m, side)[a[i]]] = [i \in OrderIds |-> Owned(u, m, side)[b[i]]]
  OBVIOUS
<1>2. \A i \in OrderIds : RowOK(a[i])
  OBVIOUS
<1>3. \A i \in OrderIds : RowOK(b[i])
  OBVIOUS
<1>4. NetPosition(a, u, m, side)
        = SumFunctionOnSet([i \in OrderIds |-> Owned(u, m, side)[a[i]]], OrderIds)
  BY <1>2, OwnedSum
<1>5. NetPosition(b, u, m, side)
        = SumFunctionOnSet([i \in OrderIds |-> Owned(u, m, side)[b[i]]], OrderIds)
  BY <1>3, OwnedSum
<1>. QED
  BY <1>1, <1>4, <1>5

LEMMA NetType ==
    ASSUME EngineInv, NEW u, NEW m, NEW side
    PROVE  Net(u, m, side) \in Int
<1>1. draft \in [OrderIds -> Row] /\ \A i \in OrderIds : RowOK(draft[i])
  BY Typed DEF EngineInv, DraftsExtend
<1>. QED
  BY <1>1, PositionInt DEF Net

\* A user without a fill on a side holds nothing of it.
LEMMA NoFillsNoNet ==
    ASSUME EngineInv, NEW u, NEW m, NEW side,
           \A i \in OrderIds :
              \/ ~Exists(draft[i]) \/ draft[i].filled = 0 \/ draft[i].ticket.user # u
              \/ draft[i].ticket.market # m \/ draft[i].ticket.side # side
    PROVE  Net(u, m, side) = 0
<1>1. draft \in [OrderIds -> Row] /\ \A i \in OrderIds : RowOK(draft[i])
  BY Typed DEF EngineInv, DraftsExtend
<1>2. PICK a : a = [i \in OrderIds |-> Owned(u, m, side)[draft[i]]]
  OBVIOUS
<1>3. \A i \in OrderIds : a[i] = 0
  <2> SUFFICES ASSUME NEW i \in OrderIds PROVE a[i] = 0
    OBVIOUS
  <2>1. PICK row \in Row : row = draft[i]
    BY <1>1
  <2>2. ~Exists(row) => row.filled = 0
    <3>1. ~Exists(row) => row = NoRow
      BY <1>1, <2>1 DEF RowOK
    <3>. QED
      BY <3>1 DEF NoRow
  <2>3. a[i] = Owned(u, m, side)[row]
    BY <1>2, <2>1
  <2>. QED
    BY <2>1, <2>2, <2>3 DEF Owned, Contracts
<1>4. IsFiniteSet(OrderIds)
  BY MaxOrdersAssumption, FS_Interval DEF OrderIds
<1>5. SumFunctionOnSet(a, OrderIds) = 0
  BY <1>3, <1>4, SumZero
<1>6. NetPosition(draft, u, m, side)
        = SumFunctionOnSet([i \in OrderIds |-> Owned(u, m, side)[draft[i]]], OrderIds)
  BY <1>1, OwnedSum
<1>. QED
  BY <1>2, <1>5, <1>6 DEF Net

\* Nobody is short.
LEMMA NeverShort ==
    ASSUME SpareInv, NEW w \in Workers, pc[w] # "position",
           NEW u \in Users, NEW m \in Markets, NEW side \in Sides
    PROVE  Net(u, m, side) \in Nat
<1>1. EngineInv
  BY DEF SpareInv, LocksInv, RowsInv
<1>2. draft \in [OrderIds -> Row] /\ \A i \in OrderIds : RowOK(draft[i])
  BY <1>1, Typed DEF EngineInv, DraftsExtend
<1>3. PICK f \in [Row -> Int] : f = Spare(u, m, side)
  BY SpareType
<1>4. Seen(f) >= 0 /\ Seen(f) \in Int
  BY <1>1, <1>3, SeenInt DEF SpareInv, Promise
<1>5. PICK a : a = [i \in OrderIds |-> f[draft[i]]]
  OBVIOUS
<1>6. PICK b : b = [i \in OrderIds |-> Owned(u, m, side)[draft[i]]]
  OBVIOUS
<1>7. PICK d : d = [i \in OrderIds |-> b[i] - a[i]]
  OBVIOUS
<1>8. \A i \in OrderIds : /\ a[i] \in Int /\ b[i] \in Int /\ d[i] \in Nat /\ d[i] \in Int
                          /\ b[i] = a[i] + d[i]
  <2> SUFFICES ASSUME NEW i \in OrderIds
               PROVE  /\ a[i] \in Int /\ b[i] \in Int /\ d[i] \in Nat /\ d[i] \in Int
                      /\ b[i] = a[i] + d[i]
    OBVIOUS
  <2>1. PICK row \in Row : row = draft[i]
    BY <1>2
  <2>2. row.filled \in Int /\ Unfilled(row) \in Int
    BY UnfilledType DEF Row
  <2>3. Active(row) => Unfilled(row) > 0
    BY <1>2, <2>1 DEF RowOK
  <2>4. a[i] = IF row.ticket.user = u /\ row.ticket.market = m /\ row.ticket.side = side
               THEN IF Buys(row.ticket) THEN row.filled
                    ELSE -row.filled - (IF Active(row) THEN Unfilled(row) ELSE 0)
               ELSE 0
    BY <1>3, <1>5, <2>1 DEF Spare
  <2>5. b[i] = IF row.ticket.user = u /\ row.ticket.market = m /\ row.ticket.side = side
               THEN IF Buys(row.ticket) THEN row.filled ELSE -row.filled
               ELSE 0
    BY <1>6, <2>1 DEF Owned, Contracts
  <2>6. d[i] = b[i] - a[i]
    BY <1>7
  <2>. QED
    BY <2>2, <2>3, <2>4, <2>5, <2>6
<1>9. IsFiniteSet(OrderIds)
  BY MaxOrdersAssumption, FS_Interval DEF OrderIds
<1>10. SumFunctionOnSet(b, OrderIds) = SumFunctionOnSet(a, OrderIds) + SumFunctionOnSet(d, OrderIds)
  BY <1>8, <1>9, SumPlus
<1>11. SumFunctionOnSet(d, OrderIds) \in Nat
  BY <1>8, <1>9, SumNat
<1>12. Net(u, m, side) = SumFunctionOnSet(b, OrderIds)
  BY <1>2, <1>6, OwnedSum DEF Net
<1>. QED
  BY <1>3, <1>4, <1>5, <1>10, <1>11, <1>12 DEF Seen

\* A settlement that pays nobody in a step keeps its books.
LEMMA QuietPayout ==
    ASSUME NEW w \in Workers, PaidSoFar(w), req'[w] = req[w], draft' = draft,
           \A u \in Users : purse'[u].won = purse[u].won, Unpaid(w)' = Unpaid(w),
           pc'[w] # "credit"
    PROVE  PaidSoFar(w)'
BY DEF PaidSoFar, Net

LEMMA PayoutStarts ==
    ASSUME OneWorker, LocksInv, NEW w \in Workers, StartPayout(w), PaidSoFar(w)
    PROVE  PaidSoFar(w)'
<1>1. EngineInv
  BY DEF LocksInv, RowsInv
<1>2. PICK m \in Markets, side \in Sides :
         m = req[w].market /\ side = req[w].outcome /\ req[w].op = "settle"
  BY <1>1, Served DEF StartPayout
<1>3. /\ pc[w] = "sweep" /\ pc'[w] = "pay" /\ req' = req /\ draft' = draft /\ purse' = purse
      /\ tx'[w].payees = Winners(w)
  BY <1>1, Typed DEF StartPayout, Goto, orderVars, walletVars, TxType
<1>4. Unpaid(w) = Users /\ Unpaid(w)' = Winners(w)
  BY <1>3 DEF Unpaid
<1>5. ASSUME NEW u \in Users, u \notin Winners(w) PROVE Net(u, m, side) = 0
  <2>1. \A i \in OrderIds : OrdersSeenBy(w)[i] = draft[i]
    BY SoleHolder
  <2>2. ~\E i \in OrderIds :
            LET row == OrdersSeenBy(w)[i]
            IN  /\ Exists(row) /\ row.filled # 0
                /\ row.ticket.user = u
                /\ row.ticket.market = m /\ row.ticket.side = side
    BY <1>2, <1>5 DEF Winners
  <2>3. \A i \in OrderIds :
              \/ ~Exists(draft[i]) \/ draft[i].filled = 0 \/ draft[i].ticket.user # u
              \/ draft[i].ticket.market # m \/ draft[i].ticket.side # side
    BY <2>1, <2>2
  <2>. QED
    BY <1>1, <2>3, NoFillsNoNet
<1>6. \A u \in Users : purse[u].won[m] = 0
  BY <1>2, <1>4 DEF PaidSoFar
<1>7. \A u \in Users :
         purse'[u].won[m] = IF u \in Unpaid(w)' THEN 0 ELSE PayoutCents * Net(u, m, side)
  BY <1>3, <1>4, <1>5, <1>6 DEF PayoutCents
<1>8. \A u \in Users : Net(u, m, side)' = Net(u, m, side)
  BY <1>3 DEF Net
<1>. QED
  BY <1>2, <1>3, <1>7, <1>8 DEF PaidSoFar

LEMMA AssessKeeps ==
    ASSUME OneWorker, SpareInv, NEW w \in Workers, NEW v \in Users, Assess(w, v),
           PaidSoFar(w)
    PROVE  PaidSoFar(w)'
<1>1. LocksInv /\ EngineInv
  BY DEF SpareInv, LocksInv, RowsInv
<1>2. PICK m \in Markets, side \in Sides :
         m = req[w].market /\ side = req[w].outcome /\ req[w].op = "settle"
  BY <1>1, Served DEF Assess
<1>3. /\ pc[w] = "pay" /\ req' = req /\ draft' = draft /\ purse' = purse
      /\ IsNextPayee(w, v)
  BY DEF Assess, orderVars, walletVars
<1>4. PICK net \in Nat : net = Net(v, m, side)
  BY <1>2, <1>3, NeverShort
<1>5. NetPosition(OrdersSeenBy(w), v, m, side) = net
  <2>1. OrdersSeenBy(w) = draft
    BY <1>1, Typed, SoleHolder DEF OrdersSeenBy
  <2>. QED
    BY <1>4, <2>1 DEF Net
<1>6. tx \in [Workers -> TxType] /\ pc \in [Workers -> Statement]
  BY <1>1, Typed
<1>7. \A u \in Users : Net(u, m, side)' = Net(u, m, side)
  BY <1>3 DEF Net
<1>8. Unpaid(w) = tx[w].payees
  BY <1>3 DEF Unpaid
<1>9. \A u \in Users :
         purse[u].won[m] = IF u \in tx[w].payees THEN 0 ELSE PayoutCents * Net(u, m, side)
  BY <1>2, <1>8 DEF PaidSoFar
<1>10. CASE net # 0
  <2>1. tx' = [tx EXCEPT ![w].due = PayoutCents * net] /\ pc'[w] = "credit"
    BY <1>2, <1>5, <1>6, <1>10 DEF Assess, Goto
  <2>2. tx'[w].payees = tx[w].payees /\ tx'[w].due = PayoutCents * net
    BY <1>6, <2>1 DEF TxType
  <2>3. Unpaid(w)' = tx[w].payees
    BY <2>1, <2>2 DEF Unpaid
  <2>4. ASSUME NEW u \in Users, IsNextPayee(w, u)' PROVE u = v
    <3>1. /\ u \in tx[w].payees /\ \A x \in tx[w].payees : u <= x
          /\ v \in tx[w].payees /\ \A x \in tx[w].payees : v <= x
      BY <1>3, <2>2, <2>4 DEF IsNextPayee
    <3>2. u \in Nat /\ v \in Nat /\ u <= v /\ v <= u
      BY <3>1, UsersAssumption
    <3>. QED
      BY <3>2
  <2>. QED
    BY <1>2, <1>3, <1>4, <1>7, <1>9, <2>2, <2>3, <2>4 DEF PaidSoFar
<1>11. CASE net = 0
  <2>1. tx' = [tx EXCEPT ![w].payees = @ \ {v}] /\ pc'[w] = "pay"
    <3>1. NetPosition(OrdersSeenBy(w), v, req[w].market, req[w].outcome) \notin Nat \ {0}
      BY <1>2, <1>5, <1>11
    <3>2. tx' = [tx EXCEPT ![w].payees = @ \ {v}] /\ pc' = pc
      BY <3>1 DEF Assess
    <3>. QED
      BY <1>3, <3>2
  <2>2. tx'[w].payees = tx[w].payees \ {v}
    BY <1>6, <2>1 DEF TxType
  <2>3. Unpaid(w)' = tx[w].payees \ {v}
    BY <2>1, <2>2 DEF Unpaid
  <2>4. v \in tx[w].payees /\ purse[v].won[m] = 0
    BY <1>3, <1>9 DEF IsNextPayee
  <2>5. \A u \in Users : purse'[u].won[m] = IF u \in Unpaid(w)' THEN 0
                                            ELSE PayoutCents * Net(u, m, side)'
    <3>1. PayoutCents * Net(v, m, side)' = 0
      <4>1. Net(v, m, side)' = net
        BY <1>4, <1>7
      <4>. QED
        BY <1>11, <4>1 DEF PayoutCents
    <3>2. ASSUME NEW u \in Users \ {v}
          PROVE  purse'[u].won[m] = IF u \in Unpaid(w)' THEN 0
                                    ELSE PayoutCents * Net(u, m, side)'
      BY <1>3, <1>7, <1>9, <2>3
    <3>. QED
      BY <1>3, <2>3, <2>4, <3>1, <3>2
  <2>. QED
    BY <1>2, <1>3, <2>1, <2>5 DEF PaidSoFar
<1>. QED
  BY <1>10, <1>11

LEMMA WinnerPaid ==
    ASSUME EngineInv, NEW w \in Workers, NEW v \in Users, PayWinner(w, v), PaidSoFar(w)
    PROVE  /\ PaidSoFar(w)' /\ req' = req
           /\ \A u \in Users, n \in Markets : n # req[w].market
                 => purse'[u].won[n] = purse[u].won[n]
<1>1. PICK m \in Markets, side \in Sides :
         m = req[w].market /\ side = req[w].outcome /\ req[w].op = "settle"
  BY Served DEF PayWinner
<1>2. /\ pc[w] = "credit" /\ req' = req /\ draft' = draft /\ IsNextPayee(w, v)
      /\ pc'[w] = "pay"
  BY Typed DEF PayWinner, Goto, orderVars
<1>3. PICK due \in Int : due = tx[w].due
  BY Typed DEF TxType
<1>4. PICK p \in Wallet : p = purse[v]
  BY Typed
<1>5. PICK q : q = [p EXCEPT !.available = @ + due, !.won[m] = @ + due]
  OBVIOUS
<1>6. purse' = [purse EXCEPT ![v] = q]
  BY <1>1, <1>3, <1>4, <1>5 DEF PayWinner
<1>7. q.won = [p.won EXCEPT ![m] = @ + due]
  BY <1>5 DEF Wallet
<1>8. q.won[m] = p.won[m] + due /\ \A n \in Markets \ {m} : q.won[n] = p.won[n]
  BY <1>7 DEF Wallet
<1>9. purse'[v] = q /\ \A u \in Users \ {v} : purse'[u] = purse[u]
  BY <1>6, Typed
<1>10. tx'[w].payees = tx[w].payees \ {v}
  BY Typed DEF PayWinner, TxType
<1>11. Unpaid(w) = tx[w].payees /\ Unpaid(w)' = tx[w].payees \ {v}
  BY <1>2, <1>10 DEF Unpaid
<1>12. v \in tx[w].payees
  BY <1>2 DEF IsNextPayee
<1>13. due = PayoutCents * Net(v, m, side)
  BY <1>1, <1>2, <1>3 DEF PaidSoFar
<1>14. p.won[m] = 0
  BY <1>1, <1>4, <1>11, <1>12 DEF PaidSoFar
<1>15. \A u \in Users : Net(u, m, side)' = Net(u, m, side)
  BY <1>2 DEF Net
<1>16. \A u \in Users \ {v} :
          purse[u].won[m] = IF u \in tx[w].payees THEN 0 ELSE PayoutCents * Net(u, m, side)
  BY <1>1, <1>11 DEF PaidSoFar
<1>17. purse'[v].won[m] = PayoutCents * Net(v, m, side)
  BY <1>3, <1>8, <1>9, <1>13, <1>14
<1>18. \A u \in Users : purse'[u].won[m] = IF u \in Unpaid(w)' THEN 0
                                           ELSE PayoutCents * Net(u, m, side)'
  BY <1>9, <1>11, <1>15, <1>16, <1>17
<1>19. PaidSoFar(w)'
  BY <1>1, <1>2, <1>18 DEF PaidSoFar
<1>20. \A u \in Users, n \in Markets : n # m => purse'[u].won[n] = purse[u].won[n]
  BY <1>4, <1>8, <1>9
<1>. QED
  BY <1>1, <1>2, <1>19, <1>20

\* A market's cancellation pays on that market only.
LEMMA RefundOwn ==
    ASSUME EngineInv, NEW w \in Workers, NEW v \in Users, Refund(w, v), ~Rollback(w)
    PROVE  /\ req[w].op = "annul"
           /\ \A u \in Users, n \in Markets : n # req[w].market
                 => purse'[u].won[n] = purse[u].won[n]
<1>1. PICK m \in Markets : m = req[w].market /\ req[w].op = "annul"
  BY Served DEF Refund
<1>2. PICK amount : amount = IF Outlay(purse[v], m) > 0 THEN Outlay(purse[v], m)
                             ELSE -Smaller(-Outlay(purse[v], m), purse[v].available)
  OBVIOUS
<1>3. PICK p \in Wallet : p = purse[v]
  BY Typed
<1>4. PICK q : q = [p EXCEPT !.available = @ + amount, !.won[m] = @ + amount]
  OBVIOUS
<1>5. purse' = [purse EXCEPT ![v] = q]
  BY <1>1, <1>2, <1>3, <1>4 DEF Refund
<1>6. \A n \in Markets \ {m} : q.won[n] = p.won[n]
  BY <1>4 DEF Wallet
<1>7. purse'[v] = q /\ \A u \in Users \ {v} : purse'[u] = purse[u]
  BY <1>5, Typed
<1>. QED
  BY <1>1, <1>3, <1>6, <1>7

\* Nothing is paid on a market but by the request that ends it.
LEMMA WonMoves ==
    ASSUME EngineInv, NEW w \in Workers, Start(w) \/ Step(w), ~Rollback(w), ~Commit(w),
           PaidSoFar(w), NEW m \in Markets, NEW u \in Users
    PROVE  Ends(w, m) \/ purse'[u].won[m] = purse[u].won[m]
<1>1. CASE \A v \in Users : purse'[v].won = purse[v].won
  BY <1>1
<1>2. ASSUME NEW v \in Users, PayWinner(w, v)
      PROVE  Ends(w, m) \/ purse'[u].won[m] = purse[u].won[m]
  BY <1>2, WinnerPaid, Served DEF Ends, PayWinner
<1>3. ASSUME NEW v \in Users, Refund(w, v)
      PROVE  Ends(w, m) \/ purse'[u].won[m] = purse[u].won[m]
  BY <1>3, RefundOwn DEF Ends
<1>. QED
  BY <1>1, <1>2, <1>3, PayoutsPay

LEMMA SettlementPays ==
    ASSUME OneWorker, SpareInv, NEW w \in Workers, Step(w), ~Rollback(w), ~Commit(w),
           PaidSoFar(w)
    PROVE  PaidSoFar(w)'
<1>1. LocksInv /\ EngineInv
  BY DEF SpareInv, LocksInv, RowsInv
<1>2. req'[w] = req[w] /\ pc \in [Workers -> Statement]
  BY <1>1, StepRequest, Typed
<1>3. CASE req[w].op # "settle"
  BY <1>2, <1>3 DEF PaidSoFar
<1>4. ASSUME req[w].op = "settle" PROVE SettleStep(w)
  <2>1. ~PlaceStep(w)
    BY <1>1, <1>4, StepRequest
  <2>2. ~CancelStep(w)
    BY <1>1, <1>4, Served DEF CancelStep, CancelOrder, Unreserve
  <2>3. ~AnnulStep(w)
    BY <1>1, <1>4, Served DEF AnnulStep, LockForAnnul, LockForVoid, VoidOrder, StartRefund,
                              Refund, FinishAnnul
  <2>. QED
    BY <2>1, <2>2, <2>3 DEF Step
<1>5. ASSUME pc[w] \in {"snapshot", "sweep", "release"}, pc'[w] \in {"snapshot", "sweep", "release"}
      PROVE  PaidSoFar(w)'
  <2>1. \A u \in Users : ~PayWinner(w, u) /\ ~Refund(w, u)
    BY <1>5 DEF PayWinner, Refund
  <2>2. \A u \in Users : purse'[u].won = purse[u].won
    BY <1>1, <2>1, PayoutsPay
  <2>3. Unpaid(w) = Users /\ Unpaid(w)' = Users
    BY <1>5 DEF Unpaid
  <2>. QED
    BY <1>2, <1>5, <2>2, <2>3 DEF PaidSoFar
<1>6. CASE Snapshot(w) \/ ReleaseSwept(w) \/ \E i \in OrderIds : SweepOrder(w, i)
  <2>1. /\ pc[w] \in {"snapshot", "sweep", "release"}
        /\ pc'[w] \in {"snapshot", "sweep", "release"}
    BY <1>2, <1>6, Zenon DEF Snapshot, ReleaseSwept, ReleaseFunds, SweepOrder, Goto
  <2>. QED
    BY <1>5, <2>1
<1>7. CASE StartPayout(w)
  BY <1>1, <1>7, PayoutStarts
<1>8. ASSUME NEW u \in Users, Assess(w, u) \/ PayWinner(w, u) PROVE PaidSoFar(w)'
  BY <1>1, <1>8, AssessKeeps, WinnerPaid
<1>9. CASE FinishSettle(w)
  <2>1. /\ pc[w] = "pay" /\ tx[w].payees = {} /\ pc'[w] = "commit" /\ draft' = draft
        /\ purse' = purse
    BY <1>2, <1>9 DEF FinishSettle, Goto, orderVars, walletVars
  <2>2. Unpaid(w)' = Unpaid(w)
    BY <2>1 DEF Unpaid
  <2>. QED
    BY <1>2, <2>1, <2>2, QuietPayout
<1>. QED
  BY <1>3, <1>4, <1>6, <1>7, <1>8, <1>9 DEF SettleStep

LEMMA PaidInit == Init => PaidInv
<1> SUFFICES ASSUME Init PROVE PaidInv
  OBVIOUS
<1>1. BooksInv /\ SpareInv
  BY BooksInit, SpareInit
<1>2. ASSUME NEW u \in Users, NEW m \in Markets
      PROVE  wallets[u].won[m] = 0 /\ purse[u].won[m] = wallets[u].won[m]
  BY <1>2 DEF Init, NewWallet
<1>3. \A m \in Markets : PaidUp(m)
  <2>1. \A m \in Markets : Settleable(m) /\ market[m] # "settled"
    BY DEF Init, Settleable
  <2>. QED
    BY <1>2, <2>1 DEF PaidUp
<1>4. \A w \in Workers : PaidSoFar(w)
  BY DEF Init, NoRequest, PaidSoFar
<1>. QED
  BY <1>1, <1>2, <1>3, <1>4 DEF PaidInv

\* What is paid up stays so under a statement of a request.
LEMMA PaidUpStep ==
    ASSUME PaidInv, EngineInv', NEW w \in Workers, Start(w) \/ Step(w), ~Rollback(w),
           ~Commit(w), NEW m \in Markets
    PROVE  PaidUp(m)'
<1>1. RowsInv /\ EngineInv /\ MarketLasts(w) /\ PaidUp(m)
  BY DEF PaidInv, BooksInv, LocksInv, RowsInv
<1>2. market' = market /\ orders' = orders
  BY <1>1, MarketKept, RowMoves DEF OwnRows
<1>3. wallets' = wallets
  BY PurseWriters
<1>4. ASSUME ~Settleable(m) PROVE Frozen(m)'
  <2>1. \A u \in Users, side \in Sides, i \in OrderIds :
           Owned(u, m, side)[draft'[i]] = Owned(u, m, side)[draft[i]]
    BY <1>1, <1>4, OwnedKept
  <2>. QED
    BY <1>1, <1>2, <1>4, <2>1 DEF PaidUp, Frozen
<1>5. Settleable(m)' <=> Settleable(m)
  BY <1>2 DEF Settleable
<1>6. \A u \in Users, side \in Sides : Position(u, m, side)' = Position(u, m, side)
  BY <1>2 DEF Position
<1>. QED
  BY <1>1, <1>2, <1>3, <1>4, <1>5, <1>6 DEF PaidUp

\* A settlement starts with nothing paid.
LEMMA PayoutBegins ==
    ASSUME PaidInv, NEW w \in Workers, Start(w)
    PROVE  /\ PaidSoFar(w)'
           /\ \A m \in Markets, u \in Users : purse'[u].won[m] = wallets'[u].won[m]
<1>1. EngineInv
  BY DEF PaidInv, BooksInv, LocksInv, RowsInv
<1>2. purse' = purse /\ wallets' = wallets
  BY DEF Start, StartPlace, StartCancel, StartSettle, StartAnnul, walletVars
<1>3. \A m \in Markets, u \in Users : purse[u].won[m] = wallets[u].won[m]
  <2>1. req[w] = NoRequest
    BY <1>1, StartRequest
  <2>2. \A m \in Markets : ~Ends(w, m)
    BY <2>1 DEF NoRequest, Ends
  <2>. QED
    BY <2>2 DEF PaidInv
<1>4. ASSUME req'[w].op = "settle" PROVE PaidSoFar(w)'
  <2>1. req \in [Workers -> Request] /\ pc \in [Workers -> Statement]
    BY <1>1, Typed
  <2>2. ~(\E t \in Tickets : StartPlace(w, t)) /\ ~(\E i \in OrderIds : StartCancel(w, i))
          /\ ~(\E m \in Markets : StartAnnul(w, m))
    BY <1>4, <2>1 DEF StartPlace, StartCancel, StartAnnul
  <2>3. PICK m \in Markets, side \in Sides : StartSettle(w, m, side)
    BY <2>2 DEF Start
  <2>4. req'[w].market = m /\ Settleable(m) /\ pc'[w] = "snapshot"
    BY <2>1, <2>3 DEF StartSettle, Goto
  <2>5. \A u \in Users : purse'[u].won[m] = 0
    BY <1>2, <1>3, <2>4 DEF PaidInv, PaidUp
  <2>6. Unpaid(w)' = Users
    BY <2>4 DEF Unpaid
  <2>. QED
    BY <2>4, <2>5, <2>6 DEF PaidSoFar
<1>. QED
  BY <1>2, <1>3, <1>4 DEF PaidSoFar

LEMMA RollbackUnpays ==
    ASSUME OneWorker, PaidInv, NEW w \in Workers, Rollback(w), NEW m \in Markets
    PROVE  PaidUp(m)'
<1>1. LocksInv /\ PaidUp(m)
  BY DEF PaidInv, BooksInv
<1>2. market' = market /\ orders' = orders /\ wallets' = wallets
  BY DEF Rollback
<1>3. \A i \in OrderIds : draft'[i] = orders[i]
  BY <1>1, ViewDropped
<1>4. Frozen(m)'
  BY <1>2, <1>3 DEF Frozen
<1>. QED
  BY <1>1, <1>2, <1>4 DEF PaidUp, Settleable, Position

LEMMA CommitPaysUp ==
    ASSUME OneWorker, PaidInv, NEW w \in Workers, Commit(w), NEW m \in Markets
    PROVE  PaidUp(m)'
<1>1. LocksInv /\ EngineInv /\ PaidUp(m) /\ MarketLasts(w) /\ PaidSoFar(w)
  BY DEF PaidInv, BooksInv, LocksInv, RowsInv
<1>2. /\ \A i \in OrderIds : orders'[i] = draft[i] /\ draft'[i] = draft[i]
      /\ \A u \in Users : wallets'[u] = purse[u]
  BY <1>1, ViewCommitted
<1>3. Frozen(m)'
  BY <1>2 DEF Frozen
<1>4. market'[m] = FinalStatus(req[w], m)
  BY DEF Commit
<1>5. \A u \in Users, side \in Sides : Position(u, m, side)' = Net(u, m, side)
  <2>1. /\ draft \in [OrderIds -> Row]
        /\ orders' = [i \in OrderIds |-> IF owner[i] = w THEN draft[i] ELSE orders[i]]
    BY <1>1, Typed DEF Commit
  <2>2. orders' = draft
    BY <1>2, <2>1
  <2>. QED
    BY <2>2 DEF Position, Net
<1>6. CASE req[w].op = "settle" /\ req[w].market = m
  <2>1. req[w].op = "settle" /\ req[w].outcome \in Sides
    BY <1>1, <1>6, Typed, RequestType
  <2>2. Unpaid(w) = {}
    BY DEF Unpaid, Commit
  <2>3. \A u \in Users : purse[u].won[m] = PayoutCents * Net(u, m, req[w].outcome)
    BY <1>1, <1>6, <2>2 DEF PaidSoFar
  <2>4. PICK side \in Sides : side = req[w].outcome
    BY <2>1
  <2>5. \A u \in Users : wallets'[u].won[m] = PayoutCents * Position(u, m, side)'
    BY <1>2, <1>5, <2>3, <2>4
  <2>6. market'[m] = "settled"
    BY <1>4, <1>6 DEF FinalStatus
  <2>. QED
    BY <1>3, <2>5, <2>6 DEF PaidUp, Settleable
<1>7. CASE req[w].op = "annul" /\ req[w].market = m
  <2>1. market'[m] = "cancelled"
    BY <1>4, <1>7 DEF FinalStatus
  <2>. QED
    BY <1>3, <2>1 DEF PaidUp, Settleable
<1>8. CASE ~Ends(w, m)
  <2>1. market'[m] = market[m]
    BY <1>4, <1>8 DEF FinalStatus, Ends
  <2>2. \A u \in Users : wallets'[u].won[m] = wallets[u].won[m]
    BY <1>2, <1>8 DEF PaidInv
  <2>3. ASSUME market[m] = "settled", NEW u \in Users, NEW side \in Sides
        PROVE  Net(u, m, side) = Position(u, m, side)
    <3>1. \A i \in OrderIds :
             Owned(u, m, side)[draft[i]] = Owned(u, m, side)[orders[i]]
      BY <1>1, <2>3 DEF PaidUp, Settleable, Frozen
    <3>2. draft \in [OrderIds -> Row] /\ orders \in [OrderIds -> Row]
      BY <1>1, Typed
    <3>3. \A i \in OrderIds : RowOK(draft[i]) /\ RowOK(orders[i])
      BY <1>1 DEF EngineInv, DraftsExtend
    <3>. QED
      BY <3>1, <3>2, <3>3, SameNet DEF Net, Position
  <2>4. (market'[m] = "settled") => \E side \in Sides : \A u \in Users :
           wallets'[u].won[m] = PayoutCents * Position(u, m, side)'
    <3> SUFFICES ASSUME market'[m] = "settled"
                 PROVE  \E side \in Sides : \A u \in Users :
                           wallets'[u].won[m] = PayoutCents * Position(u, m, side)'
      OBVIOUS
    <3>1. market[m] = "settled"
      BY <2>1
    <3>2. PICK side \in Sides :
             \A u \in Users : wallets[u].won[m] = PayoutCents * Position(u, m, side)
      BY <1>1, <3>1 DEF PaidUp
    <3>3. \A u \in Users : Position(u, m, side)' = Position(u, m, side)
      BY <1>5, <2>3, <3>1
    <3>. QED
      BY <2>2, <3>2, <3>3
  <2>5. Settleable(m)' => \A u \in Users : wallets'[u].won[m] = 0
    BY <1>1, <2>1, <2>2 DEF PaidUp, Settleable
  <2>. QED
    BY <1>3, <2>4, <2>5 DEF PaidUp
<1>. QED
  BY <1>6, <1>7, <1>8 DEF Ends

LEMMA PaidNext == OneWorker /\ PaidInv /\ [Next]_vars => PaidInv'
<1> SUFFICES ASSUME OneWorker, PaidInv, [Next]_vars PROVE PaidInv'
  OBVIOUS
<1>1. BooksInv' /\ SpareInv'
  BY BooksNext, SpareNext DEF PaidInv
<1>2. LocksInv /\ LocksInv' /\ EngineInv /\ EngineInv'
  BY <1>1 DEF PaidInv, BooksInv, LocksInv, RowsInv
<1>3. ASSUME NEW w \in Workers, (Start(w) \/ Step(w)) /\ ~Rollback(w) /\ ~Commit(w)
      PROVE  PaidInv'
  <2>1. \A m \in Markets : PaidUp(m)'
    BY <1>2, <1>3, PaidUpStep
  <2>2. PaidSoFar(w)' /\ \A m \in Markets, u \in Users :
                            Ends(w, m)' \/ purse'[u].won[m] = wallets'[u].won[m]
    <3>1. CASE Start(w)
      BY <3>1, PayoutBegins
    <3>2. CASE Step(w)
      <4>1. PaidSoFar(w)'
        BY <1>3, <3>2, SettlementPays DEF PaidInv
      <4>2. req'[w] = req[w] /\ wallets' = wallets
        BY <1>2, <1>3, <3>2, StepRequest, PurseWriters
      <4>3. ASSUME NEW m \in Markets, NEW u \in Users
            PROVE  Ends(w, m)' \/ purse'[u].won[m] = wallets'[u].won[m]
        <5>1. PaidSoFar(w) /\ (Ends(w, m) \/ purse[u].won[m] = wallets[u].won[m])
          BY DEF PaidInv
        <5>2. Ends(w, m) \/ purse'[u].won[m] = purse[u].won[m]
          BY <1>2, <1>3, <5>1, WonMoves
        <5>3. Ends(w, m)' <=> Ends(w, m)
          BY <4>2 DEF Ends
        <5>. QED
          BY <4>2, <5>1, <5>2, <5>3
      <4>. QED
        BY <4>1, <4>3
    <3>. QED
      BY <1>3, <3>1, <3>2
  <2>3. \A v \in Workers : v = w
    BY DEF OneWorker
  <2>. QED
    BY <1>1, <2>1, <2>2, <2>3 DEF PaidInv
<1>4. ASSUME NEW w \in Workers, Rollback(w) \/ Commit(w) PROVE PaidInv'
  <2>1. \A m \in Markets : PaidUp(m)'
    BY <1>4, RollbackUnpays, CommitPaysUp
  <2>2. req'[w] = NoRequest
    BY <1>2, <1>4, Typed DEF Rollback, Commit, EndRequest
  <2>3. PaidSoFar(w)'
    BY <2>2 DEF NoRequest, PaidSoFar
  <2>4. \A m \in Markets, u \in Users : purse'[u].won[m] = wallets'[u].won[m]
    BY <1>2, <1>4, OneVersion
  <2>5. \A v \in Workers : v = w
    BY DEF OneWorker
  <2>. QED
    BY <1>1, <2>1, <2>3, <2>4, <2>5 DEF PaidInv
<1>5. ASSUME UNCHANGED <<orders, draft, owner, wallets, purse, holder, keeper, pc, req, tx>>,
             \A w \in Workers : ~Commit(w)
      PROVE  PaidInv'
  <2>1. \A m \in Markets : market'[m] = market[m] \/ (market[m] = "open" /\ market'[m] = "closed")
    BY <1>2, <1>5, MarketSteps
  <2>2. ASSUME NEW m \in Markets PROVE PaidUp(m)'
    <3>1. /\ Settleable(m)' <=> Settleable(m)
          /\ market'[m] = "settled" <=> market[m] = "settled"
      BY <2>1 DEF Settleable
    <3>2. Frozen(m)' <=> Frozen(m)
      BY <1>5 DEF Frozen
    <3>3. \A u \in Users, side \in Sides : Position(u, m, side)' = Position(u, m, side)
      BY <1>5 DEF Position
    <3>4. PaidUp(m)
      BY DEF PaidInv
    <3>. QED
      BY <1>5, <3>1, <3>2, <3>3, <3>4 DEF PaidUp
  <2>3. ASSUME NEW w \in Workers
        PROVE  /\ PaidSoFar(w)'
               /\ \A m \in Markets, u \in Users :
                     Ends(w, m)' \/ purse'[u].won[m] = wallets'[u].won[m]
    <3>1. /\ PaidSoFar(w)
          /\ \A m \in Markets, u \in Users : Ends(w, m) \/ purse[u].won[m] = wallets[u].won[m]
      BY DEF PaidInv
    <3>2. PaidSoFar(w)'
      BY <1>5, <3>1 DEF PaidSoFar, Unpaid, Net, IsNextPayee
    <3>. QED
      BY <1>5, <3>1, <3>2 DEF Ends
  <2>. QED
    BY <1>1, <2>2, <2>3 DEF PaidInv
<1>. QED
  BY <1>3, <1>4, <1>5, EngineSteps

\* While requests do not overlap, a settled market has paid everyone for what they hold
\* of one side, exactly once: a second settlement is refused, a crash in the middle of
\* the payouts takes them all back, and no fill comes after them.
THEOREM SettlementsPayOnce ==
    ASSUME OneWorker
    PROVE  Spec => []PaidOnce
<1>1. PaidInv => PaidOnce
  BY DEF PaidInv, PaidUp, PaidOnce
<1>2. PaidInv /\ [Next]_vars => PaidInv'
  BY PaidNext
<1>. QED
  BY <1>1, <1>2, PaidInit, PTL DEF Spec

----------------------------------------------------------------------------
(***************************************************************************)
(* The best bid is served first.                                           *)
(***************************************************************************)

\* The bids that an order with ticket t may be matched with.
BidFor(t, row) ==
    /\ Active(row) /\ Buys(row.ticket)
    /\ row.ticket.market = t.market
    /\ row.ticket.side = (IF Buys(t) THEN Opposite(t.side) ELSE t.side)

\* Until its order is filled up, a placement that has queried the book has all of
\* these in its batch.
BookLoaded(w) ==
    /\ pc[w] \in {"fill", "seller", "stamp"}
    /\ Unfilled(draft[tx[w].order]) > 0
    => \A i \in OrderIds : BidFor(req[w].ticket, draft[i]) => Exists(tx[w].batch[i])

\* The statements that lead to the loop of a placement, and round it.
LEMMA LoopSteps ==
    ASSUME EngineInv, NEW w \in Workers, Start(w) \/ Step(w), ~Rollback(w), ~Commit(w),
           pc'[w] \in {"fill", "seller", "stamp"}
    PROVE  \/ Cross(w)
           \/ \E r \in OrderIds : FillOrder(w, r)
           \/ CreditSeller(w) \/ StampMarket(w)
<1>1. pc \in [Workers -> Statement] /\ PlaceStep(w)
  BY Typed, PositionSteps DEF Placing
<1>2. ~Insert(w)
  BY <1>1 DEF Insert, Goto
<1>3. ~ReserveFunds(w) /\ ~CheckPosition(w) /\ ~Scan(w)
  BY <1>1 DEF ReserveFunds, CheckPosition, Scan, Goto
<1>4. ~FinishPlace(w)
  BY <1>1 DEF FinishPlace, DropRemainder, Goto
<1>. QED
  BY <1>1, <1>2, <1>3, <1>4 DEF PlaceStep

\* With nobody else's locks to skip, the last query lists all bids.
LEMMA CrossLoads ==
    ASSUME OneWorker, LocksInv, NEW w \in Workers, Cross(w), ~Rollback(w), pc'[w] = "fill"
    PROVE  BookLoaded(w)'
<1>1. /\ EngineInv /\ pc \in [Workers -> Statement] /\ tx \in [Workers -> TxType]
      /\ draft \in [OrderIds -> Row]
  BY Typed DEF LocksInv, RowsInv
<1>2. /\ draft' = draft /\ req' = req
      /\ tx' = [tx EXCEPT ![w].batch = Loaded(tx[w].batch, CrossRows(w))]
  BY <1>1 DEF Cross, DropRemainder, Goto
<1>3. tx'[w].batch = Loaded(tx[w].batch, CrossRows(w))
  BY <1>1, <1>2 DEF TxType
<1>4. ASSUME NEW i \in OrderIds, BidFor(req[w].ticket, draft[i])
      PROVE  Exists(tx'[w].batch[i])
  <2>1. OrderFree(w, i)
    BY SoleHolder
  <2>2. i \in CrossRows(w)
    BY <1>4, <2>1 DEF CrossRows, Lockable, Listed, BidFor, Buys
  <2>3. tx'[w].batch[i] = draft[i]
    BY <1>3, <2>2 DEF Loaded
  <2>. QED
    BY <1>4, <2>3 DEF BidFor, Active, ActiveStatuses, Exists
<1>. QED
  BY <1>2, <1>4 DEF BookLoaded

\* A fill that leaves something of the order has used up the bid that it takes out.
LEMMA FillLoads ==
    ASSUME EngineInv, NEW w \in Workers, NEW r \in OrderIds, FillOrder(w, r), ~Rollback(w),
           BookLoaded(w)
    PROVE  BookLoaded(w)'
<1>1. PICK k \in OrderIds, q \in Nat, t \in Tickets, own \in Row, resting \in Row :
         /\ k = tx[w].order /\ k # r /\ t = req[w].ticket
         /\ own = draft[k] /\ resting = draft[r] /\ resting = tx[w].batch[r]
         /\ own.ticket = t /\ Exists(own) /\ Exists(resting)
         /\ q = Smaller(Unfilled(own), Unfilled(resting))
         /\ q <= Unfilled(own) /\ q <= Unfilled(resting)
         /\ Unfilled(own) \in Nat \ {0} /\ Unfilled(resting) \in Nat \ {0}
         /\ draft' = [draft EXCEPT ![k] = FillRow(own, q), ![r] = FillRow(resting, q)]
         /\ Compatible(t, resting.ticket)
         /\ owner[k] = w /\ owner[r] = w
  BY FilledRows
<1>2. draft \in [OrderIds -> Row] /\ tx \in [Workers -> TxType]
  BY Typed
<1>3. PlaceStep(w) /\ ~Insert(w) /\ pc[w] = "fill"
  BY DEF PlaceStep, FillOrder, Insert
<1>4. req' = req /\ tx'[w].order = k
  BY <1>1, <1>3, PlacementKeepsRequest
<1>5. \A i \in OrderIds \ {r} : tx'[w].batch[i] = tx[w].batch[i]
  <2>1. \E due : tx' = [tx EXCEPT ![w].batch[r] = NoRow, ![w].due = due]
    BY DEF FillOrder
  <2>. QED
    BY <1>2, <2>1 DEF TxType
<1>6. PICK new \in Row : new = FillRow(own, q) /\ new.ticket = own.ticket
  BY <1>1, FillRowType
<1>7. PICK old \in Row : old = FillRow(resting, q) /\ old.ticket = resting.ticket
  BY <1>1, FillRowType
<1>8. draft'[k] = new /\ draft'[r] = old
  BY <1>1, <1>2, <1>6, <1>7
<1> SUFFICES ASSUME Unfilled(new) > 0, NEW i \in OrderIds, BidFor(t, draft'[i])
             PROVE  Exists(tx'[w].batch[i])
  BY <1>1, <1>4, <1>8, Zenon DEF BookLoaded
<1>9. q # Unfilled(own)
  <2>1. new.filled = own.filled + q /\ new.cancelled = own.cancelled
    BY <1>6 DEF FillRow, Row
  <2>2. own.ticket.quantity \in Int /\ own.filled \in Int /\ own.cancelled \in Int
    BY TicketType DEF Row
  <2>. QED
    BY <1>6, <2>1, <2>2 DEF Unfilled
<1>10. ~Active(old)
  <2>1. q = Unfilled(resting)
    BY <1>1, <1>9 DEF Smaller
  <2>. QED
    BY <1>7, <2>1 DEF FillRow, Row, Active, ActiveStatuses
<1>11. i # r
  BY <1>8, <1>10 DEF BidFor
<1>12. i # k
  <2>1. t.side # Opposite(t.side)
    BY TicketType DEF Opposite, Sides
  <2>. QED
    BY <1>1, <1>6, <1>8, <2>1, Zenon DEF BidFor
<1>13. draft'[i] = draft[i]
  BY <1>1, <1>2, <1>11, <1>12
<1>14. Exists(tx[w].batch[i])
  BY <1>1, <1>3, <1>13 DEF BookLoaded
<1>. QED
  BY <1>5, <1>11, <1>14

LEMMA LoadedStep ==
    ASSUME OneWorker, LocksInv, NEW w \in Workers, Start(w) \/ Step(w), ~Rollback(w),
           ~Commit(w), BookLoaded(w)
    PROVE  BookLoaded(w)'
<1>1. EngineInv /\ pc \in [Workers -> Statement] /\ tx \in [Workers -> TxType]
  BY Typed DEF LocksInv, RowsInv
<1>2. CASE pc'[w] \notin {"fill", "seller", "stamp"}
  BY <1>2 DEF BookLoaded
<1>3. CASE Cross(w) /\ pc'[w] = "fill"
  BY <1>3, CrossLoads
<1>4. ASSUME NEW r \in OrderIds, FillOrder(w, r) PROVE BookLoaded(w)'
  BY <1>1, <1>4, FillLoads
<1>5. CASE CreditSeller(w) \/ StampMarket(w)
  <2>1. draft' = draft /\ req' = req /\ pc[w] \in {"fill", "seller", "stamp"}
    BY <1>5 DEF CreditSeller, StampMarket, orderVars
  <2>2. tx'[w].order = tx[w].order /\ tx'[w].batch = tx[w].batch
    BY <1>1, <1>5, Zenon DEF CreditSeller, StampMarket, TxType
  <2>. QED
    BY <2>1, <2>2 DEF BookLoaded
<1>6. CASE Cross(w) /\ pc'[w] \in {"seller", "stamp"}
  BY <1>1, <1>6 DEF Cross, DropRemainder, Goto
<1>. QED
  BY <1>1, <1>2, <1>3, <1>4, <1>5, <1>6, LoopSteps

\* The bid i rested when the transaction began, and is ahead of j.
Ahead(i, j) ==
    LET a == orders[i].ticket
        b == orders[j].ticket
    IN  /\ Active(orders[i]) /\ Active(orders[j]) /\ Buys(a) /\ Buys(b)
        /\ a.market = b.market /\ a.side = b.side
        /\ Precedes(orders, i, j)

BestFirst ==
    \A i, j \in OrderIds :
        Ahead(i, j) /\ draft[j].filled > orders[j].filled => ~Active(draft[i])

SameTickets == \A i \in OrderIds : Exists(orders[i]) => draft[i].ticket = orders[i].ticket

QueueInv ==
    /\ LocksInv
    /\ \A w \in Workers : BookLoaded(w)
    /\ SameTickets
    /\ BestFirst

\* A row that the transaction found is still there.
LEMMA StillThere ==
    ASSUME EngineInv, NEW i \in OrderIds, Active(orders[i])
    PROVE  Exists(orders[i]) /\ Exists(draft[i])
BY DEF EngineInv, DraftsExtend, Extends, Active, ActiveStatuses, Exists

LEMMA TicketsStep ==
    ASSUME RowsInv, NEW w \in Workers, Start(w) \/ Step(w), ~Rollback(w), ~Commit(w),
           SameTickets
    PROVE  SameTickets'
<1>1. EngineInv
  BY DEF RowsInv
<1>2. orders' = orders
  BY <1>1, RowMoves DEF OwnRows
<1>3. ASSUME NEW i \in OrderIds, Exists(orders[i])
      PROVE  draft'[i].ticket = orders[i].ticket
  <2>1. Exists(draft[i])
    BY <1>1, <1>3 DEF EngineInv, DraftsExtend, Extends
  <2>2. RowWritten(w, i)
    BY RowWrites
  <2>3. draft'[i].ticket = draft[i].ticket
    BY <2>1, <2>2, TicketsKept
  <2>. QED
    BY <1>3, <2>3 DEF SameTickets
<1>. QED
  BY <1>2, <1>3 DEF SameTickets

\* Of two rows at most one precedes the other.
LEMMA OneFirst ==
    ASSUME NEW a \in [OrderIds -> Row], NEW b \in [OrderIds -> Row],
           NEW i \in OrderIds, NEW j \in OrderIds,
           a[i].ticket = b[i].ticket, a[j].ticket = b[j].ticket, Precedes(a, i, j)
    PROVE  i # j /\ ~Precedes(b, j, i)
<1>1. /\ a[i].ticket.price \in Int /\ a[j].ticket.price \in Int
      /\ a[i].ticket.direction \in {"buy", "sell"}
      /\ a[j].ticket.direction \in {"buy", "sell"}
  BY TicketType DEF Row
<1>2. i \in Int /\ j \in Int
  BY DEF OrderIds
<1>. QED
  BY <1>1, <1>2 DEF Precedes, Buys

\* The bid that is filled has no other ahead of it that the batch could hold.
LEMMA FillTakesBest ==
    ASSUME RowsInv, NEW w \in Workers, NEW r \in OrderIds, FillOrder(w, r), ~Rollback(w),
           BookLoaded(w), SameTickets, NEW i \in OrderIds, Ahead(i, r)
    PROVE  ~Active(draft[i])
<1> SUFFICES ASSUME Active(draft[i]) PROVE FALSE
  OBVIOUS
<1>1. EngineInv /\ tx \in [Workers -> TxType] /\ draft \in [OrderIds -> Row]
        /\ orders \in [OrderIds -> Row]
  BY Typed DEF RowsInv
<1>2. /\ pc[w] = "fill" /\ Unfilled(draft[tx[w].order]) > 0
      /\ IsFirst(tx[w].batch, r)
  BY Zenon DEF FillOrder, Fillable
<1>3. req[w].op = "place" /\ req[w].ticket \in Tickets /\ Exists(tx[w].batch[r])
  BY <1>1, <1>2, Served DEF IsFirst, Ids
<1>4. draft[r] = tx[w].batch[r]
  BY <1>1, <1>3, LoadedRow
<1>5. Active(orders[i]) /\ Active(orders[r])
  BY DEF Ahead
<1>6. draft[i].ticket = orders[i].ticket /\ draft[r].ticket = orders[r].ticket
  BY <1>1, <1>5, StillThere DEF SameTickets
<1>7. i # r
  BY <1>1, OneFirst DEF Ahead
<1>8. BidFor(req[w].ticket, draft[i])
  <2>1. Counterpart(req[w].ticket, draft[r].ticket)
    BY <1>3, <1>4 DEF RowsInv, Counterparts
  <2>2. Buys(draft[r].ticket) /\ Buys(draft[i].ticket)
    BY <1>6 DEF Ahead
  <2>3. /\ draft[i].ticket.market = draft[r].ticket.market
        /\ draft[i].ticket.side = draft[r].ticket.side
    BY <1>6 DEF Ahead
  <2>4. draft[r].ticket.market = req[w].ticket.market
    BY <2>1 DEF Counterpart
  <2>5. draft[r].ticket.side = (IF Buys(req[w].ticket) THEN Opposite(req[w].ticket.side)
                                ELSE req[w].ticket.side)
    BY <2>1, <2>2, Zenon DEF Counterpart
  <2>. QED
    BY <2>2, <2>3, <2>4, <2>5 DEF BidFor
<1>9. Exists(tx[w].batch[i])
  BY <1>2, <1>8 DEF BookLoaded
<1>10. draft[i] = tx[w].batch[i]
  BY <1>1, <1>3, <1>9, LoadedRow
<1>11. Precedes(tx[w].batch, r, i)
  BY <1>2, <1>7, <1>9 DEF IsFirst, Ids
<1>12. PICK batch \in [OrderIds -> Row] : batch = tx[w].batch
  BY <1>1 DEF TxType
<1>13. Precedes(orders, i, r)
  BY DEF Ahead
<1>14. batch[i].ticket = orders[i].ticket /\ batch[r].ticket = orders[r].ticket
  BY <1>4, <1>6, <1>10, <1>12
<1>15. ~Precedes(batch, r, i)
  BY <1>1, <1>13, <1>14, OneFirst
<1>. QED
  BY <1>11, <1>12, <1>15

LEMMA FillKeepsBest ==
    ASSUME RowsInv, NEW w \in Workers, NEW r \in OrderIds, FillOrder(w, r), ~Rollback(w),
           BookLoaded(w), SameTickets, BestFirst,
           NEW i \in OrderIds, NEW j \in OrderIds, Ahead(i, j),
           draft'[j].filled > orders[j].filled
    PROVE  ~Active(draft'[i])
<1>1. EngineInv /\ draft \in [OrderIds -> Row] /\ orders \in [OrderIds -> Row]
  BY Typed DEF RowsInv
<1>2. PICK k \in OrderIds, q \in Nat, t \in Tickets, own \in Row, resting \in Row :
         /\ k = tx[w].order /\ k # r /\ t = req[w].ticket
         /\ own = draft[k] /\ resting = draft[r] /\ resting = tx[w].batch[r]
         /\ own.ticket = t /\ Exists(own) /\ Exists(resting)
         /\ q = Smaller(Unfilled(own), Unfilled(resting))
         /\ q <= Unfilled(own) /\ q <= Unfilled(resting)
         /\ Unfilled(own) \in Nat \ {0} /\ Unfilled(resting) \in Nat \ {0}
         /\ draft' = [draft EXCEPT ![k] = FillRow(own, q), ![r] = FillRow(resting, q)]
         /\ Compatible(t, resting.ticket)
         /\ owner[k] = w /\ owner[r] = w
  BY <1>1, FilledRows
<1>3. pc[w] = "fill" /\ req[w].op = "place"
  BY <1>1, Served DEF FillOrder
<1>4. ~Active(orders[k])
  BY <1>1, <1>2, <1>3, OwnRow, Zenon
<1>5. i # k /\ j # k
  BY <1>4 DEF Ahead
<1>6. i # j
  BY <1>1, OneFirst DEF Ahead
<1>7. ~Active(draft[i])
  <2>1. CASE j = r
    BY <2>1, FillTakesBest
  <2>2. CASE j # r
    <3>1. draft'[j] = draft[j]
      BY <1>1, <1>2, <1>5, <2>2
    <3>. QED
      BY <3>1 DEF BestFirst
  <2>. QED
    BY <2>1, <2>2
<1>8. i # r
  <2>1. Exists(tx[w].batch[r])
    BY <1>2
  <2>2. Active(draft[r])
    BY <1>1, <1>3, <2>1, LoadedRow
  <2>. QED
    BY <1>7, <2>2
<1>9. draft'[i] = draft[i]
  BY <1>1, <1>2, <1>5, <1>8
<1>. QED
  BY <1>7, <1>9

LEMMA BestStep ==
    ASSUME RowsInv, NEW w \in Workers, Start(w) \/ Step(w), ~Rollback(w), ~Commit(w),
           BookLoaded(w), SameTickets, BestFirst
    PROVE  BestFirst'
<1>1. EngineInv /\ draft \in [OrderIds -> Row]
  BY Typed DEF RowsInv
<1>2. orders' = orders
  BY <1>1, RowMoves DEF OwnRows
<1>3. ASSUME NEW i \in OrderIds, NEW j \in OrderIds, Ahead(i, j),
             draft'[j].filled > orders[j].filled
      PROVE  ~Active(draft'[i])
  <2>1. CASE \E r \in OrderIds : FillOrder(w, r)
    BY <1>3, <2>1, FillKeepsBest
  <2>2. CASE Insert(w)
    <3>1. PICK n \in OrderIds : /\ ~Exists(draft[n])
                                /\ draft' = [draft EXCEPT ![n] = NewRow(req[w].ticket)]
      BY <2>2 DEF Insert, IsNextId
    <3>2. Exists(draft[i]) /\ Exists(draft[j])
      BY <1>1, <1>3, StillThere DEF Ahead
    <3>3. draft'[i] = draft[i] /\ draft'[j] = draft[j]
      BY <1>1, <3>1, <3>2
    <3>. QED
      BY <1>3, <3>3 DEF BestFirst
  <2>3. CASE ~Insert(w) /\ \A r \in OrderIds : ~FillOrder(w, r)
    <3>1. draft'[j].filled = draft[j].filled
      BY <1>1, <2>3, RowsCalm
    <3>2. ~Active(draft[i])
      BY <1>3, <3>1 DEF BestFirst
    <3>3. draft'[i] = draft[i] \/ ~Active(draft'[i])
      BY <1>1, <2>3, RowsCalm
    <3>. QED
      BY <3>2, <3>3
  <2>. QED
    BY <2>1, <2>2, <2>3
<1>4. \A i, j \in OrderIds : Ahead(i, j)' <=> Ahead(i, j)
  BY <1>2 DEF Ahead
<1>. QED
  BY <1>2, <1>3, <1>4 DEF BestFirst

LEMMA QueueInit == Init => QueueInv
<1> SUFFICES ASSUME Init PROVE QueueInv
  OBVIOUS
<1>1. \A w \in Workers : BookLoaded(w)
  BY DEF Init, BookLoaded
<1>2. SameTickets /\ BestFirst
  BY NoRowType DEF Init, NoBatch, SameTickets, BestFirst, Ahead
<1>. QED
  BY <1>1, <1>2, LocksInit DEF QueueInv

LEMMA QueueNext == OneWorker /\ QueueInv /\ [Next]_vars => QueueInv'
<1> SUFFICES ASSUME OneWorker, QueueInv, [Next]_vars PROVE QueueInv'
  OBVIOUS
<1>1. LocksInv /\ LocksInv' /\ RowsInv /\ EngineInv /\ EngineInv'
  BY LocksNext DEF QueueInv, LocksInv, RowsInv
<1>2. ASSUME NEW w \in Workers, (Start(w) \/ Step(w)) /\ ~Rollback(w) /\ ~Commit(w)
      PROVE  QueueInv'
  <2>1. BookLoaded(w) /\ SameTickets /\ BestFirst
    BY DEF QueueInv
  <2>2. BookLoaded(w)'
    BY <1>1, <1>2, <2>1, LoadedStep
  <2>3. SameTickets' /\ BestFirst'
    BY <1>1, <1>2, <2>1, TicketsStep, BestStep
  <2>4. \A v \in Workers : v = w
    BY DEF OneWorker
  <2>. QED
    BY <1>1, <2>2, <2>3, <2>4 DEF QueueInv
<1>3. ASSUME NEW w \in Workers, Rollback(w) \/ Commit(w) PROVE QueueInv'
  <2>1. pc'[w] = "idle"
    BY <1>1, <1>3, Typed DEF Rollback, Commit, EndRequest, Goto
  <2>2. \A v \in Workers : v = w
    BY DEF OneWorker
  <2>3. \A v \in Workers : BookLoaded(v)'
    BY <2>1, <2>2 DEF BookLoaded
  <2>4. \A i \in OrderIds : draft'[i] = orders'[i]
    BY <1>1, <1>3, OneVersion
  <2>5. \A i \in OrderIds : orders'[i].filled \in Int
    BY <1>1, Typed DEF EngineInv, TypeOK, Row
  <2>6. SameTickets'
    BY <2>4 DEF SameTickets
  <2>7. BestFirst'
    BY <2>4, <2>5 DEF BestFirst
  <2>. QED
    BY <1>1, <2>3, <2>6, <2>7 DEF QueueInv
<1>4. ASSUME UNCHANGED <<orders, draft, owner, wallets, purse, holder, keeper, pc, req, tx>>
      PROVE  QueueInv'
  BY <1>1, <1>4 DEF QueueInv, BookLoaded, SameTickets, BestFirst, Ahead
<1>. QED
  BY <1>2, <1>3, <1>4, EngineSteps

\* While requests do not overlap bids have price-time priority: no transaction fills one
\* and leaves a higher bid, or an older one of its price, in the book, which with SKIP
\* LOCKED holds of those only that no other transaction has locked.
THEOREM BestBidsFirst ==
    ASSUME OneWorker
    PROVE  Spec => PriceTimePriority
<1>1. QueueInv /\ [Next]_vars
        => [\A i, j \in Resting :
              LET a == orders[i].ticket
                  b == orders[j].ticket
              IN  /\ a.market = b.market /\ a.side = b.side /\ Buys(a) /\ Buys(b)
                  /\ a.price > b.price \/ (a.price = b.price /\ i < j)
                  /\ orders'[j].filled > orders[j].filled
                  => ~Active(orders'[i])]_orders
  <2> SUFFICES ASSUME QueueInv, [Next]_vars, orders' # orders,
                      NEW i \in Resting, NEW j \in Resting,
                      orders[i].ticket.market = orders[j].ticket.market,
                      orders[i].ticket.side = orders[j].ticket.side,
                      Buys(orders[i].ticket), Buys(orders[j].ticket),
                      \/ orders[i].ticket.price > orders[j].ticket.price
                      \/ orders[i].ticket.price = orders[j].ticket.price /\ i < j,
                      orders'[j].filled > orders[j].filled
               PROVE  ~Active(orders'[i])
    OBVIOUS
  <2>1. EngineInv /\ LocksInv
    BY DEF QueueInv, LocksInv, RowsInv
  <2>2. i \in OrderIds /\ j \in OrderIds /\ Active(orders[i]) /\ Active(orders[j])
    BY DEF Resting, Ids
  <2>3. Precedes(orders, i, j)
    BY DEF Precedes, Buys
  <2>4. Ahead(i, j)
    BY <2>2, <2>3 DEF Ahead
  <2>5. PICK w \in Workers : Commit(w)
    <3>1. ASSUME NEW w \in Workers, (Start(w) \/ Step(w)) /\ ~Rollback(w) /\ ~Commit(w)
          PROVE  FALSE
      BY <2>1, <3>1, RowMoves DEF OwnRows
    <3>2. ASSUME NEW w \in Workers, Rollback(w) PROVE FALSE
      BY <3>2 DEF Rollback
    <3>. QED
      BY <3>1, <3>2, EngineSteps
  <2>6. orders'[i] = draft[i] /\ orders'[j] = draft[j]
    BY <2>1, <2>2, <2>5, ViewCommitted
  <2>. QED
    BY <2>2, <2>4, <2>6 DEF QueueInv, BestFirst
<1>2. QueueInv /\ [Next]_vars => QueueInv'
  BY QueueNext
<1>. QED
  BY <1>1, <1>2, QueueInit, PTL DEF Spec, PriceTimePriority

----------------------------------------------------------------------------
(***************************************************************************)
(* The book is never crossed.                                              *)
(***************************************************************************)

\* Of two bids: they could be filled with one another.
Meets(a, b) ==
    a.market = b.market /\ a.side # b.side /\ a.price + b.price >= PayoutCents

Apart(rows, i, j) ==
    Active(rows[i]) /\ Active(rows[j]) => ~Meets(rows[i].ticket, rows[j].ticket)

\* The row that w has inserted and is still matching.
Incoming(w) == IF pc[w] \in Placing THEN {tx[w].order} ELSE {}

ApartInv ==
    /\ LocksInv
    /\ \A w \in Workers : BookLoaded(w)
    /\ \A i, j \in OrderIds : Apart(orders, i, j)
    /\ \A w \in Workers : \A i, j \in OrderIds \ Incoming(w) : Apart(draft, i, j)

\* A row that a step leaves, or takes off the book.
Calmed(i) == Active(draft'[i]) => Active(draft[i]) /\ draft'[i].ticket = draft[i].ticket

LEMMA ApartStays ==
    ASSUME NEW i \in OrderIds, NEW j \in OrderIds, Calmed(i), Calmed(j), Apart(draft, i, j)
    PROVE  Apart(draft', i, j)
BY DEF Calmed, Apart

LEMMA CalmSteps ==
    ASSUME EngineInv, NEW w \in Workers, Start(w) \/ Step(w), ~Rollback(w), ~Commit(w),
           ~Insert(w), \A r \in OrderIds : ~FillOrder(w, r), NEW i \in OrderIds
    PROVE  Calmed(i)
BY RowsCalm DEF Calmed

\* The loop has ended, and what is left of the order meets no bid.
LEMMA OrderApart ==
    ASSUME RowsInv, \A t \in Tickets : Buys(t), NEW w \in Workers, pc[w] = "fill",
           BookLoaded(w), \A r \in OrderIds : ~Fillable(w, r), NEW j \in OrderIds,
           NEW k \in OrderIds, k = tx[w].order, Active(draft[k]), Active(draft[j])
    PROVE  ~Meets(draft[k].ticket, draft[j].ticket)
<1> SUFFICES ASSUME Meets(draft[k].ticket, draft[j].ticket) PROVE FALSE
  OBVIOUS
<1>1. EngineInv /\ tx \in [Workers -> TxType] /\ draft \in [OrderIds -> Row]
  BY Typed DEF RowsInv
<1>2. req[w].op = "place" /\ req[w].ticket \in Tickets
  BY <1>1, Served
<1>3. draft[k].ticket = req[w].ticket
  BY <1>1, <1>2, OwnRow
<1>4. Unfilled(draft[k]) > 0
  BY <1>1 DEF EngineInv, DraftsExtend, RowOK
<1>5. PICK t \in Tickets : t = draft[k].ticket
  BY <1>2, <1>3
<1>6. PICK s \in Tickets : s = draft[j].ticket
  BY <1>1 DEF Row
<1>7. s.market = t.market /\ s.side = Opposite(t.side) /\ t.price + s.price >= PayoutCents
  BY <1>5, <1>6, TicketType DEF Meets, Opposite, Sides
<1>8. BidFor(t, draft[j])
  BY <1>6, <1>7 DEF BidFor
<1>9. Exists(tx[w].batch[j])
  BY <1>3, <1>4, <1>5, <1>8 DEF BookLoaded
<1>10. PICK batch \in [OrderIds -> Row] : batch = tx[w].batch
  BY <1>1 DEF TxType
<1>11. j \in Ids(batch) /\ batch[j].ticket = s
  BY <1>1, <1>2, <1>6, <1>9, <1>10, LoadedRow DEF Ids
<1>12. \A i \in OrderIds : Buys(batch[i].ticket)
  BY DEF Row
<1>13. PICK r \in OrderIds : /\ IsFirst(batch, r)
                             /\ \A i \in Ids(batch) : batch[r].ticket.price >= batch[i].ticket.price
  BY <1>11, <1>12, FirstBid
<1>14. PICK b \in Tickets : b = batch[r].ticket
  BY DEF Row
<1>15. Compatible(t, b)
  <2>1. b.price >= s.price
    BY <1>11, <1>13, <1>14
  <2>2. b.price \in Int /\ s.price \in Int /\ t.price \in Int
    BY TicketType
  <2>3. t.price + b.price >= PayoutCents
    BY <1>7, <2>1, <2>2 DEF PayoutCents
  <2>. QED
    BY <2>3 DEF Compatible
<1>16. Fillable(w, r)
  BY <1>3, <1>4, <1>5, <1>10, <1>13, <1>14, <1>15 DEF Fillable
<1>. QED
  BY <1>16

\* What a placement leaves when it goes on to its commit.
LEMMA PlacedApart ==
    ASSUME RowsInv, \A t \in Tickets : Buys(t), NEW w \in Workers, Start(w) \/ Step(w),
           ~Rollback(w), ~Commit(w), BookLoaded(w), ~Insert(w),
           \A r \in OrderIds : ~FillOrder(w, r),
           pc[w] \in Placing, pc'[w] \notin Placing,
           \A i, j \in OrderIds \ Incoming(w) : Apart(draft, i, j)
    PROVE  \A i, j \in OrderIds : Apart(draft', i, j)
<1>1. EngineInv /\ pc \in [Workers -> Statement] /\ draft \in [OrderIds -> Row]
  BY Typed DEF RowsInv
<1>2. req[w].op = "place" /\ tx[w].order \in OrderIds
  BY <1>1, Served DEF Placing
<1>3. PICK k \in OrderIds : k = tx[w].order
  BY <1>2
<1>4. PlaceStep(w)
  BY <1>1, <1>2, OtherKeepsRequest, StartRequest DEF Step, Placing
<1>5. \/ Cross(w) \/ FinishPlace(w)
  <2>1. ~ReserveFunds(w) /\ ~CheckPosition(w) /\ ~Scan(w)
    BY <1>1 DEF ReserveFunds, CheckPosition, Scan, Goto, Placing
  <2>2. ~CreditSeller(w) /\ ~StampMarket(w)
    BY <1>1, Zenon DEF CreditSeller, StampMarket, Goto, Placing
  <2>. QED
    BY <1>4, <2>1, <2>2 DEF PlaceStep
<1>6. \/ \E S : DropRemainder(w, S)
      \/ draft' = draft /\ pc[w] = "fill" /\ \A r \in OrderIds : ~Fillable(w, r)
  BY <1>1, <1>5 DEF Cross, FinishPlace, Goto, Placing, orderVars
<1>7. \A i \in OrderIds : Calmed(i)
  BY <1>1, CalmSteps
<1>8. ASSUME NEW i \in OrderIds \ {k}, NEW j \in OrderIds \ {k} PROVE Apart(draft', i, j)
  <2>1. Apart(draft, i, j)
    BY <1>3 DEF Incoming
  <2>. QED
    BY <1>7, <2>1, ApartStays
<1>9. ASSUME NEW j \in OrderIds
      PROVE  /\ Active(draft'[k]) /\ Active(draft'[j])
                => ~Meets(draft'[k].ticket, draft'[j].ticket)
  <2>1. CASE \E S : DropRemainder(w, S)
    <3>1. Unfilled(draft[k]) >= 0 /\ draft[k] \in Row
      BY <1>1, <1>2, <1>3, OwnRow
    <3>2. draft' = [draft EXCEPT ![k] = CancelRemainder(draft[k])]
      BY <1>3, <2>1 DEF DropRemainder
    <3>. QED
      BY <1>1, <3>1, <3>2, CancelRemainderType
  <2>2. CASE draft' = draft /\ pc[w] = "fill" /\ \A r \in OrderIds : ~Fillable(w, r)
    <3>1. Active(draft[k]) /\ Active(draft[j]) => ~Meets(draft[k].ticket, draft[j].ticket)
      BY <1>3, <2>2, OrderApart
    <3>. QED
      BY <2>2, <3>1
  <2>. QED
    BY <1>6, <2>1, <2>2
<1>10. ASSUME NEW j \in OrderIds PROVE Apart(draft', k, j) /\ Apart(draft', j, k)
  <2>1. EngineInv'
    BY <1>1, <1>4, StepInv DEF Step
  <2>2. draft' \in [OrderIds -> Row]
    BY <2>1 DEF EngineInv, TypeOK
  <2>3. draft'[k].ticket.price \in Int /\ draft'[j].ticket.price \in Int
    BY <2>2, TicketType DEF Row
  <2>. QED
    BY <1>9, <2>3 DEF Apart, Meets
<1>. QED
  BY <1>8, <1>10

LEMMA ApartStep ==
    ASSUME RowsInv, \A t \in Tickets : Buys(t), NEW w \in Workers, Start(w) \/ Step(w),
           ~Rollback(w), ~Commit(w), BookLoaded(w),
           \A i, j \in OrderIds \ Incoming(w) : Apart(draft, i, j)
    PROVE  \A i, j \in OrderIds \ Incoming(w)' : Apart(draft', i, j)
<1>1. /\ EngineInv /\ pc \in [Workers -> Statement] /\ draft \in [OrderIds -> Row]
      /\ tx \in [Workers -> TxType]
  BY Typed DEF RowsInv
<1>2. CASE Insert(w)
  <2>1. PICK n \in OrderIds : /\ draft' = [draft EXCEPT ![n] = NewRow(req[w].ticket)]
                              /\ tx' = [tx EXCEPT ![w].order = n]
    BY <1>2 DEF Insert
  <2>2. pc[w] \notin Placing /\ pc'[w] \in Placing
    BY <1>1, <1>2 DEF Insert, Goto, Placing
  <2>3. tx'[w].order = n
    BY <1>1, <2>1 DEF TxType
  <2>4. Incoming(w) = {} /\ Incoming(w)' = {n}
    BY <2>2, <2>3 DEF Incoming
  <2>5. \A i \in OrderIds \ {n} : Calmed(i)
    BY <1>1, <2>1 DEF Calmed
  <2>. QED
    BY <2>4, <2>5, ApartStays
<1>3. ASSUME NEW r \in OrderIds, FillOrder(w, r)
      PROVE  \A i, j \in OrderIds \ Incoming(w)' : Apart(draft', i, j)
  <2>1. PICK k \in OrderIds, q \in Nat, t \in Tickets, own \in Row, resting \in Row :
           /\ k = tx[w].order /\ k # r /\ t = req[w].ticket
           /\ own = draft[k] /\ resting = draft[r] /\ resting = tx[w].batch[r]
           /\ own.ticket = t /\ Exists(own) /\ Exists(resting)
           /\ q = Smaller(Unfilled(own), Unfilled(resting))
           /\ q <= Unfilled(own) /\ q <= Unfilled(resting)
           /\ Unfilled(own) \in Nat \ {0} /\ Unfilled(resting) \in Nat \ {0}
           /\ draft' = [draft EXCEPT ![k] = FillRow(own, q), ![r] = FillRow(resting, q)]
           /\ Compatible(t, resting.ticket)
           /\ owner[k] = w /\ owner[r] = w
    BY <1>1, <1>3, FilledRows
  <2>2. PlaceStep(w) /\ ~Insert(w) /\ pc[w] = "fill"
    BY <1>3 DEF PlaceStep, FillOrder, Insert
  <2>3. tx'[w].order = k
    BY <1>1, <2>1, <2>2, PlacementKeepsRequest
  <2>4. pc'[w] \in Placing
    BY <1>1, <1>3 DEF FillOrder, Goto, Placing
  <2>5. Incoming(w) = {k} /\ Incoming(w)' = {k}
    BY <2>1, <2>2, <2>3, <2>4 DEF Incoming, Placing
  <2>6. Active(draft[r]) /\ req[w].op = "place"
    BY <1>1, <2>1, <2>2, Served, LoadedRow
  <2>7. PICK new \in Row : new = FillRow(resting, q) /\ new.ticket = resting.ticket
    BY <2>1, FillRowType
  <2>8. \A i \in OrderIds \ {k} : Calmed(i)
    BY <1>1, <2>1, <2>6, <2>7 DEF Calmed
  <2>. QED
    BY <2>5, <2>8, ApartStays
<1>4. CASE ~Insert(w) /\ \A r \in OrderIds : ~FillOrder(w, r)
  <2>1. \A i \in OrderIds : Calmed(i)
    BY <1>1, <1>4, CalmSteps
  <2>2. CASE pc'[w] \in Placing
    <3>1. pc[w] \in Placing /\ draft' = draft /\ tx'[w].order = tx[w].order
      BY <1>1, <1>4, <2>2, PositionSteps, OwnKept
    <3>. QED
      BY <2>2, <3>1 DEF Incoming
  <2>3. CASE pc'[w] \notin Placing /\ pc[w] \in Placing
    BY <1>4, <2>3, PlacedApart
  <2>4. CASE pc'[w] \notin Placing /\ pc[w] \notin Placing
    <3>1. Incoming(w) = {}
      BY <2>4 DEF Incoming
    <3>. QED
      BY <2>1, <3>1, ApartStays
  <2>. QED
    BY <2>2, <2>3, <2>4
<1>. QED
  BY <1>2, <1>3, <1>4

LEMMA ApartInit == Init => ApartInv
<1> SUFFICES ASSUME Init PROVE ApartInv
  OBVIOUS
<1>1. \A w \in Workers : BookLoaded(w)
  BY DEF Init, BookLoaded
<1>2. \A i, j \in OrderIds : Apart(orders, i, j) /\ Apart(draft, i, j)
  BY NoRowType DEF Init, NoBatch, Apart
<1>. QED
  BY <1>1, <1>2, LocksInit DEF ApartInv

LEMMA ApartNext ==
    ASSUME OneWorker, \A t \in Tickets : Buys(t)
    PROVE  ApartInv /\ [Next]_vars => ApartInv'
<1> SUFFICES ASSUME ApartInv, [Next]_vars PROVE ApartInv'
  OBVIOUS
<1>1. LocksInv /\ LocksInv' /\ RowsInv /\ EngineInv /\ EngineInv'
  BY LocksNext DEF ApartInv, LocksInv, RowsInv
<1>2. ASSUME NEW w \in Workers, (Start(w) \/ Step(w)) /\ ~Rollback(w) /\ ~Commit(w)
      PROVE  ApartInv'
  <2>1. /\ BookLoaded(w)
        /\ \A i, j \in OrderIds \ Incoming(w) : Apart(draft, i, j)
    BY DEF ApartInv
  <2>2. BookLoaded(w)'
    BY <1>1, <1>2, <2>1, LoadedStep
  <2>3. \A i, j \in OrderIds \ Incoming(w)' : Apart(draft', i, j)
    BY <1>1, <1>2, <2>1, ApartStep
  <2>4. orders' = orders
    BY <1>1, <1>2, RowMoves DEF OwnRows
  <2>5. \A v \in Workers : v = w
    BY DEF OneWorker
  <2>. QED
    BY <1>1, <2>2, <2>3, <2>4, <2>5 DEF ApartInv
<1>3. ASSUME NEW w \in Workers, Rollback(w) \/ Commit(w) PROVE ApartInv'
  <2>1. pc'[w] = "idle"
    BY <1>1, <1>3, Typed DEF Rollback, Commit, EndRequest, Goto
  <2>2. \A v \in Workers : v = w
    BY DEF OneWorker
  <2>3. \A v \in Workers : BookLoaded(v)'
    BY <2>1, <2>2 DEF BookLoaded
  <2>4. \A i \in OrderIds : draft'[i] = orders'[i]
    BY <1>1, <1>3, OneVersion
  <2>5. \A i, j \in OrderIds : Apart(orders', i, j)
    <3>1. CASE Rollback(w)
      <4>1. orders' = orders
        BY <3>1 DEF Rollback
      <4>. QED
        BY <4>1 DEF ApartInv
    <3>2. CASE Commit(w)
      <4>1. Incoming(w) = {}
        BY <3>2 DEF Commit, Incoming, Placing
      <4>2. \A i \in OrderIds : orders'[i] = draft[i]
        BY <1>1, <3>2, ViewCommitted
      <4>3. \A i, j \in OrderIds : Apart(draft, i, j)
        BY <4>1 DEF ApartInv
      <4>. QED
        BY <4>2, <4>3 DEF Apart
    <3>. QED
      BY <1>3, <3>1, <3>2
  <2>6. \A i, j \in OrderIds : Apart(draft', i, j)
    BY <2>4, <2>5 DEF Apart
  <2>. QED
    BY <1>1, <2>3, <2>5, <2>6 DEF ApartInv
<1>4. ASSUME UNCHANGED <<orders, draft, owner, wallets, purse, holder, keeper, pc, req, tx>>
      PROVE  ApartInv'
  BY <1>1, <1>4 DEF ApartInv, BookLoaded, Incoming
<1>. QED
  BY <1>2, <1>3, <1>4, EngineSteps

\* While requests do not overlap and users only buy, the book is never crossed: the
\* loop of a placement ends when nothing is left of its order or no bid meets it.  With
\* resting sells it may end at one of these before it has looked at the bids.
THEOREM BooksAreUncrossed ==
    ASSUME OneWorker, \A t \in Tickets : Buys(t)
    PROVE  Spec => []BookUncrossed
<1>1. ApartInv => BookUncrossed
  <2> SUFFICES ASSUME ApartInv, NEW i \in Resting, NEW j \in Resting,
                      orders[i].ticket.market = orders[j].ticket.market,
                      Buys(orders[i].ticket)
               PROVE  LET a == orders[i].ticket
                          b == orders[j].ticket
                      IN  /\ Buys(b) /\ a.side # b.side => a.price + b.price < PayoutCents
                          /\ ~Buys(b) /\ a.side = b.side => a.price < b.price
    BY DEF BookUncrossed
  <2>1. i \in OrderIds /\ j \in OrderIds /\ Active(orders[i]) /\ Active(orders[j])
    BY DEF Resting, Ids
  <2>2. orders \in [OrderIds -> Row]
    BY Typed DEF ApartInv, LocksInv, RowsInv
  <2>3. PICK a \in Tickets, b \in Tickets : a = orders[i].ticket /\ b = orders[j].ticket
    BY <2>1, <2>2 DEF Row
  <2>4. a.price \in Int /\ b.price \in Int /\ Buys(b)
    BY TicketType
  <2>5. Apart(orders, i, j)
    BY <2>1 DEF ApartInv
  <2>6. a.side # b.side => ~(a.price + b.price >= PayoutCents)
    BY <2>1, <2>3, <2>5 DEF Apart, Meets
  <2>. QED
    BY <2>3, <2>4, <2>6 DEF PayoutCents
<1>2. ApartInv /\ [Next]_vars => ApartInv'
  BY ApartNext
<1>. QED
  BY <1>1, <1>2, ApartInit, PTL DEF Spec

----------------------------------------------------------------------------
(***************************************************************************)
(* The rows add up, settlements included.                                  *)
(***************************************************************************)

\* What a settlement or a market cancellation has still to visit is as it was loaded.
Current(w) ==
    req[w].op \in {"settle", "annul"} =>
        \A i \in OrderIds : Exists(tx[w].batch[i]) => draft[i] = tx[w].batch[i]

WholeBooksInv ==
    /\ LocksInv
    /\ \A w \in Workers : Current(w)
    /\ \A i \in OrderIds : Whole(orders[i]) /\ Whole(draft[i])

\* The rows are loaded as they stand.
LEMMA LoadedCurrent ==
    ASSUME OneWorker, LocksInv, NEW w \in Workers, NEW m, draft' = draft,
           tx'[w].batch = ActiveRows(w, m)
    PROVE  Current(w)'
<1>1. SUFFICES ASSUME NEW i \in OrderIds, Exists(ActiveRows(w, m)[i])
               PROVE  draft[i] = ActiveRows(w, m)[i]
  BY DEF Current
<1>2. OrdersSeenBy(w)[i] = draft[i]
  BY SoleHolder
<1>. QED
  BY <1>1, <1>2, NoRowType DEF ActiveRows

\* A visited row leaves the batch.
LEMMA VisitedCurrent ==
    ASSUME EngineInv, NEW w \in Workers, Current(w), req'[w] = req[w],
           NEW k \in OrderIds, SweepOrder(w, k) \/ VoidOrder(w, k)
    PROVE  Current(w)'
<1>1. draft' = [draft EXCEPT ![k] = CancelRow(draft[k], tx[w].batch[k])]
  BY Zenon DEF SweepOrder, VoidOrder
<1>2. draft \in [OrderIds -> Row]
  BY Typed
<1>3. PICK x \in TxType : x = tx[w]
  BY Typed
<1>4. tx'[w].batch[k] = NoRow /\ \A i \in OrderIds \ {k} : tx'[w].batch[i] = x.batch[i]
  BY <1>3, Typed DEF SweepOrder, VoidOrder, TxType
<1>5. \A i \in OrderIds \ {k} : draft'[i] = draft[i]
  BY <1>1, <1>2
<1>. QED
  BY <1>3, <1>4, <1>5, NoRowType DEF Current

\* Every statement keeps the copies current.
LEMMA CurrentStep ==
    ASSUME OneWorker, LocksInv, NEW w \in Workers, Step(w), ~Rollback(w), ~Commit(w),
           Current(w)
    PROVE  Current(w)'
<1>1. EngineInv
  BY DEF LocksInv, RowsInv
<1>2. /\ req'[w] = req[w] /\ pc \in [Workers -> Statement] /\ tx \in [Workers -> TxType]
  BY <1>1, Typed, StepRequest
<1>3. CASE PlaceStep(w)
  BY <1>1, <1>2, <1>3, StepRequest DEF Current
<1>4. CASE CancelStep(w)
  BY <1>1, <1>2, <1>4, Served DEF CancelStep, CancelOrder, Unreserve, Current
<1>5. CASE Snapshot(w) \/ LockForAnnul(w)
  <2>1. draft' = draft /\ tx'[w].batch = ActiveRows(w, req[w].market)
    BY <1>2, <1>5 DEF Snapshot, LockForAnnul, orderVars, TxType
  <2>. QED
    BY <2>1, LoadedCurrent
<1>6. ASSUME NEW i \in OrderIds, SweepOrder(w, i) \/ VoidOrder(w, i)
      PROVE  Current(w)'
  BY <1>1, <1>2, <1>6, VisitedCurrent
<1>7. ASSUME draft' = draft, tx'[w].batch = tx[w].batch
      PROVE  Current(w)'
  BY <1>2, <1>7 DEF Current
<1>8. ASSUME NEW u \in Users, Assess(w, u) \/ PayWinner(w, u) \/ Refund(w, u)
      PROVE  Current(w)'
  BY <1>2, <1>7, <1>8 DEF Assess, PayWinner, Refund, orderVars, TxType
<1>9. ASSUME NEW i \in OrderIds, LockForVoid(w, i) PROVE Current(w)'
  BY <1>7, <1>9 DEF LockForVoid, orderVars
<1>10. CASE ReleaseSwept(w) \/ StartPayout(w) \/ StartRefund(w)
  BY <1>2, <1>7, <1>10 DEF ReleaseSwept, ReleaseFunds, StartPayout, StartRefund, orderVars, TxType
<1>11. CASE FinishSettle(w) \/ FinishAnnul(w)
  BY <1>7, <1>11 DEF FinishSettle, FinishAnnul, orderVars
<1>. QED
  BY <1>3, <1>4, <1>5, <1>6, <1>8, <1>9, <1>10, <1>11 DEF Step, SettleStep, AnnulStep

\* Every write keeps a row whole.
LEMMA WholeWrite ==
    ASSUME EngineInv, NEW w \in Workers, NEW i \in OrderIds, RowWritten(w, i),
           Whole(draft[i]), Current(w)
    PROVE  Whole(draft'[i])
<1>1. PICK row \in Row : row = draft[i]
  BY Typed
<1>2. CASE draft'[i] = draft[i]
  BY <1>2
<1>3. ASSUME NEW t \in Tickets, draft'[i] = NewRow(t) PROVE Whole(draft'[i])
  BY <1>3, NewWhole
<1>4. ASSUME NEW q \in Nat, q <= Unfilled(draft[i]), draft'[i] = FillRow(draft[i], q)
      PROVE  Whole(draft'[i])
  BY <1>1, <1>4, FillWhole
<1>5. CASE Unfilled(draft[i]) >= 0 /\ draft'[i] = CancelRemainder(draft[i])
  BY <1>1, <1>5, RemainderWhole
<1>6. CASE draft'[i] = CancelRow(draft[i], draft[i])
  BY <1>1, <1>6, CancelWhole
<1>7. CASE /\ SweepOrder(w, i) \/ VoidOrder(w, i)
           /\ draft'[i] = CancelRow(draft[i], tx[w].batch[i])
  <2>1. req[w].op \in {"settle", "annul"}
    BY <1>7, Served DEF SweepOrder, VoidOrder
  <2>2. Exists(tx[w].batch[i])
    BY <1>7, Zenon DEF SweepOrder, VoidOrder, IsNext, Ids
  <2>3. tx[w].batch[i] = draft[i]
    BY <2>1, <2>2 DEF Current
  <2>. QED
    BY <1>1, <1>7, <2>3, CancelWhole
<1>. QED
  BY <1>2, <1>3, <1>4, <1>5, <1>6, <1>7 DEF RowWritten

LEMMA WholeBooksInit == Init => WholeBooksInv
<1> SUFFICES ASSUME Init PROVE WholeBooksInv
  OBVIOUS
<1>1. LocksInv
  BY LocksInit
<1>2. \A i \in OrderIds : orders[i] = NoRow /\ draft[i] = NoRow
  BY DEF Init, NoBatch
<1>3. \A w \in Workers : Current(w)
  BY DEF Init, NoRequest, Current
<1>. QED
  BY <1>1, <1>2, <1>3, NoRowType DEF WholeBooksInv, Whole

LEMMA WholeBooksNext == OneWorker /\ WholeBooksInv /\ [Next]_vars => WholeBooksInv'
<1> SUFFICES ASSUME OneWorker, WholeBooksInv, [Next]_vars PROVE WholeBooksInv'
  OBVIOUS
<1>1. LocksInv /\ LocksInv' /\ EngineInv /\ EngineInv' /\ RowsInv
  BY LocksNext DEF WholeBooksInv, LocksInv, RowsInv
<1>2. ASSUME NEW w \in Workers, (Start(w) \/ Step(w)) /\ ~Rollback(w) /\ ~Commit(w)
      PROVE  WholeBooksInv'
  <2>1. Current(w)'
    <3>1. CASE Step(w)
      BY <1>1, <1>2, <3>1, CurrentStep DEF WholeBooksInv
    <3>2. CASE Start(w)
      <4>1. tx'[w] = NoTx
        BY <1>1, <3>2, StartRequest
      <4>2. \A i \in OrderIds : ~Exists(tx'[w].batch[i])
        BY <4>1, NoRowType DEF NoTx, NoBatch
      <4>. QED
        BY <4>2 DEF Current
    <3>. QED
      BY <1>2, <3>1, <3>2
  <2>2. orders' = orders
    BY <1>1, <1>2, RowMoves DEF OwnRows
  <2>3. ASSUME NEW i \in OrderIds PROVE Whole(draft'[i])
    <3>1. RowWritten(w, i)
      BY <1>1, <1>2, RowWrites
    <3>. QED
      BY <1>1, <3>1, WholeWrite DEF WholeBooksInv
  <2>4. \A i \in OrderIds : Whole(orders[i])' /\ Whole(draft[i])'
    BY <2>2, <2>3 DEF WholeBooksInv, Whole, Exists, Active, Unfilled
  <2>5. \A v \in Workers : v = w
    BY DEF OneWorker
  <2>. QED
    BY <1>1, <2>1, <2>4, <2>5 DEF WholeBooksInv
<1>3. ASSUME NEW w \in Workers, Rollback(w) \/ Commit(w) PROVE WholeBooksInv'
  <2>1. req'[w] = NoRequest
    BY <1>1, <1>3, Typed DEF Rollback, Commit, EndRequest
  <2>2. Current(w)'
    BY <2>1 DEF NoRequest, Current
  <2>3. \A v \in Workers : v = w
    BY DEF OneWorker
  <2>4. \A i \in OrderIds : orders'[i] \in {orders[i], draft[i]} /\ draft'[i] = orders'[i]
    BY <1>1, <1>3, ViewDropped, ViewCommitted
  <2>5. \A i \in OrderIds : Whole(orders[i])' /\ Whole(draft[i])'
    BY <2>4 DEF WholeBooksInv, Whole, Exists, Active, Unfilled
  <2>. QED
    BY <1>1, <2>2, <2>3, <2>5 DEF WholeBooksInv
<1>4. ASSUME UNCHANGED <<orders, draft, owner, wallets, purse, holder, keeper, pc, req, tx>>
      PROVE  WholeBooksInv'
  BY <1>1, <1>4 DEF WholeBooksInv, Current, Whole
<1>. QED
  BY <1>2, <1>3, <1>4, EngineSteps

\* With one worker the quantities of every order add up, settlements included: what is
\* cancelled when a market is settled or cancelled is what was left unfilled.
THEOREM SerialRowsAddUp ==
    ASSUME OneWorker
    PROVE  Spec => []RowsAddUp
<1>1. WholeBooksInv => RowsAddUp
  BY WholeAddsUp DEF WholeBooksInv, LocksInv, RowsInv
<1>. QED
  BY <1>1, WholeBooksInit, WholeBooksNext, PTL DEF Spec

----------------------------------------------------------------------------
(***************************************************************************)
(* What bids reserve is what wallets hold back, settlements included.  A   *)
(* wallet never holds back more than its owner's orders would cost.  It    *)
(* holds back less once a resting sell has filled, which is charged to     *)
(* the reservations of its owner's bids; if users only buy it is equal.    *)
(***************************************************************************)

Fits(gap) == gap >= 0 /\ ((\A t \in Tickets : Buys(t)) => gap = 0)

Tallied(w, u) == Fits(Seen(Tied(u)) - (purse[u].reserved + Debt(w, u)))

TallyInv ==
    /\ WholeBooksInv
    /\ \A u \in Users : /\ Fits(Booked(Tied(u)) - wallets[u].reserved)
                        /\ \A w \in Workers : Tallied(w, u)

\* Rows tie up nothing negative, and no row more than all of them.
LEMMA TiedNat ==
    ASSUME NEW rows \in [OrderIds -> Row], \A i \in OrderIds : RowOK(rows[i]),
           NEW u \in Users, NEW k \in OrderIds
    PROVE  LET sum == SumFunctionOnSet([i \in OrderIds |-> Tied(u)[rows[i]]], OrderIds)
           IN  sum \in Nat /\ Tied(u)[rows[k]] \in Nat /\ Tied(u)[rows[k]] <= sum
<1>1. PICK a : a = [i \in OrderIds |-> Tied(u)[rows[i]]]
  OBVIOUS
<1>2. ASSUME NEW i \in OrderIds PROVE a[i] \in Nat
  <2>1. PICK row \in Row : row = rows[i]
    OBVIOUS
  <2>2. a[i] = IF row.ticket.user = u /\ Active(row) THEN Reserved(row) ELSE 0
    BY <1>1, <2>1 DEF Tied
  <2>3. Active(row) => Unfilled(row) \in Nat
    BY <2>1, UnfilledType DEF RowOK
  <2>4. Active(row) => Reserved(row) \in Nat
    BY <2>3, StakeType DEF Reserved
  <2>. QED
    BY <2>2, <2>4
<1>3. IsFiniteSet(OrderIds)
  BY MaxOrdersAssumption, FS_Interval DEF OrderIds
<1>4. SumFunctionOnSet(a, OrderIds) \in Nat /\ a[k] <= SumFunctionOnSet(a, OrderIds)
  <2>1. SumFunctionOnSet(a, OrderIds) \in Nat
    BY <1>2, <1>3, SumNat
  <2>2. a[k] <= SumFunctionOnSet(a, OrderIds)
    BY <1>2, <1>3, SumBounds
  <2>. QED
    BY <2>1, <2>2
<1>5. a[k] = Tied(u)[rows[k]] /\ a[k] \in Nat
  BY <1>1, <1>2
<1>. QED
  BY <1>1, <1>4, <1>5

\* How the worker's view of a sum changes with two rows.
LEMMA SeenTwo ==
    ASSUME EngineInv, EngineInv', NEW f \in [Row -> Int], NEW k \in OrderIds,
           NEW r \in OrderIds \ {k}, \A i \in OrderIds \ {k, r} : draft'[i] = draft[i]
    PROVE  Seen(f)' = Seen(f) + (f[draft'[k]] - f[draft[k]]) + (f[draft'[r]] - f[draft[r]])
<1>1. PICK a : a = [i \in OrderIds |-> f[draft[i]]]
  OBVIOUS
<1>2. PICK b : b = [i \in OrderIds |-> f[draft'[i]]]
  OBVIOUS
<1>3. PICK c : c = [i \in OrderIds |-> IF i = k THEN b[k] ELSE a[i]]
  OBVIOUS
<1>4. IsFiniteSet(OrderIds) /\ \A i \in OrderIds : a[i] \in Int
  BY <1>1, SeenInt
<1>5. draft'[k] \in Row /\ draft'[r] \in Row
  BY DEF EngineInv, TypeOK
<1>6. b[k] \in Int /\ b[r] \in Int /\ \A i \in OrderIds \ {k, r} : b[i] = a[i]
  BY <1>1, <1>2, <1>5
<1>7. c[k] = b[k] /\ c[r] = a[r] /\ \A i \in OrderIds \ {k} : c[i] = a[i]
  BY <1>3
<1>8. (\A i \in OrderIds : c[i] \in Int) /\ \A i \in OrderIds \ {r} : b[i] = c[i]
  BY <1>4, <1>6, <1>7
<1>9. SumFunctionOnSet(c, OrderIds) = SumFunctionOnSet(a, OrderIds) + (c[k] - a[k])
  <2>1. c[k] \in Int
    BY <1>8
  <2>. QED
    BY <1>4, <1>7, <2>1, SumChanged
<1>10. SumFunctionOnSet(b, OrderIds) = SumFunctionOnSet(c, OrderIds) + (b[r] - c[r])
  BY <1>4, <1>6, <1>8, SumChanged
<1>11. SumFunctionOnSet(a, OrderIds) \in Int
  BY <1>4, SumInt
<1>12. SumFunctionOnSet(b, OrderIds)
          = SumFunctionOnSet(a, OrderIds) + (b[k] - a[k]) + (b[r] - a[r])
  BY <1>4, <1>6, <1>7, <1>9, <1>10, <1>11
<1>. QED
  BY <1>1, <1>2, <1>12 DEF Seen

LEMMA TallyInts ==
    ASSUME EngineInv, NEW w \in Workers, NEW u \in Users
    PROVE  /\ Seen(Tied(u)) \in Int /\ purse[u].reserved \in Int /\ Debt(w, u) \in Int
           /\ \A i \in OrderIds : Tied(u)[draft[i]] \in Int
<1>1. Tied(u) \in [Row -> Int]
  BY TiedType
<1>2. draft \in [OrderIds -> Row] /\ purse[u] \in Wallet
  BY Typed
<1>. QED
  BY <1>1, <1>2, SeenInt, DebtType DEF Wallet

\* A statement that writes one row, and what it ties up to the wallet or to the debt.
LEMMA RowTallied ==
    ASSUME EngineInv, EngineInv', NEW w \in Workers, NEW u \in Users, RowTies(w, u),
           Tallied(w, u)
    PROVE  Tallied(w, u)'
<1>1. PICK k \in OrderIds, a \in Int, d \in Int :
         /\ \A i \in OrderIds \ {k} : draft'[i] = draft[i]
         /\ purse'[u].reserved = purse[u].reserved + a
         /\ Debt(w, u)' = Debt(w, u) + d
         /\ Tied(u)[draft'[k]] = Tied(u)[draft[k]] + (a + d)
  BY DEF RowTies
<1>2. PICK f \in [Row -> Int] : f = Tied(u)
  BY TiedType
<1>3. Seen(f)' = Seen(f) + (f[draft'[k]] - f[draft[k]])
  BY <1>1, SeenOne
<1>4. /\ Seen(f) \in Int /\ purse[u].reserved \in Int /\ Debt(w, u) \in Int
      /\ f[draft[k]] \in Int
  BY <1>2, TallyInts
<1>5. Seen(f)' = Seen(f) + (a + d)
  BY <1>1, <1>2, <1>3, <1>4
<1>6. Seen(f)' - (purse'[u].reserved + Debt(w, u)')
         = Seen(f) - (purse[u].reserved + Debt(w, u))
  BY <1>1, <1>4, <1>5
<1>7. Fits(Seen(f)' - (purse'[u].reserved + Debt(w, u)'))
  BY <1>2, <1>6 DEF Tallied
<1>. QED
  BY <1>2, <1>7 DEF Tallied, Fits

LEMMA QuietTallied ==
    ASSUME EngineInv, NEW w \in Workers, NEW u \in Users, NothingTied(w), Tallied(w, u)
    PROVE  Tallied(w, u)'
<1>1. PICK f \in [Row -> Int] : f = Tied(u)
  BY TiedType
<1>2. Seen(f)' = Seen(f)
  BY DEF Seen, NothingTied
<1>3. Debt(w, u) = 0 /\ Debt(w, u)' = 0
  BY DEF Debt, NothingTied
<1>4. purse'[u].reserved = purse[u].reserved
  BY DEF NothingTied
<1>5. Fits(Seen(f)' - (purse'[u].reserved + Debt(w, u)'))
  BY <1>1, <1>2, <1>3, <1>4 DEF Tallied
<1>. QED
  BY <1>1, <1>5 DEF Tallied, Fits

\* A fill takes as much out of the wallet as out of the rows, or more.
LEMMA FillTallied ==
    ASSUME EngineInv, EngineInv', NEW w \in Workers, NEW r \in OrderIds, FillOrder(w, r),
           ~Rollback(w), \A i \in OrderIds : Whole(draft[i]), NEW u \in Users, Tallied(w, u)
    PROVE  Tallied(w, u)'
<1>1. PICK k \in OrderIds \ {r}, c \in Nat, d \in Nat, e \in Nat :
         /\ \A i \in OrderIds \ {k, r} : draft'[i] = draft[i]
         /\ purse'[u].reserved = purse[u].reserved - c - d
         /\ Tied(u)[draft'[k]] = Tied(u)[draft[k]] - d
         /\ Tied(u)[draft'[r]] = Tied(u)[draft[r]] - e
         /\ e <= c
         /\ Buys(draft[r].ticket) => e = c
         /\ pc[w] = "fill" /\ pc'[w] \in {"stamp", "seller"}
  BY FillReserves
<1>2. PICK f \in [Row -> Int] : f = Tied(u)
  BY TiedType
<1>3. Seen(f)' = Seen(f) + (f[draft'[k]] - f[draft[k]]) + (f[draft'[r]] - f[draft[r]])
  BY <1>1, SeenTwo
<1>4. /\ Seen(f) \in Int /\ purse[u].reserved \in Int
      /\ f[draft[k]] \in Int /\ f[draft[r]] \in Int
  BY <1>2, TallyInts
<1>5. Seen(f)' = Seen(f) - d - e
  BY <1>1, <1>2, <1>3, <1>4
<1>6. Debt(w, u) = 0 /\ Debt(w, u)' = 0
  BY <1>1 DEF Debt
<1>7. PICK gap \in Int : gap = Seen(f) - purse[u].reserved
  BY <1>4
<1>8. Seen(f) - (purse[u].reserved + 0) = gap
  BY <1>4, <1>7
<1>9. Fits(gap)
  BY <1>2, <1>6, <1>8 DEF Tallied
<1>10. Seen(f)' - (purse'[u].reserved + 0) = gap + (c - e)
  BY <1>1, <1>4, <1>5, <1>7
<1>11. (\A t \in Tickets : Buys(t)) => c = e
  <2>1. draft[r] \in Row
    BY Typed
  <2>. QED
    BY <1>1, <2>1 DEF Row
<1>12. Fits(gap + (c - e))
  <2>1. gap >= 0 /\ gap + (c - e) >= 0
    BY <1>1, <1>7, <1>9 DEF Fits
  <2>2. ASSUME \A t \in Tickets : Buys(t) PROVE gap + (c - e) = 0
    <3>1. gap = 0 /\ c = e
      BY <1>9, <1>11, <2>2 DEF Fits
    <3>. QED
      BY <3>1
  <2>. QED
    BY <2>1, <2>2 DEF Fits
<1>13. Fits(Seen(f)' - (purse'[u].reserved + Debt(w, u)'))
  BY <1>6, <1>10, <1>12
<1>. QED
  BY <1>2, <1>13 DEF Tallied, Fits

\* A market cancellation takes what a row ties up out of the wallet, if that is there.
LEMMA VoidTallied ==
    ASSUME EngineInv, EngineInv', NEW w \in Workers, NEW k \in OrderIds, VoidOrder(w, k),
           Current(w), \A i \in OrderIds : Whole(draft[i]), NEW u \in Users, Tallied(w, u)
    PROVE  Tallied(w, u)'
<1>1. /\ purse \in [Users -> Wallet] /\ pc \in [Workers -> Statement]
      /\ draft \in [OrderIds -> Row]
  BY Typed
<1>2. req[w].op = "annul" /\ Exists(tx[w].batch[k])
  BY Served DEF VoidOrder, IsNext, Ids
<1>3. PICK row \in Row : row = draft[k] /\ row = tx[w].batch[k]
  BY <1>1, <1>2 DEF Current
<1>4. Active(row) /\ RowOK(row) /\ Exists(row) /\ Whole(row) /\ Reserved(row) \in Nat
  BY <1>3, NextRow DEF VoidOrder, Active, Exists, ActiveStatuses
<1>5. PICK b \in Nat : b = Reserved(row)
  BY <1>4
<1>6. PICK new \in Row : new = CancelRow(row, row) /\ ~Active(new)
  BY <1>4, CancelRowType
<1>7. PICK v \in Users : v = row.ticket.user
  BY TicketType DEF Row
<1>8. PICK p \in Wallet : p = purse[v]
  BY <1>1
<1>9. PICK s \in Nat : s = Smaller(b, p.reserved)
  BY DEF Wallet, Smaller
<1>10. /\ draft' = [draft EXCEPT ![k] = new] /\ pc[w] = "void" /\ pc'[w] = "wallet"
       /\ purse' = [purse EXCEPT ![v] = Release(p, s)]
  BY <1>1, <1>3, <1>5, <1>6, <1>7, <1>8, <1>9, Zenon DEF VoidOrder, Goto
<1>11. PICK f \in [Row -> Int] : f = Tied(u)
  BY TiedType
<1>12. Seen(f)' = Seen(f) + (f[draft'[k]] - f[draft[k]])
  <2>1. \A i \in OrderIds \ {k} : draft'[i] = draft[i]
    BY <1>1, <1>10
  <2>. QED
    BY <2>1, SeenOne
<1>13. f[draft'[k]] = 0 /\ f[draft[k]] = (IF v = u THEN b ELSE 0)
  <2>1. draft'[k] = new
    BY <1>1, <1>10
  <2>. QED
    BY <1>3, <1>4, <1>5, <1>6, <1>7, <1>11, <2>1, TiedType
<1>14. Debt(w, u) = 0 /\ Debt(w, u)' = 0
  BY <1>10 DEF Debt
<1>15. Seen(f) \in Nat /\ Seen(f)' \in Nat
  <2>1. PICK rows \in [OrderIds -> Row] : rows = draft
    BY <1>1
  <2>2. PICK next \in [OrderIds -> Row] : next = draft'
    BY DEF EngineInv, TypeOK
  <2>3. \A i \in OrderIds : RowOK(rows[i]) /\ RowOK(next[i])
    BY <2>1, <2>2 DEF EngineInv, DraftsExtend
  <2>4. SumFunctionOnSet([i \in OrderIds |-> f[rows[i]]], OrderIds) \in Nat
    BY <1>11, <2>3, TiedNat
  <2>5. SumFunctionOnSet([i \in OrderIds |-> f[next[i]]], OrderIds) \in Nat
    BY <1>11, <2>3, TiedNat
  <2>. QED
    BY <2>1, <2>2, <2>4, <2>5 DEF Seen
<1>16. purse[u].reserved \in Nat /\ p.reserved \in Nat
  BY <1>1, <1>8 DEF Wallet
<1>17. purse'[u].reserved = purse[u].reserved - (IF v = u THEN s ELSE 0)
  <2>1. Release(p, s).reserved = p.reserved - s
    BY DEF Wallet, Release
  <2>2. purse'[u] = IF v = u THEN Release(p, s) ELSE purse[u]
    BY <1>1, <1>10
  <2>. QED
    BY <1>8, <1>16, <2>1, <2>2
<1>18. PICK gap \in Int, gap2 \in Int :
          gap = Seen(f) - purse[u].reserved /\ gap2 = Seen(f)' - purse'[u].reserved
  BY <1>15, <1>16, <1>17
<1>19. Seen(f) - (purse[u].reserved + 0) = gap
  BY <1>15, <1>16, <1>18
<1>20. Seen(f)' - (purse'[u].reserved + 0) = gap2
  BY <1>15, <1>16, <1>17, <1>18
<1>21. Fits(gap)
  BY <1>11, <1>14, <1>19 DEF Tallied
<1>22. gap2 = gap \/ (gap > 0 /\ gap2 >= 0)
  <2>1. CASE v = u
    <3>1. Seen(f)' = Seen(f) - b
      BY <1>12, <1>13, <1>15, <2>1
    <3>2. purse[u].reserved = p.reserved /\ purse'[u].reserved = p.reserved - s
      BY <1>8, <1>17, <2>1
    <3>3. CASE b <= p.reserved
      BY <1>9, <1>15, <1>16, <1>18, <3>1, <3>2, <3>3 DEF Smaller
    <3>4. CASE b > p.reserved
      <4>1. s = p.reserved
        BY <1>9, <1>16, <3>4 DEF Smaller
      <4>2. gap2 = Seen(f)' /\ gap = Seen(f)' + b - p.reserved
        BY <1>15, <1>16, <1>18, <3>1, <3>2, <4>1
      <4>. QED
        BY <1>15, <1>16, <3>4, <4>2
    <3>. QED
      BY <1>16, <3>3, <3>4
  <2>2. CASE v # u
    <3>1. Seen(f)' = Seen(f) /\ purse'[u].reserved = purse[u].reserved
      BY <1>12, <1>13, <1>15, <1>16, <1>17, <2>2
    <3>. QED
      BY <1>18, <3>1
  <2>. QED
    BY <2>1, <2>2
<1>23. Fits(gap2)
  <2>1. gap2 >= 0
    BY <1>21, <1>22 DEF Fits
  <2>2. (\A t \in Tickets : Buys(t)) => gap2 = 0
    BY <1>21, <1>22 DEF Fits
  <2>. QED
    BY <2>1, <2>2 DEF Fits
<1>24. Fits(Seen(f)' - (purse'[u].reserved + Debt(w, u)'))
  BY <1>14, <1>20, <1>23
<1>. QED
  BY <1>11, <1>24 DEF Tallied, Fits

LEMMA TallyStep ==
    ASSUME WholeBooksInv, EngineInv', NEW w \in Workers, Start(w) \/ Step(w), ~Rollback(w),
           ~Commit(w), NEW u \in Users, Tallied(w, u)
    PROVE  Tallied(w, u)'
<1>1. EngineInv /\ Current(w) /\ \A i \in OrderIds : Whole(draft[i])
  BY DEF WholeBooksInv, LocksInv, RowsInv
<1>2. CASE Insert(w)
  BY <1>1, <1>2, InsertTies, RowTallied
<1>3. CASE ReserveFunds(w)
  BY <1>1, <1>3, ReserveTies, RowTallied
<1>4. CASE pc[w] \in {"cross", "fill"} /\ \E S : DropRemainder(w, S)
  <2>1. tx[w].order \in OrderIds
    BY <1>1, <1>4, Served
  <2>. QED
    BY <1>1, <1>4, <2>1, DropTies, RowTallied
<1>5. CASE \E r \in OrderIds : FillOrder(w, r)
  BY <1>1, <1>5, FillTallied
<1>6. CASE CancelOrder(w)
  <2>1. req[w].order \in OrderIds
    BY <1>1, <1>6, Served DEF CancelOrder
  <2>. QED
    BY <1>1, <1>6, <2>1, CancelTies, RowTallied
<1>7. CASE Unreserve(w) \/ ReleaseSwept(w)
  BY <1>1, <1>7, ReleaseTies, RowTallied
<1>8. ASSUME NEW k \in OrderIds, SweepOrder(w, k) PROVE Tallied(w, u)'
  <2>1. req[w].op = "settle" /\ Exists(tx[w].batch[k])
    BY <1>1, <1>8, Served DEF SweepOrder, IsNext, Ids
  <2>2. tx[w].batch[k] = draft[k]
    BY <1>1, <2>1 DEF Current
  <2>. QED
    BY <1>1, <1>8, <2>2, SweepTies, RowTallied
<1>9. ASSUME NEW k \in OrderIds, VoidOrder(w, k) PROVE Tallied(w, u)'
  BY <1>1, <1>9, VoidTallied
<1>10. CASE NothingTied(w)
  BY <1>1, <1>10, QuietTallied
<1>. QED
  BY <1>1, <1>2, <1>3, <1>4, <1>5, <1>6, <1>7, <1>8, <1>9, <1>10, TieSteps

LEMMA TallyInit == Init => TallyInv
<1> SUFFICES ASSUME Init PROVE TallyInv
  OBVIOUS
<1>1. WholeBooksInv /\ EngineInv
  BY WholeBooksInit, InitInv
<1>2. ASSUME NEW u \in Users
      PROVE  /\ Fits(Booked(Tied(u)) - wallets[u].reserved)
             /\ \A w \in Workers : Tallied(w, u)
  <2>1. PICK f \in [Row -> Int] : f = Tied(u)
    BY TiedType
  <2>2. NoRow \in Row /\ ~Active(NoRow)
    BY NoRowType DEF NoRow, Active, ActiveStatuses
  <2>3. f[NoRow] = 0
    BY <2>1, <2>2, TiedType
  <2>4. orders = draft /\ \A i \in OrderIds : draft[i] = NoRow
    BY DEF Init, NoBatch
  <2>5. PICK a : a = [i \in OrderIds |-> f[draft[i]]]
    OBVIOUS
  <2>6. SumFunctionOnSet(a, OrderIds) = 0
    <3>1. \A i \in OrderIds : a[i] = 0
      BY <2>3, <2>4, <2>5
    <3>2. IsFiniteSet(OrderIds)
      BY MaxOrdersAssumption, FS_Interval DEF OrderIds
    <3>. QED
      BY <3>1, <3>2, SumZero
  <2>7. Seen(f) = 0 /\ Booked(f) = 0
    BY <2>4, <2>5, <2>6 DEF Seen, Booked
  <2>8. wallets[u].reserved = 0 /\ purse[u].reserved = 0
    BY DEF Init, NewWallet
  <2>9. \A w \in Workers : Debt(w, u) = 0
    BY DEF Init, Debt
  <2>10. Fits(0)
    BY DEF Fits
  <2>. QED
    BY <2>1, <2>7, <2>8, <2>9, <2>10 DEF Tallied
<1>. QED
  BY <1>1, <1>2 DEF TallyInv

LEMMA TallyNext == OneWorker /\ TallyInv /\ [Next]_vars => TallyInv'
<1> SUFFICES ASSUME OneWorker, TallyInv, [Next]_vars PROVE TallyInv'
  OBVIOUS
<1>1. WholeBooksInv /\ WholeBooksInv' /\ LocksInv /\ LocksInv' /\ EngineInv /\ EngineInv'
  BY WholeBooksNext DEF TallyInv, WholeBooksInv, LocksInv, RowsInv
<1>2. ASSUME NEW w \in Workers, (Start(w) \/ Step(w)) /\ ~Rollback(w) /\ ~Commit(w),
             NEW u \in Users
      PROVE  /\ (Fits(Booked(Tied(u)) - wallets[u].reserved))'
             /\ \A v \in Workers : Tallied(v, u)'
  <2>1. OwnRows(w) /\ OwnWallets(w)
    BY <1>1, <1>2, RowMoves, WalletMoves DEF LocksInv
  <2>2. orders' = orders /\ wallets' = wallets
    BY <2>1 DEF OwnRows, OwnWallets
  <2>3. Tallied(w, u)'
    BY <1>1, <1>2, TallyStep DEF TallyInv
  <2>4. \A v \in Workers : v = w
    BY DEF OneWorker
  <2>5. PICK f \in [Row -> Int] : f = Tied(u)
    BY TiedType
  <2>6. Booked(f)' = Booked(f)
    BY <2>2 DEF Booked
  <2>7. Fits(Booked(f)' - wallets'[u].reserved)
    BY <2>2, <2>5, <2>6 DEF TallyInv
  <2>. QED
    BY <2>3, <2>4, <2>5, <2>7 DEF Fits
<1>3. ASSUME NEW w \in Workers, Rollback(w) \/ Commit(w), NEW u \in Users
      PROVE  /\ (Fits(Booked(Tied(u)) - wallets[u].reserved))'
             /\ \A v \in Workers : Tallied(v, u)'
  <2>1. PICK f \in [Row -> Int] : f = Tied(u)
    BY TiedType
  <2>2. \A v \in Workers : v = w
    BY DEF OneWorker
  <2>3. pc'[w] = "idle"
    BY <1>1, <1>3, Typed DEF Rollback, Commit, EndRequest, Goto
  <2>4. Debt(w, u)' = 0
    BY <2>3 DEF Debt
  <2>5. Seen(f)' = Booked(f)' /\ purse'[u].reserved = wallets'[u].reserved
    <3>1. /\ \A i \in OrderIds : draft'[i] = orders'[i]
          /\ \A x \in Users : purse'[x] = wallets'[x]
      BY <1>1, <1>3, OneVersion
    <3>. QED
      BY <3>1 DEF Seen, Booked
  <2>6. Fits(Booked(f)' - wallets'[u].reserved)
    <3>1. CASE Rollback(w)
      <4>1. /\ \A i \in OrderIds : orders'[i] = orders[i]
            /\ \A x \in Users : wallets'[x] = wallets[x]
        BY <1>1, <3>1, ViewDropped
      <4>2. Booked(f)' = Booked(f)
        BY <4>1 DEF Booked
      <4>. QED
        BY <2>1, <4>1, <4>2 DEF TallyInv
    <3>2. CASE Commit(w)
      <4>1. /\ \A i \in OrderIds : orders'[i] = draft[i]
            /\ \A x \in Users : wallets'[x] = purse[x]
        BY <1>1, <3>2, ViewCommitted
      <4>2. Booked(f)' = Seen(f)
        BY <4>1 DEF Booked, Seen
      <4>3. Debt(w, u) = 0
        BY <3>2 DEF Commit, Debt
      <4>4. purse[u].reserved \in Int
        BY <1>1, TallyInts
      <4>5. Fits(Seen(f) - (purse[u].reserved + 0))
        BY <2>1, <4>3 DEF TallyInv, Tallied
      <4>. QED
        BY <4>1, <4>2, <4>4, <4>5
    <3>. QED
      BY <1>3, <3>1, <3>2
  <2>7. wallets'[u].reserved \in Int
    BY <1>1 DEF EngineInv, TypeOK, Wallet
  <2>8. Fits(Seen(f)' - (purse'[u].reserved + Debt(w, u)'))
    BY <2>4, <2>5, <2>6, <2>7
  <2>. QED
    BY <2>1, <2>2, <2>6, <2>8 DEF Tallied, Fits
<1>4. ASSUME UNCHANGED <<orders, draft, owner, wallets, purse, holder, keeper, pc, req, tx>>,
             NEW u \in Users
      PROVE  /\ (Fits(Booked(Tied(u)) - wallets[u].reserved))'
             /\ \A v \in Workers : Tallied(v, u)'
  <2>1. PICK f \in [Row -> Int] : f = Tied(u)
    BY TiedType
  <2>2. Booked(f)' = Booked(f) /\ Seen(f)' = Seen(f)
    BY <1>4 DEF Booked, Seen
  <2>3. \A v \in Workers : Debt(v, u)' = Debt(v, u)
    BY <1>4 DEF Debt
  <2>4. Fits(Booked(f)' - wallets'[u].reserved)
    BY <1>4, <2>1, <2>2 DEF TallyInv
  <2>5. \A v \in Workers : Fits(Seen(f)' - (purse'[u].reserved + Debt(v, u)'))
    BY <1>4, <2>1, <2>2, <2>3 DEF TallyInv, Tallied
  <2>. QED
    BY <2>1, <2>4, <2>5 DEF Tallied, Fits
<1>. QED
  BY <1>1, <1>2, <1>3, <1>4, EngineSteps DEF TallyInv

\* With one worker and users who only buy, the reserved column of every wallet is exactly
\* what its owner's resting orders would cost, whatever was cancelled, settled or
\* annulled before: no sweep releases too much or too little.
THEOREM SerialReservations ==
    ASSUME OneWorker, \A t \in Tickets : Buys(t)
    PROVE  Spec => []ReservedBacksOrders
<1>1. TallyInv => ReservedBacksOrders
  <2> SUFFICES ASSUME TallyInv PROVE ReservedBacksOrders
    OBVIOUS
  <2>1. EngineInv
    BY DEF TallyInv, WholeBooksInv, LocksInv, RowsInv
  <2>2. ASSUME NEW u \in Users PROVE wallets[u].reserved = Booked(Tied(u))
    <3>1. Booked(Tied(u)) - wallets[u].reserved = 0
      BY DEF TallyInv, Fits
    <3>2. PICK f \in [Row -> Int] : f = Tied(u)
      BY TiedType
    <3>3. Booked(f) \in Int /\ wallets[u].reserved \in Int
      BY <2>1, RowSums DEF EngineInv, TypeOK, Wallet
    <3>. QED
      BY <3>1, <3>2, <3>3
  <2>. QED
    BY <2>1, <2>2, TiedBacks
<1>2. TallyInv /\ [Next]_vars => TallyInv'
  BY TallyNext
<1>. QED
  BY <1>1, <1>2, TallyInit, PTL DEF Spec

----------------------------------------------------------------------------
(***************************************************************************)
(* A market cancellation makes whole.  What it pays back is the outlay, as *)
(* a clawback finds all of it available: either users only buy, and there  *)
(* is none, or there is one market, whose orders are void by then, so that *)
(* nothing that the user was paid is tied up elsewhere.                    *)
(***************************************************************************)

OneMarketOrBids == (\A m, n \in Markets : m = n) \/ (\A t \in Tickets : Buys(t))

\* w is placing an order on market m.
Spends(w, m) == req[w].op = "place" /\ req[w].ticket.market = m

\* The users whose outlay the cancellation that w runs has still to pay back.
Unrefunded(w) == IF pc[w] = "refund" THEN tx[w].payees ELSE {}

RefundedSoFar(w) ==
    LET m == req[w].market
    IN  req[w].op = "annul" =>
            /\ pc[w] = "annul" => \A u \in Users : purse[u].won[m] = wallets[u].won[m]
            /\ pc[w] \in {"wallet", "void"} => \A u \in Users : purse[u].won[m] = 0
            /\ pc[w] \in {"refund", "commit"} => \A u \in Users :
                  purse[u].won[m] = IF u \in Unrefunded(w) THEN 0 ELSE Outlay(purse[u], m)

Refunded(m) ==
    market[m] = "cancelled" => \A u \in Users : wallets[u].won[m] = Outlay(wallets[u], m)

\* Who only buys only pays.
OnlyPays ==
    (\A t \in Tickets : Buys(t)) =>
        \A u \in Users, m \in Markets : purse[u].spent[m] >= 0 /\ wallets[u].spent[m] >= 0

RefundInv ==
    /\ PaidInv
    /\ LedgerInv
    /\ TallyInv
    /\ OnlyPays
    /\ \A m \in Markets : Refunded(m)
    /\ \A w \in Workers :
          /\ RefundedSoFar(w)
          /\ pc[w] = "seller" => ~Buys(req[w].ticket)
          /\ \A m \in Markets, u \in Users :
                Spends(w, m) \/ Outlay(purse[u], m) = Outlay(wallets[u], m)

\* A statement adds to what is spent on the market of its order only, and does not take
\* from it unless it credits a seller.
SpendsOwn(w, u, m) ==
    /\ \/ Spends(w, m)
       \/ purse'[u].spent[m] = purse[u].spent[m] /\ purse'[u].fees[m] = purse[u].fees[m]
    /\ pc[w] # "seller" => purse'[u].spent[m] >= purse[u].spent[m]

LEMMA FillSpends ==
    ASSUME EngineInv, NEW w \in Workers, NEW r \in OrderIds, FillOrder(w, r), ~Rollback(w),
           NEW u \in Users, NEW m \in Markets
    PROVE  SpendsOwn(w, u, m)
<1>1. purse \in [Users -> Drawn]
  BY Typed, WalletIsDrawn
<1>2. PICK t \in Tickets, own \in Row, resting \in Row, q \in Nat :
         /\ t = req[w].ticket /\ own = draft[tx[w].order] /\ resting = tx[w].batch[r]
         /\ q = Smaller(Unfilled(own), Unfilled(resting))
  BY FilledRows
<1>3. PICK a \in Nat, b \in Nat : a = Stake(own, q) /\ b = Stake(resting, q)
  BY StakeType
<1>4. PICK v \in Users, z \in Users, n \in Markets :
         v = t.user /\ z = resting.ticket.user /\ n = t.market
  BY TicketType DEF Row
<1>5. PICK p : p = [purse EXCEPT ![z] = SpendReserved(purse[z], n, b)]
  OBVIOUS
<1>6. purse' = IF Buys(t) THEN [p EXCEPT ![v] = SpendReserved(p[v], n, a)] ELSE p
  <2>1. purse' = AfterFill(w, r, q)
    BY <1>2, Zenon DEF FillOrder
  <2>. QED
    BY <1>2, <1>3, <1>4, <1>5, <2>1 DEF AfterFill
<1>7. ASSUME NEW x \in Drawn, NEW c \in Nat
      PROVE  /\ SpendReserved(x, n, c) \in Drawn
             /\ SpendReserved(x, n, c).fees[m] = x.fees[m]
             /\ x.spent[m] \in Int
             /\ SpendReserved(x, n, c).spent[m] >= x.spent[m]
             /\ n # m => SpendReserved(x, n, c).spent[m] = x.spent[m]
  <2>1. PICK y : y = SpendReserved(x, n, c)
    OBVIOUS
  <2>2. y.spent = [x.spent EXCEPT ![n] = @ + c] /\ y.fees = x.fees
    BY <2>1 DEF SpendReserved, Drawn
  <2>3. x.spent[m] \in Int /\ x.spent \in [Markets -> Int]
    BY DEF Drawn
  <2>. QED
    BY <2>1, <2>2, <2>3, SpendDrawn
<1>8. /\ p \in [Users -> Drawn] /\ p[u].fees[m] = purse[u].fees[m]
      /\ p[u].spent[m] >= purse[u].spent[m]
      /\ n # m => p[u].spent[m] = purse[u].spent[m]
  <2>1. SpendReserved(purse[z], n, b) \in Drawn
    BY <1>1, <1>7
  <2>2. p[u] = IF u = z THEN SpendReserved(purse[z], n, b) ELSE purse[u]
    BY <1>1, <1>5
  <2>3. p \in [Users -> Drawn]
    BY <1>1, <1>5, <2>1
  <2>4. purse[u].spent[m] \in Int
    BY <1>1 DEF Drawn
  <2>. QED
    BY <1>1, <1>7, <2>2, <2>3, <2>4
<1>9. /\ purse'[u].fees[m] = purse[u].fees[m]
      /\ purse'[u].spent[m] >= purse[u].spent[m]
      /\ n # m => purse'[u].spent[m] = purse[u].spent[m]
  <2>1. purse'[u] = IF Buys(t) /\ u = v THEN SpendReserved(p[v], n, a) ELSE p[u]
    BY <1>6, <1>8
  <2>2. purse[u].spent[m] \in Int /\ p[u].spent[m] \in Int
    BY <1>1, <1>8 DEF Drawn
  <2>. QED
    BY <1>7, <1>8, <2>1, <2>2
<1>10. req[w].op = "place"
  BY Served, Zenon DEF FillOrder
<1>. QED
  BY <1>2, <1>4, <1>9, <1>10 DEF SpendsOwn, Spends

LEMMA SpendsStep ==
    ASSUME EngineInv, NEW w \in Workers, Start(w) \/ Step(w), ~Rollback(w), ~Commit(w),
           NEW u \in Users, NEW m \in Markets
    PROVE  SpendsOwn(w, u, m)
<1>1. purse \in [Users -> Wallet]
  BY Typed
<1>2. purse[u].spent[m] \in Int /\ purse[u].fees[m] \in Int
  BY <1>1 DEF Wallet
<1>3. ASSUME purse'[u].spent[m] = purse[u].spent[m], purse'[u].fees[m] = purse[u].fees[m]
      PROVE  SpendsOwn(w, u, m)
  BY <1>2, <1>3 DEF SpendsOwn
<1>4. CASE PaymentsKept
  BY <1>3, <1>4 DEF PaymentsKept
<1>5. CASE CreditSeller(w) \/ StampMarket(w)
  <2>1. req[w].ticket \in Tickets /\ req[w].op = "place"
    BY <1>5, Served, Zenon DEF CreditSeller, StampMarket
  <2>2. PICK t \in Tickets : t = req[w].ticket
    BY <2>1
  <2>3. PICK v \in Users, n \in Markets : v = t.user /\ n = t.market
    BY TicketType
  <2>4. PICK due \in Nat : due = tx[w].due
    BY Typed DEF TxType
  <2>5. PICK p \in Wallet : p = purse[v]
    BY <1>1
  <2>6. PICK q : /\ \A x \in Users : purse'[x] = IF x = v THEN q ELSE purse[x]
                 /\ n # m => q.spent[m] = p.spent[m] /\ q.fees[m] = p.fees[m]
                 /\ pc[w] # "seller" => q.spent[m] = p.spent[m]
    <3>1. CASE CreditSeller(w)
      <4>1. PICK q : q = [p EXCEPT !.available = @ + due, !.spent[n] = @ - due]
        OBVIOUS
      <4>2. purse' = [purse EXCEPT ![v] = q] /\ pc[w] = "seller"
        BY <2>2, <2>3, <2>4, <2>5, <3>1, <4>1, Zenon DEF CreditSeller
      <4>3. n # m => q.spent[m] = p.spent[m] /\ q.fees[m] = p.fees[m]
        BY <4>1 DEF Wallet
      <4>. QED
        BY <1>1, <4>2, <4>3
    <3>2. CASE StampMarket(w)
      <4>1. PICK q : q = [p EXCEPT !.available = @ - due, !.fees[n] = @ + due]
        OBVIOUS
      <4>2. purse' = [purse EXCEPT ![v] = q]
        BY <2>2, <2>3, <2>4, <2>5, <3>2, <4>1 DEF StampMarket
      <4>3. q.spent[m] = p.spent[m] /\ (n # m => q.fees[m] = p.fees[m])
        BY <4>1 DEF Wallet
      <4>. QED
        BY <1>1, <4>2, <4>3
    <3>. QED
      BY <1>5, <3>1, <3>2
  <2>7. pc[w] # "seller" => purse'[u].spent[m] >= purse[u].spent[m]
    BY <1>2, <2>5, <2>6
  <2>. QED
    BY <1>3, <2>1, <2>2, <2>3, <2>5, <2>6, <2>7 DEF SpendsOwn, Spends
<1>6. ASSUME NEW r \in OrderIds, FillOrder(w, r) PROVE SpendsOwn(w, u, m)
  BY <1>6, FillSpends
<1>. QED
  BY <1>4, <1>5, <1>6, PaymentWriters

\* Where the book is empty wallets hold nothing back.
LEMMA NothingHeld ==
    ASSUME EngineInv, NEW w \in Workers, NEW u \in Users, Tallied(w, u),
           pc[w] \notin {"reserve", "unreserve", "release"},
           \A i \in OrderIds : ~Active(draft[i])
    PROVE  purse[u].reserved = 0
<1>1. PICK f \in [Row -> Int] : f = Tied(u)
  BY TiedType
<1>2. PICK a : a = [i \in OrderIds |-> f[draft[i]]]
  OBVIOUS
<1>3. \A i \in OrderIds : a[i] = 0
  BY <1>1, <1>2, Typed, TiedType
<1>4. IsFiniteSet(OrderIds)
  BY SeenInt, <1>1
<1>5. SumFunctionOnSet(a, OrderIds) = 0
  BY <1>3, <1>4, SumZero
<1>6. Seen(f) = 0
  BY <1>2, <1>5 DEF Seen
<1>7. Debt(w, u) = 0
  BY DEF Debt
<1>8. Fits(0 - (purse[u].reserved + 0))
  BY <1>1, <1>6, <1>7 DEF Tallied
<1>9. purse[u].reserved \in Nat
  BY Typed DEF Wallet
<1>. QED
  BY <1>8, <1>9 DEF Fits

\* Everything is available when a market that is alone claws back.
LEMMA AllAvailable ==
    ASSUME \A m, n \in Markets : m = n, RefundInv, NEW w \in Workers, pc[w] = "refund",
           NEW u \in tx[w].payees, NEW m \in Markets, m = req[w].market
    PROVE  purse[u].available = InitialFunds[u] - Outlay(purse[u], m)
<1>1. /\ EngineInv /\ BookSwept(w) /\ RefundedSoFar(w) /\ u \in Users
      /\ Explained(purse[u], InitialFunds[u]) /\ Tallied(w, u)
  <2>1. EngineInv
    BY DEF RefundInv, LedgerInv
  <2>2. u \in Users
    BY <2>1, Typed DEF TxType
  <2>. QED
    BY <2>1, <2>2 DEF RefundInv, LedgerInv, PaidInv, BooksInv, TallyInv
<1>2. req[w].op = "annul"
  BY <1>1, Served
<1>3. \A i \in OrderIds : ~Active(draft[i])
  <2>1. Unvisited(w) /\ Ids(tx[w].batch) = {}
    BY <1>1, <1>2 DEF BookSwept, Sweeping
  <2>2. \A i \in OrderIds : draft[i].ticket.market = m
    BY <1>1, Typed, TicketType DEF Row
  <2>. QED
    BY <2>1, <2>2 DEF Unvisited, Ids
<1>4. purse[u].reserved = 0
  BY <1>1, <1>3, NothingHeld
<1>5. purse[u].won[m] = 0
  BY <1>1, <1>2 DEF RefundedSoFar, Unrefunded
<1>6. PICK p \in Wallet : p = purse[u]
  BY <1>1, Typed
<1>7. p \in Drawn
  BY <1>6, WalletIsDrawn
<1>8. PICK f : f = Gained(p)
  OBVIOUS
<1>9. f[m] = 0 - Outlay(p, m) /\ \A n \in Markets : f[n] \in Int
  BY <1>5, <1>6, <1>7, <1>8, GainedType DEF Outlay
<1>10. SumFunctionOnSet(f, Markets) = f[m]
  <2>1. Markets \ {m} = {}
    OBVIOUS
  <2>2. SumFunctionOnSet(f, Markets) = f[m] + SumFunctionOnSet(f, Markets \ {m})
    BY <1>9, FiniteAssumption, SumMember
  <2>3. SumFunctionOnSet(f, {}) = 0
    BY SumEmpty
  <2>4. SumFunctionOnSet(f, Markets) = f[m] + 0 /\ f[m] \in Int
    BY <1>9, <2>1, <2>2, <2>3
  <2>. QED
    BY <2>4
<1>11. Total(p) = InitialFunds[u] + f[m]
  BY <1>1, <1>6, <1>8, <1>10 DEF Explained
<1>12. p.available \in Int /\ Outlay(p, m) \in Int /\ InitialFunds[u] \in Int
  BY <1>1, <1>7, GainedType, FundsAssumption DEF Outlay
<1>. QED
  <2>1. p.available + p.reserved = InitialFunds[u] + f[m]
    BY <1>11 DEF Total
  <2>2. p.available + 0 = InitialFunds[u] + (0 - Outlay(p, m))
    BY <1>4, <1>6, <1>9, <2>1
  <2>3. PICK a \in Int, b \in Int, c \in Int :
           a = p.available /\ b = InitialFunds[u] /\ c = Outlay(p, m)
    BY <1>12
  <2>4. a = b - c
    BY <2>2, <2>3
  <2>. QED
    BY <1>6, <2>3, <2>4

\* A cancellation that goes through pays or claws back the outlay.
LEMMA RefundWhole ==
    ASSUME OneMarketOrBids, RefundInv, NEW w \in Workers, NEW v \in Users, Refund(w, v),
           ~Rollback(w), NEW m \in Markets, m = req[w].market
    PROVE  purse' = [purse EXCEPT ![v].available = @ + Outlay(purse[v], m),
                                  ![v].won[m] = @ + Outlay(purse[v], m)]
<1>1. EngineInv /\ pc[w] = "refund" /\ v \in tx[w].payees
  BY DEF RefundInv, LedgerInv, Refund
<1>2. PICK p \in Wallet : p = purse[v]
  BY <1>1, Typed
<1>3. PICK outlay \in Int : outlay = Outlay(p, m)
  BY <1>2, OutlayType
<1>4. PICK amount : amount = IF outlay > 0 THEN outlay ELSE -Smaller(-outlay, p.available)
  OBVIOUS
<1>5. /\ amount # 0
      /\ purse' = [purse EXCEPT ![v].available = @ + amount, ![v].won[m] = @ + amount]
  BY <1>2, <1>3, <1>4 DEF Refund
<1>6. p.available \in Nat
  BY DEF Wallet
<1>7. amount = outlay
  <2>1. CASE outlay > 0
    BY <1>4, <2>1
  <2>2. ASSUME outlay <= 0, \A m1, n1 \in Markets : m1 = n1 PROVE amount = outlay
    <3>1. p.available = InitialFunds[v] - outlay /\ InitialFunds[v] \in Nat
      BY <1>1, <1>2, <1>3, <2>2, AllAvailable, FundsAssumption
    <3>2. \A x \in Int : -x = 0 - x
      OBVIOUS
    <3>3. PICK back \in Nat : back = 0 - outlay
      BY <2>2
    <3>4. -outlay = back /\ back <= p.available
      BY <3>1, <3>2, <3>3
    <3>5. Smaller(-outlay, p.available) = back
      BY <3>4 DEF Smaller
    <3>6. amount = -back
      BY <1>4, <2>2, <3>5
    <3>7. -back = 0 - back
      BY <3>2
    <3>. QED
      BY <3>3, <3>6, <3>7
  <2>3. ASSUME outlay <= 0, \A t \in Tickets : Buys(t) PROVE amount = outlay
    <3>1. p.spent[m] >= 0 /\ p.spent[m] \in Int /\ p.fees[m] \in Nat
      BY <1>2, <2>3 DEF RefundInv, OnlyPays, Wallet
    <3>2. outlay = 0
      BY <1>3, <2>3, <3>1 DEF Outlay
    <3>3. \A x \in Int : -x = 0 - x
      OBVIOUS
    <3>4. PICK z \in Int : z = -outlay
      OBVIOUS
    <3>5. z = 0
      <4>1. z = 0 - outlay
        BY <3>3, <3>4
      <4>. QED
        BY <3>2, <4>1
    <3>6. Smaller(z, p.available) = z
      BY <1>6, <3>5 DEF Smaller
    <3>7. amount = -z
      BY <1>4, <2>3, <3>4, <3>6
    <3>8. amount = 0
      <4>1. amount = 0 - z
        BY <3>3, <3>4, <3>7
      <4>. QED
        BY <3>5, <4>1
    <3>. QED
      BY <1>5, <3>8
  <2>. QED
    BY <2>1, <2>2, <2>3 DEF OneMarketOrBids
<1>. QED
  BY <1>2, <1>3, <1>5, <1>7

LEMMA RefundPaid ==
    ASSUME OneMarketOrBids, RefundInv, NEW w \in Workers, NEW v \in Users, Refund(w, v),
           ~Rollback(w)
    PROVE  RefundedSoFar(w)'
<1>1. EngineInv /\ RefundedSoFar(w)
  BY DEF RefundInv, LedgerInv
<1>2. PICK m \in Markets : m = req[w].market /\ req[w].op = "annul"
  BY <1>1, Served DEF Refund
<1>3. pc[w] = "refund" /\ v \in tx[w].payees /\ pc' = pc /\ req' = req
  BY DEF Refund
<1>4. tx'[w].payees = tx[w].payees \ {v}
  BY <1>1, Typed DEF Refund, TxType
<1>5. \A u \in Users :
         purse[u].won[m] = IF u \in tx[w].payees THEN 0 ELSE Outlay(purse[u], m)
  BY <1>1, <1>2, <1>3 DEF RefundedSoFar, Unrefunded
<1>6. PICK p \in Wallet : p = purse[v]
  BY <1>1, Typed
<1>7. PICK outlay \in Int : outlay = Outlay(p, m)
  BY <1>6, OutlayType
<1>8. PICK q : q = [p EXCEPT !.available = @ + outlay, !.won[m] = @ + outlay]
  OBVIOUS
<1>9. purse' = [purse EXCEPT ![v] = q]
  <2>1. purse' = [purse EXCEPT ![v].available = @ + Outlay(purse[v], m),
                               ![v].won[m] = @ + Outlay(purse[v], m)]
    BY <1>2, RefundWhole
  <2>2. purse' = [purse EXCEPT ![v].available = @ + outlay, ![v].won[m] = @ + outlay]
    BY <1>6, <1>7, <2>1
  <2>. QED
    BY <1>6, <1>8, <2>2
<1>10. p.won[m] = 0 /\ p.won[m] \in Int
  BY <1>3, <1>5, <1>6 DEF Wallet
<1>11. q.won[m] = outlay /\ Outlay(q, m) = outlay
  <2>1. q.won = [p.won EXCEPT ![m] = @ + outlay] /\ q.spent = p.spent /\ q.fees = p.fees
    BY <1>8 DEF Wallet
  <2>2. q.won[m] = p.won[m] + outlay
    BY <2>1 DEF Wallet
  <2>. QED
    BY <1>7, <1>10, <2>1, <2>2 DEF Outlay
<1>12. \A u \in Users : purse'[u] = IF u = v THEN q ELSE purse[u]
  BY <1>1, <1>9, Typed
<1>13. \A u \in Users :
          purse'[u].won[m] = IF u \in tx'[w].payees THEN 0 ELSE Outlay(purse'[u], m)
  BY <1>4, <1>5, <1>11, <1>12
<1>. QED
  BY <1>2, <1>3, <1>13 DEF RefundedSoFar, Unrefunded

LEMMA RefundsStep ==
    ASSUME OneWorker, OneMarketOrBids, RefundInv, NEW w \in Workers, Step(w),
           ~Rollback(w), ~Commit(w)
    PROVE  RefundedSoFar(w)'
<1>1. EngineInv /\ LocksInv /\ RefundedSoFar(w)
  BY DEF RefundInv, PaidInv, BooksInv, LocksInv, RowsInv
<1>2. req'[w] = req[w] /\ pc \in [Workers -> Statement] /\ tx \in [Workers -> TxType]
  BY <1>1, StepRequest, Typed
<1>3. CASE req[w].op # "annul"
  BY <1>2, <1>3 DEF RefundedSoFar
<1>4. ASSUME req[w].op = "annul" PROVE AnnulStep(w)
  <2>1. ~PlaceStep(w)
    BY <1>1, <1>4, StepRequest
  <2>2. ~CancelStep(w)
    BY <1>1, <1>4, Served DEF CancelStep, CancelOrder, Unreserve
  <2>3. ~SettleStep(w)
    BY <1>1, <1>4, Served, Zenon DEF SettleStep, Snapshot, SweepOrder, ReleaseSwept, StartPayout,
                              Assess, PayWinner, FinishSettle
  <2>. QED
    BY <2>1, <2>2, <2>3 DEF Step
<1>5. CASE LockForAnnul(w)
  <2>1. PICK m \in Markets : m = req[w].market
    BY <1>1, <1>5, Served DEF LockForAnnul
  <2>2. pc[w] = "annul" /\ pc'[w] = "wallet" /\ purse' = purse /\ Settleable(m)
    BY <1>2, <1>5, <2>1 DEF LockForAnnul, Goto, walletVars, Settleable
  <2>3. \A u \in Users : wallets[u].won[m] = 0
    BY <2>2 DEF RefundInv, PaidInv, PaidUp
  <2>4. req[w].op = "annul"
    BY <1>1, <1>5, Served DEF LockForAnnul
  <2>5. \A u \in Users : purse[u].won[m] = 0
    BY <1>1, <2>1, <2>2, <2>3, <2>4 DEF RefundedSoFar
  <2>. QED
    BY <1>2, <2>1, <2>2, <2>5 DEF RefundedSoFar
<1>6. ASSUME NEW i \in OrderIds, LockForVoid(w, i) \/ VoidOrder(w, i)
      PROVE  RefundedSoFar(w)'
  <2>1. pc[w] \in {"wallet", "void"} /\ pc'[w] \in {"wallet", "void"} /\ req[w].op = "annul"
    BY <1>1, <1>2, <1>6, Served, Zenon DEF LockForVoid, VoidOrder, Goto
  <2>2. \A u \in Users : ~PayWinner(w, u) /\ ~Refund(w, u)
    BY <2>1 DEF PayWinner, Refund
  <2>3. \A u \in Users : purse'[u].won = purse[u].won
    BY <1>1, <2>2, PayoutsPay
  <2>. QED
    BY <1>1, <1>2, <2>1, <2>3 DEF RefundedSoFar
<1>7. CASE StartRefund(w)
  <2>1. PICK m \in Markets : m = req[w].market /\ req[w].op = "annul"
    BY <1>1, <1>7, Served DEF StartRefund
  <2>2. pc[w] = "wallet" /\ pc'[w] = "refund" /\ purse' = purse
    BY <1>2, <1>7 DEF StartRefund, Goto, walletVars
  <2>3. tx'[w].payees = {u \in Users : Outlay(WalletSeenBy(w, u), m) # 0}
    BY <1>2, <1>7, <2>1 DEF StartRefund, TxType
  <2>4. \A u \in Users : u \in tx'[w].payees <=> Outlay(purse[u], m) # 0
    <3>1. \A u \in Users : WalletSeenBy(w, u) = purse[u]
      BY <1>1, SoleHolder
    <3>. QED
      BY <2>3, <3>1
  <2>5. \A u \in Users : purse[u].won[m] = 0
    BY <1>1, <2>1, <2>2 DEF RefundedSoFar
  <2>6. \A u \in Users :
           purse'[u].won[m] = IF u \in tx'[w].payees THEN 0 ELSE Outlay(purse'[u], m)
    BY <2>2, <2>4, <2>5
  <2>. QED
    BY <1>2, <2>1, <2>2, <2>6 DEF RefundedSoFar, Unrefunded
<1>8. ASSUME NEW u \in Users, Refund(w, u) PROVE RefundedSoFar(w)'
  BY <1>8, RefundPaid
<1>9. CASE FinishAnnul(w)
  <2>1. /\ pc[w] = "refund" /\ pc'[w] = "commit" /\ purse' = purse /\ tx[w].payees = {}
        /\ req[w].op = "annul"
    BY <1>1, <1>2, <1>9, Served DEF FinishAnnul, Goto, walletVars
  <2>. QED
    BY <1>1, <1>2, <2>1 DEF RefundedSoFar, Unrefunded
<1>. QED
  BY <1>3, <1>4, <1>5, <1>6, <1>7, <1>8, <1>9 DEF AnnulStep

\* A cancellation starts with the wallets as they are committed.
LEMMA RefundBegins ==
    ASSUME RefundInv, NEW w \in Workers, Start(w)
    PROVE  /\ RefundedSoFar(w)'
           /\ \A m \in Markets, u \in Users : Outlay(purse'[u], m) = Outlay(wallets'[u], m)
<1>1. EngineInv
  BY DEF RefundInv, LedgerInv
<1>2. purse' = purse /\ wallets' = wallets
  BY DEF Start, StartPlace, StartCancel, StartSettle, StartAnnul, walletVars
<1>3. req[w] = NoRequest
  BY <1>1, StartRequest
<1>4. \A m \in Markets, u \in Users : /\ purse[u].won[m] = wallets[u].won[m]
                                      /\ Outlay(purse[u], m) = Outlay(wallets[u], m)
  <2>1. \A m \in Markets : ~Ends(w, m) /\ ~Spends(w, m)
    BY <1>3 DEF NoRequest, Ends, Spends
  <2>. QED
    BY <2>1 DEF RefundInv, PaidInv
<1>5. ASSUME req'[w].op = "annul" PROVE RefundedSoFar(w)'
  <2>1. req \in [Workers -> Request] /\ pc \in [Workers -> Statement]
    BY <1>1, Typed
  <2>2. PICK m \in Markets : StartAnnul(w, m)
    BY <1>5, <2>1 DEF Start, StartPlace, StartCancel, StartSettle
  <2>3. req'[w].market = m /\ pc'[w] = "annul"
    BY <2>1, <2>2 DEF StartAnnul, Goto
  <2>. QED
    BY <1>2, <1>4, <2>3 DEF RefundedSoFar
<1>. QED
  BY <1>2, <1>4, <1>5 DEF RefundedSoFar

LEMMA RefundInit == Init => RefundInv
<1> SUFFICES ASSUME Init PROVE RefundInv
  OBVIOUS
<1>1. PaidInv /\ LedgerInv /\ TallyInv
  BY PaidInit, LedgerInit, TallyInit
<1>2. ASSUME NEW u \in Users
      PROVE  /\ purse[u] = wallets[u]
             /\ \A m \in Markets : wallets[u].spent[m] = 0
  BY <1>2 DEF Init, NewWallet
<1>3. OnlyPays
  BY <1>2 DEF OnlyPays
<1>4. \A m \in Markets : Refunded(m)
  BY DEF Init, Refunded
<1>5. ASSUME NEW w \in Workers
      PROVE  RefundedSoFar(w) /\ pc[w] # "seller"
  BY <1>5 DEF Init, NoRequest, RefundedSoFar
<1>. QED
  BY <1>1, <1>2, <1>3, <1>4, <1>5 DEF RefundInv

\* What a statement leaves of the bookkeeping around a cancellation.
LEMMA RefundStep ==
    ASSUME OneWorker, OneMarketOrBids, RefundInv, EngineInv', NEW w \in Workers,
           Start(w) \/ Step(w), ~Rollback(w), ~Commit(w)
    PROVE  /\ OnlyPays'
           /\ \A m \in Markets : Refunded(m)'
           /\ RefundedSoFar(w)'
           /\ pc'[w] = "seller" => ~Buys(req'[w].ticket)
           /\ \A m \in Markets, u \in Users :
                 Spends(w, m)' \/ Outlay(purse'[u], m) = Outlay(wallets'[u], m)
<1>1. EngineInv /\ LocksInv
  BY DEF RefundInv, PaidInv, BooksInv, LocksInv, RowsInv
<1>2. wallets' = wallets /\ market' = market
  BY PurseWriters, MarketKept
<1>3. \A m \in Markets : Refunded(m)'
  BY <1>2 DEF RefundInv, Refunded
<1>4. \A u \in Users, m \in Markets : SpendsOwn(w, u, m)
  BY <1>1, SpendsStep
<1>5. OnlyPays'
  <2> SUFFICES ASSUME \A t \in Tickets : Buys(t), NEW u \in Users, NEW m \in Markets
               PROVE  purse'[u].spent[m] >= 0 /\ wallets'[u].spent[m] >= 0
    BY DEF OnlyPays
  <2>1. purse[u].spent[m] >= 0 /\ wallets[u].spent[m] >= 0
    BY DEF RefundInv, OnlyPays
  <2>2. pc[w] # "seller"
    <3>1. pc[w] = "seller" => ~Buys(req[w].ticket) /\ req[w].ticket \in Tickets
      BY <1>1, Served DEF RefundInv
    <3>. QED
      BY <3>1
  <2>3. purse'[u].spent[m] >= purse[u].spent[m]
    BY <1>4, <2>2 DEF SpendsOwn
  <2>4. purse'[u].spent[m] \in Int /\ purse[u].spent[m] \in Int
    <3>1. purse[u] \in Wallet
      BY <1>1, Typed
    <3>2. purse'[u] \in Wallet
      BY DEF EngineInv, TypeOK
    <3>. QED
      BY <3>1, <3>2 DEF Wallet
  <2>. QED
    BY <1>2, <2>1, <2>3, <2>4
<1>6. CASE Start(w)
  <2>1. /\ RefundedSoFar(w)'
        /\ \A m \in Markets, u \in Users : Outlay(purse'[u], m) = Outlay(wallets'[u], m)
    BY <1>6, RefundBegins
  <2>2. pc'[w] # "seller"
    BY <1>1, <1>6, StartRequest
  <2>. QED
    BY <1>3, <1>5, <2>1, <2>2
<1>7. CASE Step(w)
  <2>1. req'[w] = req[w]
    BY <1>1, <1>7, StepRequest
  <2>2. RefundedSoFar(w)'
    BY <1>7, RefundsStep
  <2>3. pc'[w] = "seller" => ~Buys(req'[w].ticket)
    BY <1>1, <2>1, SellerSteps
  <2>4. ASSUME NEW m \in Markets, NEW u \in Users
        PROVE  Spends(w, m)' \/ Outlay(purse'[u], m) = Outlay(wallets'[u], m)
    <3>1. Spends(w, m)' <=> Spends(w, m)
      BY <2>1 DEF Spends
    <3>2. Spends(w, m) \/ Outlay(purse[u], m) = Outlay(wallets[u], m)
      BY DEF RefundInv
    <3>3. Spends(w, m) \/ Outlay(purse'[u], m) = Outlay(purse[u], m)
      BY <1>4 DEF SpendsOwn, Outlay
    <3>. QED
      BY <1>2, <3>1, <3>2, <3>3
  <2>. QED
    BY <1>3, <1>5, <2>2, <2>3, <2>4
<1>. QED
  BY <1>6, <1>7

\* A cancellation commits once everyone is paid back, and nothing is bought or paid on
\* the market afterwards.
LEMMA CommitRefunds ==
    ASSUME OneWorker, RefundInv, NEW w \in Workers, Commit(w), NEW m \in Markets
    PROVE  Refunded(m)'
<1>1. LocksInv /\ EngineInv /\ MarketLasts(w) /\ RefundedSoFar(w) /\ Refunded(m)
  BY DEF RefundInv, PaidInv, BooksInv, LocksInv, RowsInv
<1>2. \A u \in Users : wallets'[u] = purse[u]
  BY <1>1, ViewCommitted
<1>3. market'[m] = FinalStatus(req[w], m) /\ pc[w] = "commit"
  BY DEF Commit
<1>4. SUFFICES ASSUME market'[m] = "cancelled", NEW u \in Users
               PROVE  purse[u].won[m] = Outlay(purse[u], m)
  BY <1>2 DEF Refunded
<1>5. CASE req[w].op = "annul" /\ req[w].market = m
  <2>1. Unrefunded(w) = {}
    BY <1>3 DEF Unrefunded
  <2>. QED
    BY <1>1, <1>3, <1>5, <2>1 DEF RefundedSoFar
<1>6. CASE req[w].op = "settle" /\ req[w].market = m
  BY <1>3, <1>4, <1>6 DEF FinalStatus
<1>7. CASE ~Ends(w, m)
  <2>1. market[m] = "cancelled"
    BY <1>3, <1>4, <1>7 DEF FinalStatus, Ends
  <2>2. wallets[u].won[m] = Outlay(wallets[u], m)
    BY <1>1, <2>1 DEF Refunded
  <2>3. purse[u].won[m] = wallets[u].won[m]
    BY <1>7 DEF RefundInv, PaidInv
  <2>4. ~Spends(w, m)
    BY <1>1, <2>1 DEF MarketLasts, Spends, Settleable
  <2>5. Outlay(purse[u], m) = Outlay(wallets[u], m)
    BY <2>4 DEF RefundInv
  <2>. QED
    BY <2>2, <2>3, <2>5
<1>. QED
  BY <1>5, <1>6, <1>7 DEF Ends

LEMMA RefundNext == OneWorker /\ OneMarketOrBids /\ RefundInv /\ [Next]_vars => RefundInv'
<1> SUFFICES ASSUME OneWorker, OneMarketOrBids, RefundInv, [Next]_vars PROVE RefundInv'
  OBVIOUS
<1>1. PaidInv' /\ LedgerInv' /\ TallyInv'
  BY PaidNext, LedgerNext, TallyNext DEF RefundInv
<1>2. /\ EngineInv /\ LocksInv /\ EngineInv' /\ LocksInv'
  BY <1>1 DEF RefundInv, PaidInv, BooksInv, LocksInv, RowsInv
<1>3. ASSUME NEW w \in Workers, (Start(w) \/ Step(w)) /\ ~Rollback(w) /\ ~Commit(w)
      PROVE  RefundInv'
  <2>1. \A v \in Workers : v = w
    BY DEF OneWorker
  <2>2. /\ OnlyPays'
        /\ \A m \in Markets : Refunded(m)'
        /\ RefundedSoFar(w)'
        /\ pc'[w] = "seller" => ~Buys(req'[w].ticket)
        /\ \A m \in Markets, u \in Users :
              Spends(w, m)' \/ Outlay(purse'[u], m) = Outlay(wallets'[u], m)
    BY <1>2, <1>3, RefundStep
  <2>. QED
    BY <1>1, <2>1, <2>2 DEF RefundInv
<1>4. ASSUME NEW w \in Workers, Rollback(w) \/ Commit(w) PROVE RefundInv'
  <2>1. \A v \in Workers : v = w
    BY DEF OneWorker
  <2>2. req'[w] = NoRequest /\ pc'[w] = "idle"
    BY <1>2, <1>4, Typed DEF Rollback, Commit, EndRequest, Goto
  <2>3. \A u \in Users : purse'[u] = wallets'[u]
    BY <1>2, <1>4, OneVersion
  <2>4. RefundedSoFar(w)'
    BY <2>2 DEF NoRequest, RefundedSoFar
  <2>5. \A u \in Users : wallets'[u] \in {purse[u], wallets[u]}
    BY <1>2, <1>4, ViewCommitted, ViewDropped
  <2>6. OnlyPays'
    BY <2>3, <2>5 DEF RefundInv, OnlyPays
  <2>7. ASSUME NEW m \in Markets PROVE Refunded(m)'
    <3>1. CASE Rollback(w)
      <4>1. market' = market /\ wallets' = wallets
        BY <3>1 DEF Rollback
      <4>. QED
        BY <4>1 DEF RefundInv, Refunded
    <3>2. CASE Commit(w)
      BY <3>2, CommitRefunds
    <3>. QED
      BY <1>4, <3>1, <3>2
  <2>8. \A m \in Markets, u \in Users : Outlay(purse'[u], m) = Outlay(wallets'[u], m)
    BY <2>3
  <2>. QED
    BY <1>1, <2>1, <2>2, <2>4, <2>6, <2>7, <2>8 DEF RefundInv
<1>5. ASSUME UNCHANGED <<orders, draft, owner, wallets, purse, holder, keeper, pc, req, tx>>,
             \A w \in Workers : ~Commit(w)
      PROVE  RefundInv'
  <2>1. \A m \in Markets :
           market'[m] = market[m] \/ (market[m] = "open" /\ market'[m] = "closed")
    BY <1>2, <1>5, MarketSteps
  <2>2. \A m \in Markets : Refunded(m)'
    BY <1>5, <2>1 DEF RefundInv, Refunded
  <2>3. OnlyPays'
    BY <1>5 DEF RefundInv, OnlyPays
  <2>4. ASSUME NEW w \in Workers
        PROVE  /\ RefundedSoFar(w)'
               /\ pc'[w] = "seller" => ~Buys(req'[w].ticket)
               /\ \A m \in Markets, u \in Users :
                     Spends(w, m)' \/ Outlay(purse'[u], m) = Outlay(wallets'[u], m)
    <3>1. RefundedSoFar(w)'
      BY <1>5 DEF RefundInv, RefundedSoFar, Unrefunded
    <3>. QED
      BY <1>5, <3>1 DEF RefundInv, Spends
  <2>. QED
    BY <1>1, <2>2, <2>3, <2>4 DEF RefundInv
<1>. QED
  BY <1>3, <1>4, <1>5, EngineSteps

\* Once every market is cancelled nothing is tied up and everything is paid back.
LEMMA AllBack ==
    ASSUME RefundInv, \A m \in Markets : market[m] = "cancelled", NEW u \in Users
    PROVE  wallets[u].available = InitialFunds[u] /\ wallets[u].reserved = 0
<1>1. /\ EngineInv
      /\ Explained(wallets[u], InitialFunds[u])
      /\ Fits(Booked(Tied(u)) - wallets[u].reserved)
      /\ \A i \in OrderIds : OnLiveBook(orders[i])
  BY DEF RefundInv, LedgerInv, TallyInv, PaidInv, BooksInv
<1>2. PICK p \in Wallet : p = wallets[u]
  BY <1>1, Typed
<1>3. orders \in [OrderIds -> Row] /\ IsFiniteSet(OrderIds)
  BY <1>1, Typed, MaxOrdersAssumption, FS_Interval DEF OrderIds
<1>4. \A i \in OrderIds : ~Active(orders[i])
  <2>1. \A i \in OrderIds : Active(orders[i]) => orders[i].ticket.market \in Markets
    BY <1>3, TicketType DEF Row
  <2>. QED
    BY <1>1, <2>1 DEF OnLiveBook, Settleable
<1>5. p.reserved = 0
  <2>1. PICK f \in [Row -> Int] : f = Tied(u)
    BY TiedType
  <2>2. PICK a : a = [i \in OrderIds |-> f[orders[i]]]
    OBVIOUS
  <2>3. \A i \in OrderIds : a[i] = 0
    BY <1>3, <1>4, <2>1, <2>2, TiedType
  <2>4. SumFunctionOnSet(a, OrderIds) = 0
    BY <1>3, <2>3, SumZero
  <2>5. Booked(f) = 0
    BY <2>2, <2>4 DEF Booked
  <2>6. Fits(0 - p.reserved)
    BY <1>1, <1>2, <2>1, <2>5
  <2>. QED
    BY <2>6 DEF Fits, Wallet
<1>6. p.available = InitialFunds[u]
  <2>1. \A m \in Markets : p.won[m] = Outlay(p, m)
    BY <1>2 DEF RefundInv, Refunded
  <2>2. \A m \in Markets : p.won[m] \in Int
    BY DEF Wallet
  <2>3. PICK f : f = Gained(p)
    OBVIOUS
  <2>4. \A m \in Markets : f[m] = 0
    BY <2>1, <2>2, <2>3 DEF Gained
  <2>5. SumFunctionOnSet(f, Markets) = 0
    BY <2>4, FiniteAssumption, SumZero
  <2>6. Total(p) = InitialFunds[u] + 0
    BY <1>1, <1>2, <2>3, <2>5 DEF Explained
  <2>7. p.available \in Int /\ InitialFunds[u] \in Int
    BY FundsAssumption DEF Wallet
  <2>8. p.available + 0 = InitialFunds[u] + 0
    BY <1>5, <2>6 DEF Total
  <2>. QED
    BY <2>7, <2>8
<1>. QED
  BY <1>2, <1>5, <1>6

\* While requests do not overlap, cancelling every market gives everyone all their money
\* back, fees included, and frees it: the orders are void, and every outlay is paid back
\* once.  With sells on two markets it need not be so, for a clawback stops at what is
\* available, and a user may have tied up in one market what was earned in the other.
THEOREM CancellationsMakeWhole ==
    ASSUME OneWorker, OneMarketOrBids
    PROVE  Spec => []MadeWhole
<1>1. RefundInv => MadeWhole
  BY AllBack DEF MadeWhole
<1>2. RefundInv /\ [Next]_vars => RefundInv'
  BY RefundNext
<1>. QED
  BY <1>1, <1>2, RefundInit, PTL DEF Spec

----------------------------------------------------------------------------
(***************************************************************************)
(* The platform can pay, through settlements and cancellations.            *)
(***************************************************************************)

SolventInv == RefundInv /\ BackedInv /\ PairInv

\* A settled market has paid out what its pairs were worth, which is no more than was
\* paid for them.
LEMMA SettledCovered ==
    ASSUME SolventInv, ContractsPair, NEW m \in Markets, market[m] = "settled"
    PROVE  Gains(m) + Payable(m) <= 0
<1>1. EngineInv /\ Backed(m) /\ PaidUp(m)
  BY DEF SolventInv, RefundInv, PaidInv, BackedInv, LocksInv, RowsInv
<1>2. PICK side \in Sides : \A u \in Users :
              wallets[u].won[m] = PayoutCents * Position(u, m, side)
  BY <1>1 DEF PaidUp
<1>3. PICK won : won = [u \in Users |-> wallets[u].won[m]]
  OBVIOUS
<1>4. PICK holding : holding = [u \in Users |-> Position(u, m, side)]
  OBVIOUS
<1>5. \A u \in Users : holding[u] \in Int
  <2>1. orders \in [OrderIds -> Row] /\ \A i \in OrderIds : RowOK(orders[i])
    BY <1>1, Typed DEF EngineInv, DraftsExtend
  <2>. QED
    BY <1>4, <2>1, PositionInt DEF Position
<1>6. won = [u \in Users |-> PayoutCents * holding[u]]
  BY <1>2, <1>3, <1>4
<1>7. SumFunctionOnSet(won, Users) = PayoutCents * SumFunctionOnSet(holding, Users)
  <2>1. PayoutCents \in Int
    BY DEF PayoutCents
  <2>. QED
    BY <1>5, <1>6, <2>1, FiniteAssumption, SumScaled
<1>8. SumFunctionOnSet(holding, Users) = Outstanding(m, side)
  BY <1>4 DEF Outstanding, SumFunction
<1>9. Outstanding(m, side) = Outstanding(m, "YES")
  BY DEF ContractsPair, Sides
<1>10. PICK x \in Int, y \in Int, z \in Int :
          x = Gains(m) /\ y = Outstanding(m, "YES") /\ z = Held(Paid(m))
  BY <1>1, MarketGains
<1>11. x + z = 100 * y
  BY <1>1, <1>3, <1>7, <1>8, <1>9, <1>10, MarketGains DEF PayoutCents
<1>12. Outstanding(m, "YES") = Booked(Contracts(m, "YES"))
  BY <1>1, OutstandingSum DEF Sides
<1>13. z >= 100 * y
  BY <1>1, <1>10, <1>12 DEF Backed, PayoutCents
<1>14. Payable(m) = 0
  BY DEF Payable, Settleable
<1>. QED
  BY <1>10, <1>11, <1>13, <1>14

\* On a cancelled market nobody has gained or lost anything.
LEMMA CancelledCovered ==
    ASSUME SolventInv, NEW m \in Markets, market[m] = "cancelled"
    PROVE  Gains(m) + Payable(m) <= 0
<1>1. EngineInv /\ Refunded(m)
  BY DEF SolventInv, RefundInv, PaidInv, BooksInv, LocksInv, RowsInv
<1>2. PICK gain : gain = [u \in Users |-> Gained(wallets[u])[m]]
  OBVIOUS
<1>3. ASSUME NEW u \in Users PROVE gain[u] = 0
  <2>1. PICK p : p = wallets[u]
    OBVIOUS
  <2>2. p \in Wallet
    BY <1>1, <2>1, Typed
  <2>3. PICK o \in Int : o = Outlay(p, m)
    BY <2>2, OutlayType
  <2>4. p.won[m] = o
    BY <1>1, <2>1, <2>3 DEF Refunded
  <2>5. Gained(p)[m] = o - o
    BY <2>3, <2>4 DEF Gained
  <2>. QED
    BY <1>2, <2>1, <2>3, <2>5
<1>4. SumFunctionOnSet(gain, Users) = 0
  BY <1>3, FiniteAssumption, SumZero
<1>5. Gains(m) = 0
  BY <1>2, <1>4 DEF Gains
<1>6. Payable(m) = 0
  BY DEF Payable, Settleable
<1>. QED
  BY <1>5, <1>6

LEMMA AllCovered ==
    ASSUME SolventInv, ContractsPair
    PROVE  Collateralised
<1>1. EngineInv /\ BackedInv /\ LedgerInv /\ \A m \in Markets : PaidUp(m)
  BY DEF SolventInv, RefundInv, PaidInv, BackedInv, LocksInv, RowsInv
<1>2. ASSUME NEW m \in Markets PROVE Gains(m) + Payable(m) <= 0
  <2>1. market[m] \in MarketStatus
    BY <1>1, Typed
  <2>2. CASE Settleable(m)
    BY <1>1, <2>2, LiveCovered DEF PaidUp
  <2>3. CASE market[m] = "settled"
    BY <2>3, SettledCovered
  <2>4. CASE market[m] = "cancelled"
    BY <2>4, CancelledCovered
  <2>. QED
    BY <2>1, <2>2, <2>3, <2>4 DEF MarketStatus, Settleable
<1>. QED
  BY <1>1, <1>2, Covered

LEMMA SolventInit == Init => SolventInv
  BY RefundInit, BackedInit, PairInit DEF SolventInv

LEMMA SolventNext == OneWorker /\ OneMarketOrBids /\ SolventInv /\ [Next]_vars => SolventInv'
  BY RefundNext, BackedNext, PairNext DEF SolventInv

\* While requests do not overlap, the platform can pay at any moment: what users hold,
\* with the payout of every pair of contracts on the markets that last, is at most what
\* they were granted.  A settled market has paid what was paid for its pairs, and a
\* cancelled one has given back what was paid and no more.
THEOREM PlatformStaysSolvent ==
    ASSUME OneWorker, OneMarketOrBids
    PROVE  Spec => []Collateralised
<1>1. SolventInv /\ ContractsPair => Collateralised
  BY AllCovered
<1>2. SolventInv /\ [Next]_vars => SolventInv'
  BY SolventNext
<1>. QED
  BY <1>1, <1>2, ContractsComeInPairs, SolventInit, PTL DEF Spec

=============================================================================

-------------------------- MODULE ClobTradeProofs --------------------------
(***************************************************************************)
(* Theorems about trading on the CLOB: the quantities of an order add up,  *)
(* the money behind the contracts suffices, the reserved columns are what  *)
(* the open bids still need, and FOK orders are filled or not at all.      *)
(* Some settlements and cancellations of markets are left out, which each  *)
(* theorem states.                                                         *)
(***************************************************************************)
EXTENDS ClobEngineProofs

----------------------------------------------------------------------------
(***************************************************************************)
(* What a statement may write to a row.                                    *)
(***************************************************************************)

\* The row i after a statement of w.
RowWritten(w, i) ==
    \/ draft'[i] = draft[i]
    \/ /\ ~Exists(draft[i])
       /\ \E t \in Tickets : draft'[i] = NewRow(t)
    \/ /\ Exists(draft[i]) /\ owner[i] = w
       /\ w \in Sharers(draft[i].ticket.market)
       /\ \E q \in Nat : q <= Unfilled(draft[i]) /\ draft'[i] = FillRow(draft[i], q)
    \/ Exists(draft[i]) /\ Unfilled(draft[i]) >= 0 /\ draft'[i] = CancelRemainder(draft[i])
    \/ Active(draft[i]) /\ draft'[i] = CancelRow(draft[i], draft[i])
    \/ /\ SweepOrder(w, i) \/ VoidOrder(w, i)
       /\ draft'[i] = CancelRow(draft[i], tx[w].batch[i])

\* A placement that has inserted its order shares the lock of its market.
LEMMA PlacementShares ==
    ASSUME NEW w \in Workers, req[w].op = "place", tx[w].order \in OrderIds,
           NEW m, req[w].ticket.market = m
    PROVE  w \in Sharers(m)
  BY MaxOrdersAssumption DEF Sharers, OrderIds

\* What is left of an order is cancelled, and no other row is written.
LEMMA DropWrites ==
    ASSUME EngineInv, NEW w \in Workers, req[w].op = "place", tx[w].order \in OrderIds,
           NEW S, DropRemainder(w, S), ~Rollback(w), NEW i \in OrderIds
    PROVE  RowWritten(w, i)
<1>1. PICK k \in OrderIds : k = tx[w].order
  OBVIOUS
<1>2. draft[k] \in Row /\ Exists(draft[k]) /\ Unfilled(draft[k]) \in Nat
  BY <1>1, OwnRow
<1>3. draft' = [draft EXCEPT ![k] = CancelRemainder(draft[k])]
  BY <1>1 DEF DropRemainder
<1>4. draft'[i] = IF i = k THEN CancelRemainder(draft[k]) ELSE draft[i]
  BY <1>3, Typed
<1>. QED
  BY <1>2, <1>4 DEF RowWritten

LEMMA FillWrites ==
    ASSUME RowsInv, NEW w \in Workers, NEW r \in OrderIds, FillOrder(w, r), ~Rollback(w),
           NEW i \in OrderIds
    PROVE  RowWritten(w, i)
<1>1. EngineInv /\ Counterparts(w)
  BY DEF RowsInv
<1>2. PICK k \in OrderIds, q \in Nat, t \in Tickets, own \in Row, resting \in Row :
         /\ k = tx[w].order /\ k # r /\ t = req[w].ticket
         /\ own = draft[k] /\ resting = draft[r] /\ resting = tx[w].batch[r]
         /\ own.ticket = t /\ Exists(own) /\ Exists(resting)
         /\ q = Smaller(Unfilled(own), Unfilled(resting))
         /\ q <= Unfilled(own) /\ q <= Unfilled(resting)
         /\ Unfilled(own) \in Nat \ {0} /\ Unfilled(resting) \in Nat \ {0}
         /\ draft' = [draft EXCEPT ![k] = FillRow(own, q), ![r] = FillRow(resting, q)]
         /\ Compatible(t, resting.ticket)
         /\ owner[k] = w /\ owner[r] = w
  BY <1>1, FilledRows
<1>3. req[w].op = "place"
  BY <1>1, Served, Zenon DEF FillOrder
<1>4. Counterpart(t, resting.ticket)
  BY <1>1, <1>2, <1>3 DEF Counterparts
<1>5. w \in Sharers(own.ticket.market) /\ w \in Sharers(resting.ticket.market)
  BY <1>2, <1>3, <1>4, PlacementShares DEF Counterpart
<1>6. /\ draft'[k] = FillRow(own, q) /\ draft'[r] = FillRow(resting, q)
      /\ \A j \in OrderIds \ {k, r} : draft'[j] = draft[j]
  BY <1>1, <1>2, Typed
<1>7. CASE i = k
  BY <1>2, <1>5, <1>6, <1>7 DEF RowWritten
<1>8. CASE i = r
  BY <1>2, <1>5, <1>6, <1>8 DEF RowWritten
<1>9. CASE i \notin {k, r}
  BY <1>6, <1>9 DEF RowWritten
<1>. QED
  BY <1>7, <1>8, <1>9

\* Whatever statement w runs, it treats each row in one of these ways.
LEMMA RowWrites ==
    ASSUME RowsInv, NEW w \in Workers, Start(w) \/ Step(w), ~Rollback(w), ~Commit(w),
           NEW i \in OrderIds
    PROVE  RowWritten(w, i)
<1>1. EngineInv
  BY DEF RowsInv
<1>2. CASE draft' = draft
  BY <1>2 DEF RowWritten
<1>3. CASE Insert(w)
  <2>1. req[w].ticket \in Tickets
    BY <1>1, <1>3, Served DEF Insert
  <2>2. PICK t \in Tickets : t = req[w].ticket
    BY <2>1
  <2>3. PICK k \in OrderIds : IsNextId(k) /\ draft' = [draft EXCEPT ![k] = NewRow(t)]
    BY <1>3, <2>2 DEF Insert
  <2>4. draft'[i] = IF i = k THEN NewRow(t) ELSE draft[i]
    BY <1>1, <2>3, Typed
  <2>. QED
    BY <2>3, <2>4 DEF RowWritten, IsNextId
<1>4. CASE Cross(w) \/ FinishPlace(w)
  <2>1. req[w].op = "place" /\ tx[w].order \in OrderIds
    BY <1>1, <1>4, Served DEF Cross, FinishPlace
  <2>2. draft' = draft \/ \E S : DropRemainder(w, S)
    BY <1>4 DEF Cross, FinishPlace, orderVars
  <2>. QED
    BY <1>1, <1>2, <2>1, <2>2, DropWrites
<1>5. ASSUME NEW r \in OrderIds, FillOrder(w, r) PROVE RowWritten(w, i)
  BY <1>5, FillWrites
<1>6. CASE CancelOrder(w)
  <2>1. req[w].order \in OrderIds
    BY <1>1, <1>6, Served DEF CancelOrder
  <2>2. PICK k \in OrderIds : k = req[w].order
    BY <2>1
  <2>3. Active(draft[k]) /\ draft' = [draft EXCEPT ![k] = CancelRow(draft[k], draft[k])]
    BY <1>6, <2>2 DEF CancelOrder
  <2>4. draft'[i] = IF i = k THEN CancelRow(draft[k], draft[k]) ELSE draft[i]
    BY <1>1, <2>3, Typed
  <2>. QED
    BY <2>3, <2>4 DEF RowWritten
<1>7. ASSUME NEW k \in OrderIds, SweepOrder(w, k) \/ VoidOrder(w, k) PROVE RowWritten(w, i)
  <2>1. draft' = [draft EXCEPT ![k] = CancelRow(draft[k], tx[w].batch[k])]
    BY <1>7, Zenon DEF SweepOrder, VoidOrder
  <2>2. draft'[i] = IF i = k THEN CancelRow(draft[k], tx[w].batch[k]) ELSE draft[i]
    BY <1>1, <2>1, Typed
  <2>. QED
    BY <1>7, <2>2 DEF RowWritten
<1>8. CASE Start(w)
  BY <1>2, <1>8 DEF Start, StartPlace, StartCancel, StartSettle, StartAnnul, orderVars
<1>9. CASE ReserveFunds(w) \/ CheckPosition(w) \/ Scan(w) \/ CreditSeller(w) \/ StampMarket(w)
  BY <1>2, <1>9 DEF ReserveFunds, CheckPosition, Scan, CreditSeller, StampMarket, orderVars
<1>10. CASE Unreserve(w) \/ ReleaseSwept(w)
  BY <1>2, <1>10, Zenon DEF Unreserve, ReleaseSwept, ReleaseFunds, orderVars
<1>11. CASE \/ Snapshot(w) \/ StartPayout(w) \/ FinishSettle(w)
            \/ \E u \in Users : Assess(w, u) \/ PayWinner(w, u)
  BY <1>2, <1>11 DEF Snapshot, StartPayout, FinishSettle, Assess, PayWinner, orderVars
<1>12. CASE \/ LockForAnnul(w) \/ StartRefund(w) \/ FinishAnnul(w)
            \/ \E k \in OrderIds : LockForVoid(w, k)
            \/ \E u \in Users : Refund(w, u)
  BY <1>2, <1>12 DEF LockForAnnul, StartRefund, FinishAnnul, LockForVoid, Refund, orderVars
<1>. QED
  BY <1>3, <1>4, <1>5, <1>6, <1>7, <1>8, <1>9, <1>10, <1>11, <1>12
     DEF Step, PlaceStep, CancelStep, SettleStep, AnnulStep

----------------------------------------------------------------------------
(***************************************************************************)
(* Who is asked what, and who holds a market row.                          *)
(***************************************************************************)

\* Requests are those that clients make.
Asked == \A w \in Workers : req[w].op \in Ops \cup {"none"}

LEMMA PlacementKeepsRequest ==
    ASSUME EngineInv, NEW w \in Workers, PlaceStep(w), ~Rollback(w)
    PROVE  /\ req' = req /\ req[w].op = "place"
           /\ Insert(w) \/ tx'[w].order = tx[w].order
<1>1. tx \in [Workers -> TxType]
  BY Typed
<1>2. CASE Insert(w)
  BY <1>2, Served DEF Insert
<1>3. CASE ReserveFunds(w) \/ CheckPosition(w)
  BY <1>3, Served DEF ReserveFunds, CheckPosition
<1>4. CASE Scan(w) \/ Cross(w)
  BY <1>1, <1>4, Served DEF Scan, Cross, DropRemainder, TxType
<1>5. ASSUME NEW r \in OrderIds, FillOrder(w, r) PROVE req' = req /\ tx'[w].order = tx[w].order
  BY <1>1, <1>5 DEF FillOrder, TxType
<1>6. CASE \E r \in OrderIds : FillOrder(w, r)
  BY <1>5, <1>6, Served DEF FillOrder
<1>7. CASE CreditSeller(w)
  <2>1. tx' = [tx EXCEPT ![w].due = 0] /\ req' = req /\ pc[w] = "seller"
    BY <1>7 DEF CreditSeller
  <2>. QED
    BY <1>1, <2>1, Served DEF TxType
<1>8. CASE StampMarket(w)
  <2>1. tx' = [tx EXCEPT ![w].due = 0] /\ req' = req /\ pc[w] = "stamp"
    BY <1>8, Zenon DEF StampMarket
  <2>. QED
    BY <1>1, <2>1, Served DEF TxType
<1>9. CASE FinishPlace(w)
  BY <1>9, Served DEF FinishPlace, DropRemainder
<1>. QED
  BY <1>2, <1>3, <1>4, <1>6, <1>7, <1>8, <1>9 DEF PlaceStep

LEMMA OtherKeepsRequest ==
    ASSUME EngineInv, NEW w \in Workers, ~Rollback(w),
           CancelStep(w) \/ SettleStep(w) \/ AnnulStep(w)
    PROVE  req' = req /\ req[w].op # "place"
<1>1. CASE CancelStep(w)
  BY <1>1, Served DEF CancelStep, CancelOrder, Unreserve, ReleaseFunds
<1>2. CASE SettleStep(w)
  BY <1>2, Served, Zenon DEF SettleStep, Snapshot, SweepOrder, ReleaseSwept, ReleaseFunds,
                      StartPayout, Assess, PayWinner, FinishSettle
<1>3. CASE AnnulStep(w)
  BY <1>3, Served, Zenon DEF AnnulStep, LockForAnnul, LockForVoid, VoidOrder, StartRefund,
                      Refund, FinishAnnul
<1>. QED
  BY <1>1, <1>2, <1>3

\* A request is taken on when there is none.
LEMMA StartRequest ==
    ASSUME EngineInv, NEW w \in Workers, Start(w)
    PROVE  /\ req[w] = NoRequest /\ tx[w] = NoTx /\ tx' = tx /\ pc[w] = "idle"
           /\ req'[w].op \in Ops /\ pc'[w] \in {"insert", "row", "snapshot", "annul"}
<1>1. req \in [Workers -> Request] /\ pc \in [Workers -> Statement]
  BY Typed
<1>2. ASSUME NEW t \in Tickets, StartPlace(w, t)
      PROVE  pc[w] = "idle" /\ tx' = tx /\ req'[w].op \in Ops /\ pc'[w] = "insert"
  BY <1>1, <1>2 DEF StartPlace, Goto
<1>3. ASSUME NEW i \in OrderIds, StartCancel(w, i)
      PROVE  pc[w] = "idle" /\ tx' = tx /\ req'[w].op \in Ops /\ pc'[w] = "row"
  BY <1>1, <1>3 DEF StartCancel, Goto
<1>4. ASSUME NEW m \in Markets, NEW outcome \in Sides, StartSettle(w, m, outcome)
      PROVE  pc[w] = "idle" /\ tx' = tx /\ req'[w].op \in Ops /\ pc'[w] = "snapshot"
  BY <1>1, <1>4 DEF StartSettle, Goto
<1>5. ASSUME NEW m \in Markets, StartAnnul(w, m)
      PROVE  pc[w] = "idle" /\ tx' = tx /\ req'[w].op \in Ops /\ pc'[w] = "annul"
  BY <1>1, <1>5 DEF StartAnnul, Goto
<1>6. /\ pc[w] = "idle" /\ tx' = tx /\ req'[w].op \in Ops
      /\ pc'[w] \in {"insert", "row", "snapshot", "annul"}
  BY <1>2, <1>3, <1>4, <1>5 DEF Start
<1>. QED
  BY <1>6, Served

LEMMA AskedInit == Init => Asked
  BY DEF Init, Asked, NoRequest

LEMMA AskedNext == EngineInv /\ Asked /\ [Next]_vars => Asked'
<1> SUFFICES ASSUME EngineInv, Asked, [Next]_vars PROVE Asked'
  OBVIOUS
<1>1. ASSUME NEW w \in Workers, Start(w) \/ Step(w) \/ Rollback(w) \/ Commit(w),
             req'[w].op \in Ops \cup {"none"}
      PROVE  Asked'
  BY <1>1, OthersLocal DEF Asked
<1>2. ASSUME NEW w \in Workers, Rollback(w) \/ Commit(w) PROVE Asked'
  <2>1. req'[w] = NoRequest
    BY <1>2, Typed DEF Rollback, Commit, EndRequest
  <2>. QED
    BY <1>1, <1>2, <2>1 DEF NoRequest
<1>3. ASSUME NEW w \in Workers, (Start(w) \/ Step(w)) /\ ~Rollback(w) /\ ~Commit(w)
      PROVE  Asked'
  <2>1. CASE Start(w)
    BY <1>1, <2>1, StartRequest
  <2>2. CASE Step(w)
    <3>1. req' = req
      BY <1>3, <2>2, PlacementKeepsRequest, OtherKeepsRequest DEF Step
    <3>. QED
      BY <1>1, <2>2, <3>1 DEF Asked
  <2>. QED
    BY <1>3, <2>1, <2>2
<1>4. CASE UNCHANGED <<orders, draft, owner, wallets, purse, holder, keeper, pc, req, tx>>
  BY <1>4 DEF Asked
<1>. QED
  BY <1>2, <1>3, <1>4, EngineSteps

\* A worker shares the lock of a market row from its INSERT to the end of its
\* transaction.
LEMMA SharersMove ==
    ASSUME EngineInv, NEW w \in Workers, Start(w) \/ Step(w), ~Rollback(w), ~Commit(w),
           NEW v \in Workers, NEW m
    PROVE  /\ v \in Sharers(m) => v \in Sharers(m)'
           /\ v \in Sharers(m)' => \/ v \in Sharers(m)
                                   \/ v = w /\ Insert(w) /\ req[w].ticket.market = m
<1>1. CASE v # w
  BY <1>1, OthersLocal DEF Sharers
<1>2. CASE v = w /\ Start(w)
  <2>1. req[w].op = "none" /\ tx'[w].order = 0
    BY <1>2, StartRequest DEF NoRequest, NoTx
  <2>. QED
    BY <1>2, <2>1 DEF Sharers
<1>3. CASE v = w /\ PlaceStep(w)
  <2>1. /\ req' = req /\ req[w].op = "place"
        /\ Insert(w) \/ tx'[w].order = tx[w].order
    BY <1>3, PlacementKeepsRequest
  <2>2. CASE Insert(w)
    <3>1. tx[w].order = 0
      BY <2>2, Served DEF Insert, NoTx
    <3>. QED
      BY <1>3, <2>1, <2>2, <3>1 DEF Sharers
  <2>3. CASE tx'[w].order = tx[w].order
    BY <1>3, <2>1, <2>3 DEF Sharers
  <2>. QED
    BY <2>1, <2>2, <2>3
<1>4. CASE v = w /\ (CancelStep(w) \/ SettleStep(w) \/ AnnulStep(w))
  BY <1>4, OtherKeepsRequest DEF Sharers
<1>. QED
  BY <1>1, <1>2, <1>3, <1>4 DEF Step

\* A market row is locked when nobody else has it.
LEMMA KeeperMoves ==
    ASSUME EngineInv, NEW w \in Workers, Start(w) \/ Step(w), ~Rollback(w), ~Commit(w),
           NEW m \in Markets
    PROVE  keeper'[m] = keeper[m] \/ (MarketFree(w, m) /\ keeper'[m] = w)
<1>1. keeper \in [Markets -> Workers \cup {Nobody}]
  BY Typed
<1>2. CASE UNCHANGED keeper
  BY <1>2
<1>3. CASE StampMarket(w)
  BY <1>1, <1>3, Zenon DEF StampMarket, LockMarket
<1>4. CASE FinishSettle(w)
  BY <1>1, <1>4 DEF FinishSettle, LockMarket
<1>5. CASE LockForAnnul(w)
  BY <1>1, <1>5 DEF LockForAnnul, LockMarket
<1>6. CASE Start(w)
  BY <1>2, <1>6 DEF Start, StartPlace, StartCancel, StartSettle, StartAnnul, marketVars
<1>7. CASE PlaceStep(w) /\ ~StampMarket(w)
  BY <1>2, <1>7 DEF PlaceStep, Insert, ReserveFunds, CheckPosition, Scan, Cross, FillOrder,
                    CreditSeller, FinishPlace, DropRemainder, marketVars
<1>8. CASE CancelStep(w)
  BY <1>2, <1>8 DEF CancelStep, CancelOrder, Unreserve, ReleaseFunds, marketVars
<1>9. CASE SettleStep(w) /\ ~FinishSettle(w)
  BY <1>2, <1>9 DEF SettleStep, Snapshot, SweepOrder, ReleaseSwept, ReleaseFunds,
                    StartPayout, Assess, PayWinner, marketVars
<1>10. CASE AnnulStep(w) /\ ~LockForAnnul(w)
  BY <1>2, <1>10, Zenon DEF AnnulStep, LockForVoid, VoidOrder, StartRefund, Refund, FinishAnnul,
                     marketVars
<1>. QED
  BY <1>3, <1>4, <1>5, <1>6, <1>7, <1>8, <1>9, <1>10 DEF Step

----------------------------------------------------------------------------
(***************************************************************************)
(* Who holds which wallets.                                                *)
(***************************************************************************)

\* The statements of a request that has locked nothing yet.
Fresh == {"idle", "insert", "row", "snapshot", "annul"}

\* w holds nothing before its first lock, the incoming user's wallet once a placement
\* has reserved funds or credited the seller, and the wallet of the order that a
\* market cancellation is about to void.
Holding(w) ==
    /\ pc[w] \in Fresh => /\ \A i \in OrderIds : owner[i] # w
                          /\ \A u \in Users : holder[u] # w
    /\ pc[w] \in {"scan", "cross", "fill", "stamp"} /\ Buys(req[w].ticket)
          => holder[req[w].ticket.user] = w
    /\ pc[w] = "stamp" => holder[req[w].ticket.user] = w
    /\ pc[w] \in {"position", "seller"} => ~Buys(req[w].ticket)
    /\ pc[w] = "void" => \A i \in OrderIds :
          IsNext(tx[w].batch, i) => holder[tx[w].batch[i].ticket.user] = w

\* A wallet that nobody has locked has one version.
WalletsClean == \A u \in Users : holder[u] = Nobody => purse[u] = wallets[u]

LocksInv ==
    /\ RowsInv
    /\ WalletsClean
    /\ \A w \in Workers : Holding(w)

\* A step of w writes wallets that it has locked by the end of the step, and that
\* nobody else has.
OwnWallets(w) ==
    /\ wallets' = wallets
    /\ \A u \in Users :
          \/ purse'[u] = purse[u] /\ holder'[u] = holder[u]
          \/ WalletFree(w, u) /\ holder'[u] = w

LEMMA UntouchedWallets ==
    ASSUME NEW w, UNCHANGED walletVars
    PROVE  OwnWallets(w)
  BY DEF walletVars, OwnWallets

LEMMA OneWallet ==
    ASSUME EngineInv, NEW w \in Workers, NEW u \in Users, WalletFree(w, u), NEW p,
           purse' = [purse EXCEPT ![u] = p], LockWallet(w, u), wallets' = wallets
    PROVE  OwnWallets(w) /\ holder'[u] = w /\ \A v \in Users \ {u} : holder'[v] = holder[v]
<1>1. purse \in [Users -> Wallet] /\ holder \in [Users -> Workers \cup {Nobody}]
  BY Typed
<1>. QED
  BY <1>1 DEF LockWallet, OwnWallets

\* Nothing is released for a sell order, so its user's wallet stays as it is.
LEMMA NoRelease ==
    ASSUME NEW p \in Wallet
    PROVE  Release(p, 0) = p
<1>1. p.available \in Nat /\ p.reserved \in Nat
  BY DEF Wallet
<1>2. p.available + 0 = p.available /\ p.reserved - 0 = p.reserved
  BY <1>1
<1>3. Release(p, 0) = [p EXCEPT !.available = p.available, !.reserved = p.reserved]
  BY <1>2 DEF Release, Wallet
<1>. QED
  BY <1>3 DEF Wallet

LEMMA DropWallets ==
    ASSUME EngineInv, NEW w \in Workers, Holding(w), req[w].op = "place",
           tx[w].order \in OrderIds, pc[w] \in {"cross", "fill"},
           NEW S, DropRemainder(w, S), ~Rollback(w)
    PROVE  OwnWallets(w) /\ holder' = holder
<1>1. req[w].ticket \in Tickets
  BY Typed, RequestType
<1>2. PICK t \in Tickets : t = req[w].ticket
  BY <1>1
<1>3. PICK u \in Users : u = t.user
  BY TicketType
<1>4. PICK k \in OrderIds : k = tx[w].order
  OBVIOUS
<1>5. draft[k] \in Row /\ draft[k].ticket = t
  BY <1>2, <1>4, OwnRow
<1>6. /\ purse' = [purse EXCEPT ![u] = Release(purse[u], Reserved(draft[k]))]
      /\ wallets' = wallets /\ holder' = holder
  BY <1>2, <1>3, <1>4 DEF DropRemainder
<1>7. purse \in [Users -> Wallet]
  BY Typed
<1>8. CASE Buys(t)
  <2>1. holder[u] = w
    BY <1>2, <1>3, <1>8 DEF Holding
  <2>. QED
    BY <1>6, <1>7, <2>1 DEF OwnWallets, WalletFree
<1>9. CASE ~Buys(t)
  <2>1. Reserved(draft[k]) = 0
    BY <1>5, <1>9 DEF Reserved
  <2>2. PICK p \in Wallet : p = purse[u]
    BY <1>7
  <2>3. Release(p, 0) = p
    BY NoRelease
  <2>4. purse' = purse
    BY <1>6, <1>7, <2>1, <2>2, <2>3
  <2>. QED
    BY <1>6, <2>4 DEF OwnWallets
<1>. QED
  BY <1>8, <1>9

LEMMA FillWallets ==
    ASSUME EngineInv, NEW w \in Workers, Holding(w), NEW r \in OrderIds,
           FillOrder(w, r), ~Rollback(w)
    PROVE  /\ OwnWallets(w)
           /\ \A u \in Users : holder[u] = w => holder'[u] = w
<1>1. PICK k \in OrderIds, q \in Nat, t \in Tickets, own \in Row, resting \in Row :
         /\ k = tx[w].order /\ t = req[w].ticket
         /\ own = draft[k] /\ resting = tx[w].batch[r]
         /\ q = Smaller(Unfilled(own), Unfilled(resting))
  BY FilledRows
<1>2. PICK u \in Users : u = resting.ticket.user
  BY TicketType DEF Row
<1>3. PICK user \in Users : user = t.user
  BY TicketType
<1>4. /\ LockWallet(w, u) /\ WalletFree(w, u) /\ wallets' = wallets
      /\ purse' = AfterFill(w, r, q) /\ pc[w] = "fill"
  BY <1>1, <1>2, Zenon DEF FillOrder
<1>5. purse \in [Users -> Wallet] /\ holder \in [Users -> Workers \cup {Nobody}]
  BY Typed
<1>6. PICK x : x = SpendReserved(purse[u], t.market, Stake(resting, q))
  OBVIOUS
<1>7. PICK p : p = [purse EXCEPT ![u] = x]
  OBVIOUS
<1>8. CASE Buys(t)
  <2>1. holder[user] = w
    BY <1>1, <1>3, <1>4, <1>8 DEF Holding
  <2>2. PICK y : y = SpendReserved(p[user], t.market, Stake(own, q))
    OBVIOUS
  <2>3. purse' = [p EXCEPT ![user] = y]
    BY <1>1, <1>2, <1>3, <1>4, <1>6, <1>7, <1>8, <2>2 DEF AfterFill
  <2>. QED
    BY <1>4, <1>5, <1>7, <2>1, <2>3 DEF LockWallet, OwnWallets, WalletFree
<1>9. CASE ~Buys(t)
  <2>1. purse' = p
    BY <1>1, <1>2, <1>4, <1>6, <1>7, <1>9, Zenon DEF AfterFill
  <2>. QED
    BY <1>4, <1>5, <1>7, <2>1 DEF LockWallet, OwnWallets, WalletFree
<1>. QED
  BY <1>8, <1>9

\* Every statement keeps to the wallets of its worker.
LEMMA WalletMoves ==
    ASSUME EngineInv, NEW w \in Workers, Holding(w), Start(w) \/ Step(w), ~Rollback(w),
           ~Commit(w)
    PROVE  /\ OwnWallets(w)
           /\ \A u \in Users : holder[u] = w => holder'[u] = w
<1>1. purse \in [Users -> Wallet] /\ holder \in [Users -> Workers \cup {Nobody}]
  BY Typed
<1>2. ASSUME UNCHANGED walletVars
      PROVE  OwnWallets(w) /\ \A u \in Users : holder[u] = w => holder'[u] = w
  BY <1>2, UntouchedWallets DEF walletVars
<1>3. ASSUME NEW u \in Users, WalletFree(w, u), NEW p,
             purse' = [purse EXCEPT ![u] = p], LockWallet(w, u), wallets' = wallets
      PROVE  OwnWallets(w) /\ \A v \in Users : holder[v] = w => holder'[v] = w
  BY <1>3, OneWallet
<1>4. CASE Start(w)
  BY <1>2, <1>4 DEF Start, StartPlace, StartCancel, StartSettle, StartAnnul
<1>5. CASE Insert(w) \/ CheckPosition(w) \/ Scan(w)
  BY <1>2, <1>5 DEF Insert, CheckPosition, Scan
<1>6. CASE ReserveFunds(w) \/ CreditSeller(w) \/ StampMarket(w)
  <2>1. req[w].ticket \in Tickets
    BY <1>6, Served, Zenon DEF ReserveFunds, CreditSeller, StampMarket
  <2>2. PICK t \in Tickets : t = req[w].ticket
    BY <2>1
  <2>3. PICK u \in Users : u = t.user
    BY TicketType
  <2>4. CASE ReserveFunds(w) \/ CreditSeller(w)
    <3>1. WalletFree(w, u) /\ LockWallet(w, u) /\ wallets' = wallets
      BY <2>2, <2>3, <2>4, Zenon DEF ReserveFunds, CreditSeller
    <3>2. \E p : purse' = [purse EXCEPT ![u] = p]
      BY <2>2, <2>3, <2>4 DEF ReserveFunds, CreditSeller
    <3>. QED
      BY <1>3, <3>1, <3>2
  <2>5. CASE StampMarket(w)
    <3>1. holder[u] = w /\ holder' = holder /\ wallets' = wallets
      BY <2>2, <2>3, <2>5 DEF StampMarket, Holding
    <3>2. \E p : purse' = [purse EXCEPT ![u] = p]
      BY <2>2, <2>3, <2>5, Zenon DEF StampMarket
    <3>. QED
      BY <1>1, <3>1, <3>2 DEF OwnWallets, WalletFree
  <2>. QED
    BY <1>6, <2>4, <2>5
<1>7. CASE Cross(w) \/ FinishPlace(w)
  <2>1. req[w].op = "place" /\ tx[w].order \in OrderIds /\ pc[w] \in {"cross", "fill"}
    BY <1>7, Served DEF Cross, FinishPlace
  <2>2. UNCHANGED walletVars \/ \E S : DropRemainder(w, S)
    BY <1>7 DEF Cross, FinishPlace
  <2>. QED
    BY <1>2, <2>1, <2>2, DropWallets
<1>8. CASE \E r \in OrderIds : FillOrder(w, r)
  BY <1>8, FillWallets
<1>9. CASE CancelOrder(w)
  BY <1>2, <1>9 DEF CancelOrder
<1>10. CASE Unreserve(w) \/ ReleaseSwept(w)
  <2>1. PICK i \in OrderIds, next \in {"commit", "sweep"} : ReleaseFunds(w, i, next)
    BY <1>10, Served DEF Unreserve, ReleaseSwept
  <2>2. draft[i].ticket.user \in Users
    BY Typed, TicketType DEF Row
  <2>3. PICK u \in Users : u = draft[i].ticket.user
    BY <2>2
  <2>4. WalletFree(w, u) /\ LockWallet(w, u) /\ wallets' = wallets
    BY <2>1, <2>3 DEF ReleaseFunds
  <2>5. \E p : purse' = [purse EXCEPT ![u] = p]
    BY <2>1, <2>3 DEF ReleaseFunds
  <2>. QED
    BY <1>3, <2>4, <2>5
<1>11. CASE \/ Snapshot(w) \/ StartPayout(w) \/ FinishSettle(w)
            \/ \E i \in OrderIds : SweepOrder(w, i)
            \/ \E u \in Users : Assess(w, u)
  BY <1>2, <1>11, Zenon DEF Snapshot, StartPayout, FinishSettle, SweepOrder, Assess
<1>12. ASSUME NEW u \in Users, PayWinner(w, u) \/ Refund(w, u)
       PROVE  OwnWallets(w) /\ \A v \in Users : holder[v] = w => holder'[v] = w
  <2>1. WalletFree(w, u) /\ LockWallet(w, u) /\ wallets' = wallets
    BY <1>12 DEF PayWinner, Refund
  <2>2. \E p : purse' = [purse EXCEPT ![u] = p]
    BY <1>12 DEF PayWinner, Refund
  <2>. QED
    BY <1>3, <2>1, <2>2
<1>13. CASE LockForAnnul(w) \/ StartRefund(w) \/ FinishAnnul(w)
  BY <1>2, <1>13 DEF LockForAnnul, StartRefund, FinishAnnul
<1>14. ASSUME NEW i \in OrderIds, LockForVoid(w, i)
       PROVE  OwnWallets(w) /\ \A v \in Users : holder[v] = w => holder'[v] = w
  <2>1. PICK u : u = tx[w].batch[i].ticket.user
    OBVIOUS
  <2>2. WalletFree(w, u) /\ LockWallet(w, u) /\ wallets' = wallets /\ purse' = purse
    BY <1>14, <2>1 DEF LockForVoid
  <2>. QED
    BY <1>1, <2>2 DEF OwnWallets, LockWallet
<1>15. ASSUME NEW i \in OrderIds, VoidOrder(w, i)
       PROVE  OwnWallets(w) /\ \A v \in Users : holder[v] = w => holder'[v] = w
  <2>1. PICK u : u = tx[w].batch[i].ticket.user
    OBVIOUS
  <2>2. holder[u] = w /\ holder' = holder /\ wallets' = wallets
    BY <1>15, <2>1 DEF VoidOrder, Holding
  <2>3. \E p : purse' = [purse EXCEPT ![u] = p]
    BY <1>15, <2>1, Zenon DEF VoidOrder
  <2>. QED
    BY <1>1, <2>2, <2>3 DEF OwnWallets, WalletFree
<1>. QED
  BY <1>4, <1>5, <1>6, <1>7, <1>8, <1>9, <1>10, <1>11, <1>12, <1>13, <1>14, <1>15
     DEF Step, PlaceStep, CancelStep, SettleStep, AnnulStep

\* Only the end of a request brings a worker back to where it holds nothing.
LEMMA NotFresh ==
    ASSUME EngineInv, NEW w \in Workers, Step(w), ~Rollback(w), ~Commit(w)
    PROVE  pc'[w] \notin Fresh
<1>1. pc \in [Workers -> Statement]
  BY Typed
<1>2. CASE PlaceStep(w)
  BY <1>1, <1>2 DEF PlaceStep, Insert, ReserveFunds, CheckPosition, Scan, Cross, FillOrder,
                    CreditSeller, StampMarket, FinishPlace, DropRemainder, Goto, Fresh
<1>3. CASE CancelStep(w)
  BY <1>1, <1>3 DEF CancelStep, CancelOrder, Unreserve, ReleaseFunds, Goto, Fresh
<1>4. CASE SettleStep(w)
  BY <1>1, <1>4 DEF SettleStep, Snapshot, SweepOrder, ReleaseSwept, ReleaseFunds,
                    StartPayout, Assess, PayWinner, FinishSettle, Goto, Fresh
<1>5. CASE AnnulStep(w)
  BY <1>1, <1>5 DEF AnnulStep, LockForAnnul, LockForVoid, VoidOrder, StartRefund, Refund,
                    FinishAnnul, Goto, Fresh
<1>. QED
  BY <1>2, <1>3, <1>4, <1>5 DEF Step

\* A placement past its reservation, or past its credit, holds its user's wallet.
LEMMA PlacementHolds ==
    ASSUME EngineInv, NEW w \in Workers, Holding(w), PlaceStep(w), ~Rollback(w)
    PROVE  Holding(w)'
<1>1. /\ req' = req /\ req[w].op = "place" /\ pc'[w] \notin Fresh /\ pc'[w] # "void"
      /\ pc[w] # "stamp" \/ pc'[w] # "stamp"
  <2>1. pc \in [Workers -> Statement]
    BY Typed
  <2>2. pc'[w] # "void" /\ (pc[w] # "stamp" \/ pc'[w] # "stamp") /\ pc[w] # "commit"
    BY <2>1 DEF PlaceStep, Insert, ReserveFunds, CheckPosition, Scan, Cross, FillOrder,
                CreditSeller, StampMarket, FinishPlace, DropRemainder, Goto
  <2>. QED
    BY <2>2, PlacementKeepsRequest, NotFresh DEF Step, Commit
<1>2. \A u \in Users : holder[u] = w => holder'[u] = w
  BY <1>1, WalletMoves, Served, Zenon DEF Step, Commit, PlaceStep, Insert, ReserveFunds,
     CheckPosition, Scan, Cross, FillOrder, CreditSeller, StampMarket, FinishPlace
<1>3. req[w].ticket \in Tickets
  BY <1>1, Typed, RequestType
<1>4. PICK t \in Tickets : t = req[w].ticket
  BY <1>3
<1>5. PICK u \in Users : u = t.user
  BY TicketType
<1>6. /\ pc \in [Workers -> Statement] /\ holder \in [Users -> Workers \cup {Nobody}]
  BY Typed
<1>7. SUFFICES /\ \/ holder'[u] = w
                  \/ pc'[w] # "stamp" /\ (pc'[w] \in {"scan", "cross", "fill"} => ~Buys(t))
               /\ pc'[w] \in {"position", "seller"} => ~Buys(t)
  BY <1>1, <1>4, <1>5 DEF Holding
<1>8. pc'[w] \in {"position", "seller"} => ~Buys(t)
  <2>1. CASE Insert(w)
    BY <1>4, <1>6, <2>1 DEF Insert, Goto
  <2>2. ASSUME NEW r \in OrderIds, FillOrder(w, r) PROVE pc'[w] = "seller" => ~Buys(t)
    BY <1>4, <1>6, <2>2 DEF FillOrder, Goto
  <2>3. ASSUME NEW r \in OrderIds, FillOrder(w, r) PROVE pc'[w] # "position"
    BY <1>4, <1>6, <2>3, Zenon DEF FillOrder, Goto
  <2>4. CASE ReserveFunds(w) \/ CheckPosition(w) \/ Scan(w) \/ CreditSeller(w) \/ StampMarket(w)
    BY <1>6, <2>4, Zenon DEF ReserveFunds, CheckPosition, Scan, CreditSeller, StampMarket, Goto
  <2>5. CASE Cross(w) \/ FinishPlace(w)
    BY <1>6, <2>5 DEF Cross, FinishPlace, DropRemainder, Goto
  <2>. QED
    BY <2>1, <2>2, <2>3, <2>4, <2>5 DEF PlaceStep
<1>9. CASE holder[u] = w
  BY <1>2, <1>8, <1>9
<1>10. CASE holder[u] # w
  <2>1. /\ pc[w] # "stamp" /\ (pc[w] \in {"scan", "cross", "fill"} => ~Buys(t))
        /\ pc[w] \in {"position", "seller"} => ~Buys(t)
    BY <1>4, <1>5, <1>10 DEF Holding
  <2>2. CASE Insert(w)
    BY <1>6, <1>8, <2>2 DEF Insert, Goto
  <2>3. CASE ReserveFunds(w) \/ CreditSeller(w)
    BY <1>4, <1>5, <1>6, <1>8, <2>3, Zenon DEF ReserveFunds, CreditSeller, LockWallet
  <2>4. CASE CheckPosition(w)
    <3>1. pc'[w] = "cross" /\ pc[w] = "position"
      BY <1>6, <2>4 DEF CheckPosition, Goto
    <3>. QED
      BY <1>8, <2>1, <3>1
  <2>5. CASE Scan(w)
    BY <1>4, <2>1, <2>5, Served DEF Scan
  <2>6. CASE Cross(w) \/ FinishPlace(w)
    <3>1. pc[w] \in {"cross", "fill"} /\ pc'[w] # "stamp"
      BY <1>6, <2>6 DEF Cross, FinishPlace, DropRemainder, Goto
    <3>. QED
      BY <1>8, <2>1, <3>1
  <2>7. ASSUME NEW r \in OrderIds, FillOrder(w, r) PROVE pc'[w] = "seller"
    BY <1>4, <1>6, <2>1, <2>7 DEF FillOrder, Goto
  <2>8. CASE StampMarket(w)
    BY <2>1, <2>8, Zenon DEF StampMarket
  <2>. QED
    BY <1>8, <2>2, <2>3, <2>4, <2>5, <2>6, <2>7, <2>8 DEF PlaceStep
<1>. QED
  BY <1>9, <1>10

\* The other requests hold the wallets that they are about to write without locking.
LEMMA OtherHolds ==
    ASSUME EngineInv, NEW w \in Workers, Holding(w), ~Rollback(w),
           CancelStep(w) \/ SettleStep(w) \/ AnnulStep(w)
    PROVE  Holding(w)'
<1>1. pc \in [Workers -> Statement] /\ holder \in [Users -> Workers \cup {Nobody}]
  BY Typed
<1>2. pc'[w] \notin Fresh
  <2>1. pc[w] # "commit"
    BY DEF CancelStep, CancelOrder, Unreserve, ReleaseFunds,
           SettleStep, Snapshot, SweepOrder, ReleaseSwept, StartPayout, Assess, PayWinner,
           FinishSettle, AnnulStep, LockForAnnul, LockForVoid, VoidOrder, StartRefund,
           Refund, FinishAnnul
  <2>. QED
    BY <2>1, NotFresh DEF Step, Commit
<1>3. pc'[w] \notin {"scan", "cross", "fill", "stamp", "position", "seller"}
  <2>1. CASE CancelStep(w)
    BY <1>1, <2>1 DEF CancelStep, CancelOrder, Unreserve, ReleaseFunds, Goto
  <2>2. CASE SettleStep(w)
    BY <1>1, <2>2, Zenon DEF SettleStep, Snapshot, SweepOrder, ReleaseSwept, ReleaseFunds,
                      StartPayout, Assess, PayWinner, FinishSettle, Goto
  <2>3. CASE AnnulStep(w)
    BY <1>1, <2>3, Zenon DEF AnnulStep, LockForAnnul, LockForVoid, VoidOrder, StartRefund,
                      Refund, FinishAnnul, Goto
  <2>. QED
    BY <2>1, <2>2, <2>3
<1>4. CASE pc'[w] # "void"
  BY <1>2, <1>3, <1>4 DEF Holding
<1>5. CASE \E k \in OrderIds : LockForVoid(w, k)
  <2>1. PICK k \in OrderIds : LockForVoid(w, k)
    BY <1>5
  <2>2. tx[w].batch[k] \in Row
    BY Typed DEF TxType
  <2>3. PICK u \in Users : u = tx[w].batch[k].ticket.user
    BY <2>2, TicketType DEF Row
  <2>4. tx' = tx /\ IsNext(tx[w].batch, k) /\ holder'[u] = w
    BY <1>1, <2>1, <2>3 DEF LockForVoid, LockWallet
  <2>5. \A i \in OrderIds : IsNext(tx[w].batch, i) => i = k
    BY <2>4 DEF IsNext, Ids, OrderIds
  <2>6. \A i \in OrderIds : IsNext(tx'[w].batch, i) => holder'[tx'[w].batch[i].ticket.user] = w
    BY <2>3, <2>4, <2>5
  <2>. QED
    BY <1>2, <1>3, <2>6 DEF Holding
<1>6. CASE pc'[w] = "void" /\ ~\E k \in OrderIds : LockForVoid(w, k)
  <2>1. CASE CancelStep(w)
    BY <1>1, <1>6, <2>1 DEF CancelStep, CancelOrder, Unreserve, ReleaseFunds, Goto
  <2>2. CASE SettleStep(w)
    BY <1>1, <1>6, <2>2 DEF SettleStep, Snapshot, SweepOrder, ReleaseSwept, ReleaseFunds,
                            StartPayout, Assess, PayWinner, FinishSettle, Goto
  <2>3. CASE AnnulStep(w)
    BY <1>1, <1>6, <2>3, Zenon DEF AnnulStep, LockForAnnul, VoidOrder, StartRefund, Refund,
                            FinishAnnul, Goto
  <2>. QED
    BY <2>1, <2>2, <2>3
<1>. QED
  BY <1>4, <1>5, <1>6

\* A request begins with nothing.
LEMMA StartHolds ==
    ASSUME EngineInv, NEW w \in Workers, Holding(w), Start(w)
    PROVE  Holding(w)'
<1>1. /\ pc[w] = "idle" /\ pc'[w] \in {"insert", "row", "snapshot", "annul"}
      /\ owner' = owner /\ holder' = holder
  BY StartRequest DEF Start, StartPlace, StartCancel, StartSettle, StartAnnul, orderVars,
                      walletVars
<1>2. /\ \A i \in OrderIds : owner[i] # w
      /\ \A u \in Users : holder[u] # w
  BY <1>1 DEF Holding, Fresh
<1>. QED
  BY <1>1, <1>2 DEF Holding

\* The wallets of a worker that others' steps leave alone.
WalletsLeft(v) ==
    \A u \in Users : /\ holder'[u] = v <=> holder[u] = v
                     /\ holder[u] = v => purse'[u] = purse[u] /\ wallets'[u] = wallets[u]

LEMMA OthersWallets ==
    ASSUME EngineInv, NEW w \in Workers, OwnWallets(w) \/ Rollback(w) \/ Commit(w),
           NEW v \in Workers \ {w}
    PROVE  WalletsLeft(v)
<1>1. purse \in [Users -> Wallet] /\ wallets \in [Users -> Wallet]
      /\ holder \in [Users -> Workers \cup {Nobody}]
  BY Typed
<1>2. CASE OwnWallets(w)
  BY <1>1, <1>2, NobodyAssumption DEF OwnWallets, WalletFree, WalletsLeft
<1>3. CASE Rollback(w)
  BY <1>1, <1>3, NobodyAssumption DEF Rollback, Unlock, WalletsLeft
<1>4. CASE Commit(w)
  BY <1>1, <1>4, NobodyAssumption DEF Commit, Unlock, WalletsLeft
<1>. QED
  BY <1>2, <1>3, <1>4

LEMMA LocksInit == Init => LocksInv
<1> SUFFICES ASSUME Init PROVE LocksInv
  OBVIOUS
<1>1. RowsInv
  BY RowsInit
<1>2. ASSUME NEW w \in Workers PROVE Holding(w)
  BY NobodyAssumption DEF Init, Holding, Fresh
<1>3. WalletsClean
  BY DEF Init, WalletsClean
<1>. QED
  BY <1>1, <1>2, <1>3 DEF LocksInv

LEMMA LocksNext == LocksInv /\ [Next]_vars => LocksInv'
<1> SUFFICES ASSUME LocksInv, [Next]_vars PROVE LocksInv'
  OBVIOUS
<1>1. /\ RowsInv /\ RowsInv' /\ EngineInv /\ WalletsClean /\ \A w \in Workers : Holding(w)
  BY RowsNext DEF LocksInv, RowsInv
<1>2. ASSUME NEW w \in Workers, Start(w) \/ Step(w) \/ Rollback(w) \/ Commit(w),
             OwnRows(w) \/ Rollback(w) \/ Commit(w),
             OwnWallets(w) \/ Rollback(w) \/ Commit(w), NEW v \in Workers \ {w}
      PROVE  Holding(v)'
  <2>1. /\ pc'[v] = pc[v] /\ req'[v] = req[v] /\ tx'[v] = tx[v]
        /\ Holding(v) /\ RowsLeft(v) /\ WalletsLeft(v)
    BY <1>1, <1>2, OthersLocal, OthersRows, OthersWallets
  <2>2. /\ \A i \in OrderIds : owner'[i] = v <=> owner[i] = v
        /\ \A u \in Users : holder'[u] = v <=> holder[u] = v
    BY <2>1 DEF RowsLeft, WalletsLeft
  <2>3. pc[v] = "stamp" \/ pc[v] \in {"scan", "cross", "fill"}
          => req[v].ticket.user \in Users
    BY <1>1, Served, TicketType
  <2>4. \A i \in OrderIds : tx[v].batch[i].ticket.user \in Users
    BY <1>1, Typed, TicketType DEF TxType, Row
  <2>. QED
    BY <2>1, <2>2, <2>3, <2>4 DEF Holding
<1>3. ASSUME NEW w \in Workers, (Start(w) \/ Step(w)) /\ ~Rollback(w) /\ ~Commit(w)
      PROVE  LocksInv'
  <2>1. OwnRows(w) /\ OwnWallets(w)
    BY <1>1, <1>3, RowMoves, WalletMoves
  <2>2. Holding(w)'
    BY <1>1, <1>3, StartHolds, PlacementHolds, OtherHolds DEF Step
  <2>3. WalletsClean'
    <3>1. holder \in [Users -> Workers \cup {Nobody}]
      BY <1>1, Typed
    <3>. QED
      BY <1>1, <2>1, <3>1, NobodyAssumption DEF WalletsClean, OwnWallets
  <2>. QED
    BY <1>1, <1>2, <1>3, <2>1, <2>2, <2>3 DEF LocksInv
<1>4. ASSUME NEW w \in Workers, Rollback(w) \/ Commit(w) PROVE LocksInv'
  <2>1. pc'[w] = "idle"
    BY <1>1, <1>4, Typed DEF Rollback, Commit, EndRequest, Goto
  <2>2. \A i \in OrderIds : owner'[i] # w
    BY <1>4, EndedRows
  <2>3. \A u \in Users : holder'[u] # w
    BY <1>4, NobodyAssumption DEF Rollback, Commit, Unlock
  <2>4. Holding(w)'
    BY <2>1, <2>2, <2>3 DEF Holding
  <2>5. WalletsClean'
    <3>1. /\ purse \in [Users -> Wallet] /\ wallets \in [Users -> Wallet]
          /\ holder \in [Users -> Workers \cup {Nobody}]
      BY <1>1, Typed
    <3>2. CASE Rollback(w)
      BY <1>1, <3>1, <3>2 DEF Rollback, Unlock, WalletsClean
    <3>3. CASE Commit(w)
      BY <1>1, <3>1, <3>3 DEF Commit, Unlock, WalletsClean
    <3>. QED
      BY <1>4, <3>2, <3>3
  <2>. QED
    BY <1>1, <1>2, <1>4, <2>4, <2>5 DEF LocksInv
<1>5. CASE UNCHANGED <<orders, draft, owner, wallets, purse, holder, keeper, pc, req, tx>>
  BY <1>1, <1>5 DEF LocksInv, WalletsClean, Holding
<1>. QED
  BY <1>3, <1>4, <1>5, EngineSteps

----------------------------------------------------------------------------
(***************************************************************************)
(* Quantities add up, without settlements.  A settlement cancels orders as *)
(* it loaded them, without a lock; a market cancellation does too, but     *)
(* holds the market row, which keeps placements out of its market.         *)
(***************************************************************************)

\* The quantities of a row account for the whole of it once it is off the book.
Whole(row) == Exists(row) => Unfilled(row) >= 0 /\ (~Active(row) => Unfilled(row) = 0)

\* The versions of a row are of one order, and only a placement fills.
VersionsAgree(i) ==
    Exists(orders[i]) =>
        /\ draft[i].ticket = orders[i].ticket
        /\ draft[i].filled # orders[i].filled =>
              \E v \in Workers : owner[i] = v /\ v \in Sharers(orders[i].ticket.market)

\* What a market cancellation has loaded stays filled as it was loaded.
AnnulSees(w, i) ==
    Exists(tx[w].batch[i]) =>
        /\ Exists(orders[i])
        /\ tx[w].batch[i].ticket = orders[i].ticket
        /\ tx[w].batch[i].filled = orders[i].filled
        /\ tx[w].batch[i].ticket.market = req[w].market

AnnulAlone(w) ==
    pc[w] \in {"wallet", "void"} =>
        /\ keeper[req[w].market] = w
        /\ \A v \in Workers : v \notin Sharers(req[w].market)
        /\ \A i \in OrderIds : AnnulSees(w, i)

WholeInv ==
    /\ LocksInv
    /\ Asked
    /\ \A i \in OrderIds : Whole(orders[i]) /\ Whole(draft[i]) /\ VersionsAgree(i)
    /\ \A w \in Workers : AnnulAlone(w)

\* The changes of a row leave it whole.
LEMMA NewWhole ==
    ASSUME NEW t \in Tickets
    PROVE  Whole(NewRow(t))
  BY NewRowType DEF Whole, NewRow, Active, ActiveStatuses

LEMMA FillWhole ==
    ASSUME NEW row \in Row, NEW q \in Nat, q <= Unfilled(row)
    PROVE  Whole(FillRow(row, q))
<1>1. row.ticket.quantity \in Int /\ row.filled \in Int /\ row.cancelled \in Int
  BY TicketType DEF Row
<1>2. PICK new \in Row : new = FillRow(row, q)
  BY FillRowType
<1>3. /\ new.filled = row.filled + q /\ new.cancelled = row.cancelled
      /\ new.ticket = row.ticket
      /\ new.status = IF Unfilled(row) = q THEN "filled" ELSE "partial"
  BY <1>2 DEF FillRow, Row
<1>4. Unfilled(new) = Unfilled(row) - q
  BY <1>1, <1>3 DEF Unfilled
<1>5. Unfilled(row) \in Int
  BY UnfilledType
<1>6. ~Active(new) => Unfilled(row) = q
  BY <1>3 DEF Active, ActiveStatuses
<1>. QED
  BY <1>2, <1>4, <1>5, <1>6 DEF Whole

LEMMA RemainderWhole ==
    ASSUME NEW row \in Row, Unfilled(row) >= 0
    PROVE  Whole(CancelRemainder(row))
<1>1. row.ticket.quantity \in Int /\ row.filled \in Int /\ row.cancelled \in Int
  BY TicketType DEF Row
<1>2. PICK new \in Row : new = CancelRemainder(row)
  BY CancelRemainderType
<1>3. /\ new.filled = row.filled /\ new.cancelled = row.cancelled + Unfilled(row)
      /\ new.ticket = row.ticket
  BY <1>2 DEF CancelRemainder, Row
<1>4. Unfilled(new) = 0
  BY <1>1, <1>3 DEF Unfilled
<1>. QED
  BY <1>2, <1>4 DEF Whole

\* A row is whole when it is cancelled as it was filled.
LEMMA CancelWhole ==
    ASSUME NEW row \in Row, NEW seen \in Row, seen.ticket = row.ticket,
           seen.filled = row.filled
    PROVE  Whole(CancelRow(row, seen))
<1>1. /\ row.ticket.quantity \in Int /\ row.filled \in Int /\ row.cancelled \in Int
      /\ seen.cancelled \in Int
  BY TicketType DEF Row
<1>2. PICK new : new = CancelRow(row, seen)
  OBVIOUS
<1>3. /\ new.filled = row.filled /\ new.cancelled = seen.cancelled + Unfilled(seen)
      /\ new.ticket = row.ticket /\ new.status = "cancelled"
  BY <1>2 DEF CancelRow, Row
<1>4. Unfilled(new) = 0
  BY <1>1, <1>3 DEF Unfilled
<1>. QED
  BY <1>2, <1>4 DEF Whole

\* No statement makes an order another one.
LEMMA TicketsKept ==
    ASSUME RowsInv, NEW w \in Workers, NEW i \in OrderIds, RowWritten(w, i), Exists(draft[i])
    PROVE  draft'[i].ticket = draft[i].ticket
<1>1. PICK row \in Row : row = draft[i]
  BY Typed DEF RowsInv
<1>. QED
  BY <1>1, Zenon DEF RowWritten, FillRow, CancelRemainder, CancelRow, Row, Exists

\* A statement of w leaves row i whole.
LEMMA WholeStep ==
    ASSUME WholeInv, "settle" \notin Ops, NEW w \in Workers, NEW i \in OrderIds,
           RowWritten(w, i)
    PROVE  Whole(draft'[i])
<1>1. EngineInv /\ Whole(draft[i]) /\ VersionsAgree(i) /\ AnnulAlone(w)
  BY DEF WholeInv, LocksInv, RowsInv
<1>2. PICK row \in Row : row = draft[i]
  BY <1>1, Typed
<1>3. CASE draft'[i] = draft[i]
  BY <1>1, <1>3
<1>4. ASSUME NEW t \in Tickets, draft'[i] = NewRow(t) PROVE Whole(draft'[i])
  BY <1>4, NewWhole
<1>5. ASSUME NEW q \in Nat, q <= Unfilled(draft[i]), draft'[i] = FillRow(draft[i], q)
      PROVE  Whole(draft'[i])
  BY <1>2, <1>5, FillWhole
<1>6. CASE Unfilled(draft[i]) >= 0 /\ draft'[i] = CancelRemainder(draft[i])
  BY <1>2, <1>6, RemainderWhole
<1>7. CASE draft'[i] = CancelRow(draft[i], draft[i])
  BY <1>2, <1>7, CancelWhole
<1>8. ~SweepOrder(w, i)
  <2>1. SweepOrder(w, i) => req[w].op = "settle"
    BY <1>1, Served DEF SweepOrder
  <2>. QED
    BY <2>1 DEF WholeInv, Asked
<1>9. CASE VoidOrder(w, i) /\ draft'[i] = CancelRow(draft[i], tx[w].batch[i])
  <2>1. /\ pc[w] = "void" /\ Exists(tx[w].batch[i]) /\ tx[w].batch[i] \in Row
    BY <1>1, <1>9, Typed DEF VoidOrder, IsNext, Ids, TxType
  <2>2. PICK seen \in Row : seen = tx[w].batch[i]
    BY <2>1
  <2>3. /\ Exists(orders[i]) /\ seen.ticket = orders[i].ticket
        /\ seen.filled = orders[i].filled /\ seen.ticket.market = req[w].market
        /\ \A v \in Workers : v \notin Sharers(req[w].market)
    BY <1>1, <2>1, <2>2 DEF AnnulAlone, AnnulSees
  <2>4. row.ticket = seen.ticket /\ row.filled = seen.filled
    BY <1>1, <1>2, <2>3 DEF VersionsAgree
  <2>. QED
    BY <1>2, <1>9, <2>2, <2>4, CancelWhole
<1>. QED
  BY <1>3, <1>4, <1>5, <1>6, <1>7, <1>8, <1>9 DEF RowWritten

\* The versions of a row still agree after a statement of w.
LEMMA AgreeStep ==
    ASSUME RowsInv, NEW w \in Workers, Start(w) \/ Step(w), ~Rollback(w), ~Commit(w),
           NEW i \in OrderIds, VersionsAgree(i)
    PROVE  VersionsAgree(i)'
<1>1. EngineInv /\ RowWritten(w, i) /\ OwnRows(w) /\ orders' = orders
  BY RowWrites, RowMoves DEF RowsInv, OwnRows
<1>2. SUFFICES ASSUME Exists(orders[i])
               PROVE  /\ draft'[i].ticket = orders[i].ticket
                      /\ draft'[i].filled # orders[i].filled =>
                            \E v \in Workers : /\ owner'[i] = v
                                               /\ v \in Sharers(orders[i].ticket.market)'
  BY <1>1 DEF VersionsAgree
<1>3. /\ Exists(draft[i]) /\ draft[i].ticket = orders[i].ticket
      /\ draft[i].filled # orders[i].filled =>
            \E v \in Workers : owner[i] = v /\ v \in Sharers(orders[i].ticket.market)
  BY <1>1, <1>2 DEF VersionsAgree, EngineInv, DraftsExtend, Extends
<1>4. draft'[i].ticket = orders[i].ticket
  BY <1>1, <1>3, TicketsKept
<1>5. PICK row \in Row : row = draft[i]
  BY <1>1, Typed
<1>6. CASE draft'[i].filled = draft[i].filled
  <2>1. ASSUME draft[i].filled # orders[i].filled
        PROVE  \E v \in Workers : owner'[i] = v /\ v \in Sharers(orders[i].ticket.market)'
    <3>1. PICK v \in Workers : owner[i] = v /\ v \in Sharers(orders[i].ticket.market)
      BY <1>3, <2>1
    <3>2. v \in Sharers(orders[i].ticket.market)'
      <4>1. PICK m : m = orders[i].ticket.market
        OBVIOUS
      <4>. QED
        BY <1>1, <3>1, <4>1, SharersMove
    <3>3. owner'[i] = v
      BY <1>1, <3>1, NobodyAssumption DEF OwnRows, OrderFree
    <3>. QED
      BY <3>2, <3>3
  <2>. QED
    BY <1>4, <1>6, <2>1
<1>7. CASE draft'[i].filled # draft[i].filled
  <2>1. owner[i] = w /\ w \in Sharers(draft[i].ticket.market)
    BY <1>1, <1>3, <1>5, <1>7 DEF RowWritten, CancelRow, CancelRemainder, Row
  <2>2. owner'[i] = w
    BY <1>1, <2>1 DEF OwnRows
  <2>3. PICK m : m = orders[i].ticket.market
    OBVIOUS
  <2>4. w \in Sharers(m)'
    BY <1>1, <1>3, <2>1, <2>3, SharersMove
  <2>. QED
    BY <1>1, <1>4, <2>2, <2>3, <2>4
<1>. QED
  BY <1>6, <1>7

\* A step into the statements of a market cancellation locks the market, or was there.
LEMMA AnnulEntry ==
    ASSUME EngineInv, NEW w \in Workers, Start(w) \/ Step(w), ~Rollback(w), ~Commit(w),
           pc'[w] \in {"wallet", "void"}
    PROVE  \/ LockForAnnul(w)
           \/ /\ pc[w] \in {"wallet", "void"} /\ req' = req /\ keeper' = keeper
              /\ \A i \in OrderIds : tx'[w].batch[i] \in {tx[w].batch[i], NoRow}
<1>1. pc \in [Workers -> Statement] /\ tx \in [Workers -> TxType]
  BY Typed
<1>2. CASE Start(w)
  BY <1>2, StartRequest
<1>3. CASE PlaceStep(w)
  BY <1>1, <1>3 DEF PlaceStep, Insert, ReserveFunds, CheckPosition, Scan, Cross, FillOrder,
                    CreditSeller, StampMarket, FinishPlace, DropRemainder, Goto
<1>4. CASE CancelStep(w)
  BY <1>1, <1>4, Zenon DEF CancelStep, CancelOrder, Unreserve, ReleaseFunds, Goto
<1>5. CASE SettleStep(w)
  BY <1>1, <1>5, Zenon DEF SettleStep, Snapshot, SweepOrder, ReleaseSwept, ReleaseFunds,
                    StartPayout, Assess, PayWinner, FinishSettle, Goto
<1>6. ASSUME NEW i \in OrderIds, LockForVoid(w, i)
      PROVE  pc[w] \in {"wallet", "void"} /\ req' = req /\ keeper' = keeper /\ tx' = tx
  BY <1>6 DEF LockForVoid, marketVars
<1>7. ASSUME NEW k \in OrderIds, VoidOrder(w, k)
      PROVE  /\ pc[w] \in {"wallet", "void"} /\ req' = req /\ keeper' = keeper
             /\ \A i \in OrderIds : tx'[w].batch[i] \in {tx[w].batch[i], NoRow}
  <2>1. /\ pc[w] = "void" /\ req' = req /\ keeper' = keeper
        /\ tx' = [tx EXCEPT ![w].batch[k] = NoRow]
    BY <1>7 DEF VoidOrder, marketVars
  <2>2. tx[w] \in TxType
    BY <1>1
  <2>. QED
    BY <1>1, <2>1, <2>2 DEF TxType
<1>8. CASE StartRefund(w) \/ FinishAnnul(w) \/ \E u \in Users : Refund(w, u)
  <2>1. pc'[w] \notin {"wallet", "void"}
    BY <1>1, <1>8 DEF StartRefund, FinishAnnul, Refund, Goto
  <2>. QED
    BY <2>1
<1>. QED
  BY <1>2, <1>3, <1>4, <1>5, <1>6, <1>7, <1>8 DEF Step, AnnulStep

\* The market is locked when no placement is between its INSERT and its end, and the
\* rows are loaded as they are committed, or as the same transaction wrote them.
LEMMA AnnulLocks ==
    ASSUME WholeInv, NEW w \in Workers, LockForAnnul(w), ~Rollback(w), EngineInv'
    PROVE  AnnulAlone(w)'
<1>1. EngineInv /\ \A i \in OrderIds : VersionsAgree(i)
  BY DEF WholeInv, LocksInv, RowsInv
<1>2. pc[w] = "annul" /\ req[w].market \in Markets /\ req[w].op = "annul"
  BY <1>1, Served DEF LockForAnnul
<1>3. PICK m \in Markets : m = req[w].market
  BY <1>2
<1>4. /\ LockMarket(w, m) /\ Sharers(m) = {} /\ req' = req /\ orders' = orders
      /\ tx' = [tx EXCEPT ![w].batch = ActiveRows(w, m)]
  BY <1>3 DEF LockForAnnul, orderVars
<1>5. PICK batch : batch = ActiveRows(w, m)
  OBVIOUS
<1>6. keeper'[m] = w /\ tx'[w].batch = batch /\ tx'[w].order = tx[w].order
  BY <1>1, <1>4, <1>5, Typed DEF LockMarket, TxType
<1>7. ASSUME NEW v \in Workers PROVE v \notin Sharers(m)'
  <2>1. v \notin Sharers(m)
    BY <1>4
  <2>2. v # w => tx'[v] = tx[v]
    BY <1>1, <1>4, Typed
  <2>. QED
    BY <1>2, <1>4, <2>1, <2>2 DEF Sharers
<1>8. ASSUME NEW i \in OrderIds, Exists(batch[i])
      PROVE  Exists(orders[i]) /\ batch[i] = orders[i] /\ batch[i].ticket.market = m
  <2>1. batch[i] = OrdersSeenBy(w)[i] /\ Active(batch[i]) /\ batch[i].ticket.market = m
    BY <1>5, <1>8, NoRowType DEF ActiveRows
  <2>2. owner[i] # w
    BY <1>2 DEF WholeInv, LocksInv, Holding, Fresh
  <2>. QED
    BY <1>8, <2>1, <2>2 DEF OrdersSeenBy
<1>9. \A i \in OrderIds : AnnulSees(w, i)'
  BY <1>3, <1>4, <1>6, <1>8 DEF AnnulSees
<1>. QED
  BY <1>3, <1>4, <1>6, <1>7, <1>9 DEF AnnulAlone

\* A market cancellation keeps what it has until it ends.
LEMMA AnnulKeeps ==
    ASSUME WholeInv, NEW w \in Workers, Start(w) \/ Step(w), ~Rollback(w), ~Commit(w),
           pc[w] \in {"wallet", "void"}, req' = req, keeper' = keeper,
           \A i \in OrderIds : tx'[w].batch[i] \in {tx[w].batch[i], NoRow}
    PROVE  AnnulAlone(w)'
<1>1. EngineInv /\ AnnulAlone(w) /\ orders' = orders
  BY RowMoves DEF WholeInv, LocksInv, RowsInv, OwnRows
<1>2. PICK m \in Markets : m = req[w].market
  BY <1>1, Served
<1>3. ASSUME NEW v \in Workers PROVE v \notin Sharers(m)'
  <2>1. v \notin Sharers(m)
    BY <1>1, <1>2 DEF AnnulAlone
  <2>2. ~Insert(w)
    BY DEF Insert
  <2>. QED
    BY <1>1, <2>1, <2>2, SharersMove
<1>4. \A i \in OrderIds : AnnulSees(w, i)'
  <2> SUFFICES ASSUME NEW i \in OrderIds, Exists(tx'[w].batch[i]) PROVE AnnulSees(w, i)'
    BY DEF AnnulSees
  <2>1. tx'[w].batch[i] = tx[w].batch[i]
    BY NoRowType
  <2>2. AnnulSees(w, i)
    BY <1>1 DEF AnnulAlone
  <2>. QED
    BY <1>1, <2>1, <2>2 DEF AnnulSees
<1>. QED
  BY <1>1, <1>2, <1>3, <1>4 DEF AnnulAlone

\* Nor can others take away what a market cancellation relies on: no order is inserted
\* in the market, so that nothing is filled, and other cancellations fill nothing.
LEMMA AnnulUndisturbed ==
    ASSUME WholeInv, NEW w \in Workers,
           Start(w) \/ Step(w) \/ Rollback(w), ~Commit(w), NEW v \in Workers \ {w}
    PROVE  AnnulAlone(v)'
<1>1. EngineInv /\ AnnulAlone(v)
  BY DEF WholeInv, LocksInv, RowsInv
<1>2. pc'[v] = pc[v] /\ req'[v] = req[v] /\ tx'[v] = tx[v]
  BY <1>1, OthersLocal
<1>3. SUFFICES ASSUME pc[v] \in {"wallet", "void"} PROVE AnnulAlone(v)'
  BY <1>2 DEF AnnulAlone
<1>4. req[v].op = "annul" /\ req[v].market \in Markets
  BY <1>1, <1>3, Served
<1>5. PICK m \in Markets : m = req[v].market
  BY <1>4
<1>6. /\ keeper[m] = v /\ \A x \in Workers : x \notin Sharers(m)
      /\ \A i \in OrderIds : AnnulSees(v, i)
  BY <1>1, <1>3, <1>5 DEF AnnulAlone
<1>7. orders' = orders
  BY <1>1, RowMoves DEF OwnRows, Rollback
<1>8. keeper'[m] = v
  <2>1. CASE Rollback(w)
    BY <1>6, <2>1 DEF Rollback, Unlock
  <2>2. CASE ~Rollback(w)
    BY <1>1, <1>6, <2>2, KeeperMoves, NobodyAssumption DEF MarketFree
  <2>. QED
    BY <2>1, <2>2
<1>9. ASSUME NEW x \in Workers PROVE x \notin Sharers(m)'
  <2>1. CASE Rollback(w)
    <3>1. req'[w].op = "none"
      BY <1>1, <2>1, Typed DEF Rollback, EndRequest, NoRequest
    <3>2. x # w => req'[x] = req[x] /\ tx'[x] = tx[x]
      BY <1>1, <2>1, OthersLocal
    <3>. QED
      BY <1>6, <3>1, <3>2 DEF Sharers
  <2>2. CASE ~Rollback(w)
    <3>1. ~(Insert(w) /\ req[w].ticket.market = m)
      BY <1>4, <1>6 DEF Insert, AnnulHolds
    <3>. QED
      BY <1>1, <1>6, <2>2, <3>1, SharersMove
  <2>. QED
    BY <2>1, <2>2
<1>10. \A i \in OrderIds : AnnulSees(v, i)'
  BY <1>2, <1>6, <1>7 DEF AnnulSees
<1>. QED
  BY <1>2, <1>5, <1>8, <1>9, <1>10 DEF AnnulAlone

\* A commit by another worker publishes cancellations at most.
LEMMA AnnulOutlivesCommit ==
    ASSUME WholeInv, NEW w \in Workers, Commit(w), NEW v \in Workers \ {w}
    PROVE  AnnulAlone(v)'
<1>1. EngineInv /\ AnnulAlone(v) /\ \A i \in OrderIds : VersionsAgree(i)
  BY DEF WholeInv, LocksInv, RowsInv
<1>2. pc'[v] = pc[v] /\ req'[v] = req[v] /\ tx'[v] = tx[v]
  BY <1>1, OthersLocal
<1>3. SUFFICES ASSUME pc[v] \in {"wallet", "void"} PROVE AnnulAlone(v)'
  BY <1>2 DEF AnnulAlone
<1>4. PICK m \in Markets : m = req[v].market
  BY <1>1, <1>3, Served
<1>5. /\ keeper[m] = v /\ \A x \in Workers : x \notin Sharers(m)
      /\ \A i \in OrderIds : AnnulSees(v, i)
  BY <1>1, <1>3, <1>4 DEF AnnulAlone
<1>6. keeper'[m] = v
  BY <1>5 DEF Commit, Unlock
<1>7. ASSUME NEW x \in Workers PROVE x \notin Sharers(m)'
  <2>1. req'[w].op = "none"
    BY <1>1, Typed DEF Commit, EndRequest, NoRequest
  <2>2. x # w => req'[x] = req[x] /\ tx'[x] = tx[x]
    BY <1>1, OthersLocal
  <2>. QED
    BY <1>5, <2>1, <2>2 DEF Sharers
<1>8. ASSUME NEW i \in OrderIds, Exists(tx[v].batch[i])
      PROVE  /\ Exists(orders'[i]) /\ tx[v].batch[i].ticket = orders'[i].ticket
             /\ tx[v].batch[i].filled = orders'[i].filled
             /\ tx[v].batch[i].ticket.market = m
  <2>1. /\ Exists(orders[i]) /\ tx[v].batch[i].ticket = orders[i].ticket
        /\ tx[v].batch[i].filled = orders[i].filled
        /\ tx[v].batch[i].ticket.market = m
    BY <1>4, <1>5, <1>8 DEF AnnulSees
  <2>2. orders'[i] = IF owner[i] = w THEN draft[i] ELSE orders[i]
    BY DEF Commit
  <2>3. draft[i].ticket = orders[i].ticket /\ draft[i].filled = orders[i].filled
    BY <1>1, <1>5, <2>1 DEF VersionsAgree
  <2>4. Exists(draft[i])
    BY <1>1, <2>1 DEF EngineInv, DraftsExtend, Extends
  <2>. QED
    BY <2>1, <2>2, <2>3, <2>4
<1>9. \A i \in OrderIds : AnnulSees(v, i)'
  BY <1>2, <1>4, <1>8 DEF AnnulSees
<1>. QED
  BY <1>2, <1>4, <1>6, <1>7, <1>9 DEF AnnulAlone

LEMMA WholeInit == Init => WholeInv
<1> SUFFICES ASSUME Init PROVE WholeInv
  OBVIOUS
<1>1. LocksInv /\ Asked
  BY LocksInit, AskedInit
<1>2. ASSUME NEW i \in OrderIds PROVE Whole(orders[i]) /\ Whole(draft[i]) /\ VersionsAgree(i)
  BY NoRowType DEF Init, NoBatch, Whole, VersionsAgree
<1>3. \A w \in Workers : AnnulAlone(w)
  BY DEF Init, AnnulAlone
<1>. QED
  BY <1>1, <1>2, <1>3 DEF WholeInv

LEMMA WholeNext == "settle" \notin Ops /\ WholeInv /\ [Next]_vars => WholeInv'
<1> SUFFICES ASSUME "settle" \notin Ops, WholeInv, [Next]_vars PROVE WholeInv'
  OBVIOUS
<1>1. /\ LocksInv /\ LocksInv' /\ RowsInv /\ EngineInv /\ EngineInv' /\ Asked'
      /\ \A i \in OrderIds : Whole(orders[i]) /\ Whole(draft[i]) /\ VersionsAgree(i)
      /\ \A w \in Workers : AnnulAlone(w)
  BY LocksNext, AskedNext DEF WholeInv, LocksInv, RowsInv
<1>2. ASSUME NEW w \in Workers, (Start(w) \/ Step(w)) /\ ~Rollback(w) /\ ~Commit(w)
      PROVE  WholeInv'
  <2>1. orders' = orders
    BY <1>1, <1>2, RowMoves DEF OwnRows
  <2>2. \A i \in OrderIds : Whole(draft'[i]) /\ VersionsAgree(i)'
    BY <1>1, <1>2, RowWrites, WholeStep, AgreeStep
  <2>3. AnnulAlone(w)'
    <3>1. CASE pc'[w] \notin {"wallet", "void"}
      BY <3>1 DEF AnnulAlone
    <3>2. CASE pc'[w] \in {"wallet", "void"}
      BY <1>1, <1>2, <3>2, AnnulEntry, AnnulLocks, AnnulKeeps
    <3>. QED
      BY <3>1, <3>2
  <2>4. \A v \in Workers \ {w} : AnnulAlone(v)'
    BY <1>2, AnnulUndisturbed
  <2>5. \A i \in OrderIds : Whole(orders'[i])
    BY <1>1, <2>1
  <2>. QED
    BY <1>1, <2>2, <2>3, <2>4, <2>5 DEF WholeInv
<1>3. ASSUME NEW w \in Workers, Rollback(w) \/ Commit(w) PROVE WholeInv'
  <2>1. /\ pc'[w] = "idle" /\ req'[w] = NoRequest
    BY <1>1, <1>3, Typed DEF Rollback, Commit, EndRequest, Goto
  <2>2. AnnulAlone(w)'
    BY <2>1 DEF AnnulAlone
  <2>3. \A v \in Workers \ {w} : AnnulAlone(v)'
    BY <1>3, AnnulUndisturbed, AnnulOutlivesCommit
  <2>4. ASSUME NEW i \in OrderIds
        PROVE  Whole(orders'[i]) /\ Whole(draft'[i]) /\ VersionsAgree(i)'
    <3>1. CASE owner[i] = w
      <4>1. orders'[i] = draft'[i] /\ orders'[i] \in {orders[i], draft[i]}
        BY <1>3, <3>1 DEF Rollback, Commit
      <4>. QED
        BY <1>1, <4>1 DEF VersionsAgree
    <3>2. CASE owner[i] # w
      <4>1. orders'[i] = orders[i] /\ draft'[i] = draft[i] /\ owner'[i] = owner[i]
        BY <1>3, <3>2 DEF Rollback, Commit, Unlock
      <4>2. ASSUME NEW v \in Workers \ {w}, NEW m, v \in Sharers(m) PROVE v \in Sharers(m)'
        BY <1>1, <1>3, <4>2, OthersLocal DEF Sharers
      <4>. QED
        BY <1>1, <3>2, <4>1, <4>2 DEF VersionsAgree
    <3>. QED
      BY <3>1, <3>2
  <2>. QED
    BY <1>1, <2>2, <2>3, <2>4 DEF WholeInv
<1>4. CASE UNCHANGED <<orders, draft, owner, wallets, purse, holder, keeper, pc, req, tx>>
  <2>1. \A v \in Workers, m \in Markets : v \in Sharers(m)' <=> v \in Sharers(m)
    BY <1>4 DEF Sharers
  <2>2. \A w \in Workers : AnnulAlone(w)'
    BY <1>1, <1>4 DEF AnnulAlone, AnnulSees, Sharers
  <2>3. \A i \in OrderIds : VersionsAgree(i)'
    BY <1>1, <1>4 DEF VersionsAgree, Sharers
  <2>. QED
    BY <1>1, <1>4, <2>2, <2>3 DEF WholeInv
<1>. QED
  BY <1>2, <1>3, <1>4, EngineSteps

\* The quantities of whole rows add up.
LEMMA WholeAddsUp ==
    ASSUME EngineInv, \A i \in OrderIds : Whole(orders[i])
    PROVE  RowsAddUp
<1> SUFFICES ASSUME NEW i \in Ids(orders)
             PROVE  /\ orders[i].filled + orders[i].cancelled <= orders[i].ticket.quantity
                    /\ Active(orders[i]) <=> Unfilled(orders[i]) > 0
  BY DEF RowsAddUp
<1>1. i \in OrderIds /\ Exists(orders[i]) /\ Whole(orders[i])
  BY DEF Ids
<1>2. orders[i] \in Row /\ RowOK(orders[i])
  BY <1>1, Typed DEF EngineInv, DraftsExtend
<1>3. PICK row \in Row : row = orders[i]
  BY <1>2
<1>4. row.ticket.quantity \in Int /\ row.filled \in Int /\ row.cancelled \in Int
  BY TicketType DEF Row
<1>5. Unfilled(row) >= 0 /\ (~Active(row) => Unfilled(row) = 0) /\ (Active(row) => Unfilled(row) > 0)
  BY <1>1, <1>2, <1>3 DEF Whole, RowOK
<1>6. row.filled + row.cancelled <= row.ticket.quantity
  BY <1>4, <1>5 DEF Unfilled
<1>7. Active(row) <=> Unfilled(row) > 0
  BY <1>5, UnfilledType
<1>. QED
  BY <1>3, <1>6, <1>7

\* Unless markets are settled, the quantities of every order add up, however placements,
\* cancellations and market cancellations interleave, fail and crash: what is filled and
\* what is cancelled is no more than was ordered, and is all of it once the order is off
\* the book.
THEOREM OrderRowsAddUp ==
    ASSUME "settle" \notin Ops
    PROVE  Spec => []RowsAddUp
<1>1. WholeInv => RowsAddUp
  BY WholeAddsUp DEF WholeInv, LocksInv, RowsInv
<1>. QED
  BY <1>1, WholeInit, WholeNext, PTL DEF Spec

----------------------------------------------------------------------------
(***************************************************************************)
(* Sums over wallets, like those over rows: g gives every wallet its part. *)
(***************************************************************************)

Held(g) == SumFunctionOnSet([u \in Users |-> g[wallets[u]]], Users)

Moved(g, w) == [u \in Users |-> IF holder[u] = w THEN g[purse[u]] - g[wallets[u]] ELSE 0]

Owed(g, w) == SumFunctionOnSet(Moved(g, w), Users)

\* The sums are integers.
LEMMA WalletSums ==
    ASSUME EngineInv, NEW g \in [Wallet -> Int]
    PROVE  /\ IsFiniteSet(Users)
           /\ \A u \in Users : g[wallets[u]] \in Int /\ g[purse[u]] \in Int
           /\ \A w \in Workers, u \in Users : Moved(g, w)[u] \in Int
           /\ Held(g) \in Int
           /\ \A w \in Workers : Owed(g, w) \in Int
<1>1. IsFiniteSet(Users)
  BY FiniteAssumption
<1>2. \A u \in Users : g[wallets[u]] \in Int /\ g[purse[u]] \in Int
  BY Typed
<1>3. \A w \in Workers, u \in Users : Moved(g, w)[u] \in Int
  BY <1>2 DEF Moved
<1>4. Held(g) \in Int
  <2> DEFINE h == [u \in Users |-> g[wallets[u]]]
  <2>1. \A u \in Users : h[u] \in Int
    BY <1>2
  <2> HIDE DEF h
  <2>2. SumFunctionOnSet(h, Users) \in Int
    BY <1>1, <2>1, SumInt
  <2>. QED
    BY <2>2 DEF Held, h
<1>5. \A w \in Workers : Owed(g, w) \in Int
  BY <1>1, <1>3, SumInt DEF Owed
<1>. QED
  BY <1>1, <1>2, <1>3, <1>4, <1>5

LEMMA BystanderOwed ==
    ASSUME NEW v \in Workers, WalletsLeft(v), NEW g \in [Wallet -> Int]
    PROVE  Owed(g, v)' = Owed(g, v)
<1>1. PICK a : a = Moved(g, v)
  OBVIOUS
<1>2. PICK b : b = Moved(g, v)'
  OBVIOUS
<1>3. \A u \in Users : a[u] = b[u]
  BY <1>1, <1>2 DEF Moved, WalletsLeft
<1>4. IsFiniteSet(Users)
  BY FiniteAssumption
<1>5. SumFunctionOnSet(a, Users) = SumFunctionOnSet(b, Users)
  BY <1>3, <1>4, SumEqual
<1>. QED
  BY <1>1, <1>2, <1>5 DEF Owed

\* A worker that holds no wallet owes nothing.
LEMMA IdleOwed ==
    ASSUME NEW v \in Workers, \A u \in Users : holder'[u] # v, NEW g \in [Wallet -> Int]
    PROVE  Owed(g, v)' = 0
<1>1. PICK b : b = Moved(g, v)'
  OBVIOUS
<1>2. \A u \in Users : b[u] = 0
  BY <1>1 DEF Moved
<1>3. IsFiniteSet(Users)
  BY FiniteAssumption
<1>4. SumFunctionOnSet(b, Users) = 0
  BY <1>2, <1>3, SumZero
<1>. QED
  BY <1>1, <1>4 DEF Owed

\* A commit adds what was owed to what is committed.
LEMMA CommitPays ==
    ASSUME EngineInv, NEW w \in Workers, Commit(w), NEW g \in [Wallet -> Int]
    PROVE  Held(g)' = Held(g) + Owed(g, w)
<1>1. PICK a : a = [u \in Users |-> g[wallets[u]]]
  OBVIOUS
<1>2. PICK b : b = Moved(g, w)
  OBVIOUS
<1>3. PICK c : c = [u \in Users |-> g[wallets'[u]]]
  OBVIOUS
<1>4. \A u \in Users : a[u] \in Int /\ b[u] \in Int
  BY <1>1, <1>2, WalletSums
<1>5. \A u \in Users : c[u] = a[u] + b[u]
  <2> SUFFICES ASSUME NEW u \in Users PROVE c[u] = a[u] + b[u]
    OBVIOUS
  <2>1. wallets'[u] = IF holder[u] = w THEN purse[u] ELSE wallets[u]
    BY DEF Commit
  <2>2. g[purse[u]] \in Int /\ g[wallets[u]] \in Int
    BY WalletSums
  <2>3. c[u] = g[wallets'[u]] /\ a[u] = g[wallets[u]]
    BY <1>1, <1>3
  <2>4. b[u] = IF holder[u] = w THEN g[purse[u]] - g[wallets[u]] ELSE 0
    BY <1>2 DEF Moved
  <2>. QED
    BY <2>1, <2>2, <2>3, <2>4
<1>6. SumFunctionOnSet(c, Users) = SumFunctionOnSet(a, Users) + SumFunctionOnSet(b, Users)
  BY <1>4, <1>5, FiniteAssumption, SumPlus
<1>. QED
  BY <1>1, <1>2, <1>3, <1>6 DEF Held, Owed

\* What w's own step moves at one wallet is what it changes there.
LEMMA OwnMove ==
    ASSUME EngineInv, EngineInv', WalletsClean, NEW w \in Workers, OwnWallets(w),
           NEW g \in [Wallet -> Int], NEW u \in Users
    PROVE  Moved(g, w)'[u] = Moved(g, w)[u] + (g[purse'[u]] - g[purse[u]])
<1>1. g[purse[u]] \in Int /\ g[wallets[u]] \in Int /\ g[purse'[u]] \in Int
  <2>1. purse'[u] \in Wallet
    BY DEF EngineInv, TypeOK
  <2>. QED
    BY <2>1, WalletSums
<1>2. wallets'[u] = wallets[u]
  BY DEF OwnWallets
<1>3. Moved(g, w)[u] = IF holder[u] = w THEN g[purse[u]] - g[wallets[u]] ELSE 0
  BY DEF Moved
<1>4. Moved(g, w)'[u] = IF holder'[u] = w THEN g[purse'[u]] - g[wallets'[u]] ELSE 0
  BY DEF Moved
<1>5. CASE purse'[u] = purse[u] /\ holder'[u] = holder[u]
  BY <1>1, <1>2, <1>3, <1>4, <1>5
<1>6. CASE holder[u] = w /\ holder'[u] = w
  BY <1>1, <1>2, <1>3, <1>4, <1>6
<1>7. CASE holder[u] = Nobody /\ holder'[u] = w
  <2>1. holder[u] # w /\ purse[u] = wallets[u]
    BY <1>7, NobodyAssumption DEF WalletsClean
  <2>. QED
    BY <1>1, <1>2, <1>3, <1>4, <1>7, <2>1
<1>. QED
  BY <1>5, <1>6, <1>7 DEF OwnWallets, WalletFree

\* All that a step of w moves: d says by how much g changes at each wallet.
LEMMA OwedMoves ==
    ASSUME EngineInv, EngineInv', WalletsClean, NEW w \in Workers, OwnWallets(w),
           NEW g \in [Wallet -> Int], NEW d \in [Users -> Int],
           \A u \in Users : g[purse'[u]] = g[purse[u]] + d[u]
    PROVE  Owed(g, w)' = Owed(g, w) + SumFunctionOnSet(d, Users)
<1>1. PICK a : a = Moved(g, w)
  OBVIOUS
<1>2. PICK b : b = Moved(g, w)'
  OBVIOUS
<1>3. \A u \in Users : a[u] \in Int /\ d[u] \in Int /\ b[u] = a[u] + d[u]
  <2> SUFFICES ASSUME NEW u \in Users
               PROVE  a[u] \in Int /\ d[u] \in Int /\ b[u] = a[u] + d[u]
    OBVIOUS
  <2>1. b[u] = a[u] + (g[purse'[u]] - g[purse[u]])
    BY <1>1, <1>2, OwnMove
  <2>2. g[purse[u]] \in Int /\ a[u] \in Int /\ d[u] \in Int
    BY <1>1, WalletSums
  <2>3. g[purse'[u]] = g[purse[u]] + d[u]
    OBVIOUS
  <2>. QED
    BY <2>1, <2>2, <2>3
<1>4. SumFunctionOnSet(b, Users) = SumFunctionOnSet(a, Users) + SumFunctionOnSet(d, Users)
  BY <1>3, FiniteAssumption, SumPlus
<1>. QED
  BY <1>1, <1>2, <1>4 DEF Owed

\* A step that changes g at no wallet, or at one.
LEMMA SameOwed ==
    ASSUME EngineInv, EngineInv', WalletsClean, NEW w \in Workers, OwnWallets(w),
           NEW g \in [Wallet -> Int], \A u \in Users : g[purse'[u]] = g[purse[u]]
    PROVE  Owed(g, w)' = Owed(g, w)
<1>1. PICK d \in [Users -> Int] : d = [u \in Users |-> 0]
  <2>1. [u \in Users |-> 0] \in [Users -> Int]
    OBVIOUS
  <2>. QED
    BY <2>1
<1>2. \A u \in Users : d[u] = 0 /\ g[purse[u]] \in Int
  BY <1>1, WalletSums
<1>3. \A u \in Users : g[purse'[u]] = g[purse[u]] + d[u]
  BY <1>2
<1>4. SumFunctionOnSet(d, Users) = 0
  BY <1>2, FiniteAssumption, SumZero
<1>5. Owed(g, w)' = Owed(g, w) + SumFunctionOnSet(d, Users)
  BY <1>3, OwedMoves
<1>. QED
  BY <1>4, <1>5, WalletSums

LEMMA OneOwed ==
    ASSUME EngineInv, EngineInv', WalletsClean, NEW w \in Workers, OwnWallets(w),
           NEW g \in [Wallet -> Int], NEW v \in Users, NEW a \in Int,
           g[purse'[v]] = g[purse[v]] + a,
           \A u \in Users \ {v} : purse'[u] = purse[u]
    PROVE  Owed(g, w)' = Owed(g, w) + a
<1>1. PICK d \in [Users -> Int] : d = [u \in Users |-> IF u = v THEN a ELSE 0]
  <2>1. [u \in Users |-> IF u = v THEN a ELSE 0] \in [Users -> Int]
    OBVIOUS
  <2>. QED
    BY <2>1
<1>2. \A u \in Users : g[purse[u]] \in Int
  BY WalletSums
<1>3. \A u \in Users : g[purse'[u]] = g[purse[u]] + d[u]
  BY <1>1, <1>2
<1>4. SumFunctionOnSet(d, Users) = a
  BY <1>1, FiniteAssumption, SumAt
<1>. QED
  BY <1>3, <1>4, OwedMoves

----------------------------------------------------------------------------
(***************************************************************************)
(* Contracts are paid for.                                                 *)
(***************************************************************************)

\* What a user has paid on a market, net of the proceeds of sales.
Paid(m) == [p \in Wallet |-> Outlay(p, m)]

\* What w owes on a market to a seller whose contracts it has already moved.
Due(w, m) == IF pc[w] = "seller" /\ req[w].ticket.market = m THEN tx[w].due ELSE 0

\* Users have paid the payout of every pair of contracts, in what is committed and in
\* what each transaction would add.
Backed(m) ==
    /\ Held(Paid(m)) >= PayoutCents * Booked(Contracts(m, "YES"))
    /\ \A w \in Workers :
          Owed(Paid(m), w) - Due(w, m) >= PayoutCents * Pending(Contracts(m, "YES"), w)

BackedInv ==
    /\ LedgerInv
    /\ LocksInv
    /\ \A m \in Markets : Backed(m)

LEMMA PaidType ==
    ASSUME NEW m \in Markets
    PROVE  Paid(m) \in [Wallet -> Int] /\ \A p \in Wallet : Paid(m)[p] = Outlay(p, m)
<1>1. \A p \in Wallet : Outlay(p, m) \in Int
  BY OutlayType
<1>. QED
  BY <1>1 DEF Paid

LEMMA SpendOutlay ==
    ASSUME NEW p \in Drawn, NEW a \in Int, NEW n \in Markets, NEW m \in Markets
    PROVE  /\ Outlay(SpendReserved(p, n, a), m) = Outlay(p, m) + (IF m = n THEN a ELSE 0)
           /\ SpendReserved(p, n, a).won = p.won
           /\ Outlay(p, m) \in Int
<1>1. PICK q : q = SpendReserved(p, n, a)
  OBVIOUS
<1>2. q.spent = [p.spent EXCEPT ![n] = @ + a] /\ q.fees = p.fees /\ q.won = p.won
  BY <1>1 DEF SpendReserved, Drawn
<1>3. p.spent[m] \in Int /\ p.fees[m] \in Int
  BY DEF Drawn
<1>4. q.spent[m] = p.spent[m] + (IF m = n THEN a ELSE 0)
  BY <1>2, <1>3 DEF Drawn
<1>. QED
  BY <1>1, <1>2, <1>3, <1>4 DEF Outlay

\* No wallet's ledger entries are added to.
EntriesKept ==
    \A u \in Users : /\ purse'[u].spent = purse[u].spent
                     /\ purse'[u].fees = purse[u].fees
                     /\ purse'[u].won = purse[u].won

LEMMA OneEntry ==
    ASSUME EngineInv, NEW u \in Users, NEW p, purse' = [purse EXCEPT ![u] = p],
           p.spent = purse[u].spent, p.fees = purse[u].fees, p.won = purse[u].won
    PROVE  EntriesKept
<1>1. \A v \in Users : purse'[v] = IF v = u THEN p ELSE purse[v]
  BY Typed
<1>. QED
  BY <1>1 DEF EntriesKept

LEMMA MovesKeepEntries ==
    ASSUME NEW p \in Wallet, NEW a
    PROVE  /\ Reserve(p, a).spent = p.spent /\ Reserve(p, a).fees = p.fees
           /\ Reserve(p, a).won = p.won
           /\ Release(p, a).spent = p.spent /\ Release(p, a).fees = p.fees
           /\ Release(p, a).won = p.won
  BY DEF Reserve, Release, Wallet

\* Reservations and releases book nothing; fills, fees, payouts and refunds do.
LEMMA EntryWriters ==
    ASSUME EngineInv, NEW w \in Workers, Start(w) \/ Step(w), ~Rollback(w), ~Commit(w)
    PROVE  \/ EntriesKept
           \/ CreditSeller(w) \/ StampMarket(w)
           \/ \E r \in OrderIds : FillOrder(w, r)
           \/ \E u \in Users : PayWinner(w, u) \/ Refund(w, u)
<1>1. CASE purse' = purse
  BY <1>1 DEF EntriesKept
<1>2. CASE ReserveFunds(w)
  <2>1. req[w].ticket \in Tickets
    BY <1>2, Served DEF ReserveFunds
  <2>2. PICK u \in Users : u = req[w].ticket.user
    BY <2>1, TicketType
  <2>3. PICK a : a = Reserved(draft[tx[w].order])
    OBVIOUS
  <2>4. purse' = [purse EXCEPT ![u] = Reserve(purse[u], a)]
    BY <1>2, <2>2, <2>3 DEF ReserveFunds
  <2>. QED
    BY <2>4, Typed, MovesKeepEntries, OneEntry
<1>3. ASSUME NEW S, DropRemainder(w, S), pc[w] \in {"cross", "fill"} PROVE EntriesKept
  <2>1. req[w].ticket \in Tickets
    BY <1>3, Served
  <2>2. PICK u \in Users : u = req[w].ticket.user
    BY <2>1, TicketType
  <2>3. PICK a : a = Reserved(draft[tx[w].order])
    OBVIOUS
  <2>4. purse' = [purse EXCEPT ![u] = Release(purse[u], a)]
    BY <1>3, <2>2, <2>3 DEF DropRemainder
  <2>. QED
    BY <2>4, Typed, MovesKeepEntries, OneEntry
<1>4. CASE Unreserve(w) \/ ReleaseSwept(w)
  <2>1. PICK i \in OrderIds : ReleaseFunds(w, i, "commit") \/ ReleaseFunds(w, i, "sweep")
    BY <1>4, Served DEF Unreserve, ReleaseSwept
  <2>2. draft[i].ticket.user \in Users
    BY Typed, TicketType DEF Row
  <2>3. PICK u \in Users : u = draft[i].ticket.user
    BY <2>2
  <2>4. purse' = [purse EXCEPT ![u] = Release(purse[u], tx[w].due)]
    BY <2>1, <2>3 DEF ReleaseFunds
  <2>. QED
    BY <2>4, Typed, MovesKeepEntries, OneEntry
<1>5. ASSUME NEW i \in OrderIds, VoidOrder(w, i) PROVE EntriesKept
  <2>1. tx[w].batch[i].ticket.user \in Users
    BY Typed, TicketType DEF TxType, Row
  <2>2. PICK u \in Users : u = tx[w].batch[i].ticket.user
    BY <2>1
  <2>3. PICK a : a = Smaller(Reserved(tx[w].batch[i]), purse[u].reserved)
    OBVIOUS
  <2>4. purse' = [purse EXCEPT ![u] = Release(purse[u], a)]
    BY <1>5, <2>2, <2>3, Zenon DEF VoidOrder
  <2>. QED
    BY <2>4, Typed, MovesKeepEntries, OneEntry
<1>. QED
  BY <1>1, <1>2, <1>3, <1>4, <1>5, PurseWriters

\* Nobody pays on a market or for a fee, or is paid for a sale.
PaymentsKept ==
    \A u \in Users : purse'[u].spent = purse[u].spent /\ purse'[u].fees = purse[u].fees

LEMMA PaymentWriters ==
    ASSUME EngineInv, NEW w \in Workers, Start(w) \/ Step(w), ~Rollback(w), ~Commit(w)
    PROVE  \/ PaymentsKept
           \/ CreditSeller(w) \/ StampMarket(w)
           \/ \E r \in OrderIds : FillOrder(w, r)
<1>1. CASE EntriesKept
  BY <1>1 DEF EntriesKept, PaymentsKept
<1>2. ASSUME NEW v \in Users, PayWinner(w, v) \/ Refund(w, v) PROVE PaymentsKept
  <2>1. PICK n : n = req[w].market
    OBVIOUS
  <2>2. PICK p \in Wallet : p = purse[v]
    BY Typed
  <2>3. PICK b, q : /\ q = [p EXCEPT !.available = @ + b, !.won[n] = @ + b]
                    /\ purse' = [purse EXCEPT ![v] = q]
    <3>1. CASE PayWinner(w, v)
      <4>1. PICK due : due = tx[w].due
        OBVIOUS
      <4>2. PICK q : q = [p EXCEPT !.available = @ + due, !.won[n] = @ + due]
        OBVIOUS
      <4>3. purse' = [purse EXCEPT ![v] = q]
        BY <2>1, <2>2, <3>1, <4>1, <4>2 DEF PayWinner
      <4>. QED
        BY <4>2, <4>3, Zenon
    <3>2. CASE Refund(w, v)
      <4>1. PICK outlay : outlay = Outlay(p, n)
        OBVIOUS
      <4>2. PICK amount : amount = IF outlay > 0 THEN outlay ELSE -Smaller(-outlay, p.available)
        OBVIOUS
      <4>3. PICK q : q = [p EXCEPT !.available = @ + amount, !.won[n] = @ + amount]
        OBVIOUS
      <4>4. purse' = [purse EXCEPT ![v] = q]
        BY <2>1, <2>2, <3>2, <4>1, <4>2, <4>3 DEF Refund
      <4>. QED
        BY <4>3, <4>4
    <3>. QED
      BY <1>2, <3>1, <3>2, Zenon
  <2>4. q.spent = p.spent /\ q.fees = p.fees
    BY <2>3 DEF Wallet
  <2>5. \A u \in Users : purse'[u] = IF u = v THEN q ELSE purse[u]
    BY <2>3, Typed
  <2>. QED
    BY <2>2, <2>4, <2>5 DEF PaymentsKept
<1>. QED
  BY <1>1, <1>2, EntryWriters

\* A seller is owed between the fill that moved the contracts and the credit.
LEMMA SellerSteps ==
    ASSUME EngineInv, NEW w \in Workers, Start(w) \/ Step(w), ~Rollback(w), ~Commit(w)
    PROVE  /\ pc[w] = "seller" => CreditSeller(w)
           /\ pc'[w] = "seller" =>
                 \E r \in OrderIds : FillOrder(w, r) /\ ~Buys(req[w].ticket)
           /\ CreditSeller(w) => pc[w] = "seller" /\ pc'[w] = "stamp"
<1>1. pc \in [Workers -> Statement]
  BY Typed
<1>2. CASE Start(w)
  <2>1. pc[w] = "idle" /\ pc'[w] # "seller"
    BY <1>2, StartRequest
  <2>. QED
    BY <2>1 DEF CreditSeller
<1>3. CASE \E r \in OrderIds : FillOrder(w, r)
  BY <1>1, <1>3 DEF FillOrder, Goto, CreditSeller
<1>4. CASE CreditSeller(w)
  BY <1>1, <1>4 DEF CreditSeller, Goto
<1>5. CASE PlaceStep(w) /\ ~CreditSeller(w) /\ ~\E r \in OrderIds : FillOrder(w, r)
  BY <1>1, <1>5 DEF PlaceStep, Insert, ReserveFunds, CheckPosition, Scan, Cross,
                    StampMarket, FinishPlace, DropRemainder, Goto
<1>6. CASE CancelStep(w)
  BY <1>1, <1>6, Zenon DEF CancelStep, CancelOrder, Unreserve, ReleaseFunds, Goto, CreditSeller
<1>7. CASE SettleStep(w)
  BY <1>1, <1>7 DEF SettleStep, Snapshot, SweepOrder, ReleaseSwept, ReleaseFunds,
                    StartPayout, Assess, PayWinner, FinishSettle, Goto, CreditSeller
<1>8. CASE AnnulStep(w)
  BY <1>1, <1>8, Zenon DEF AnnulStep, LockForAnnul, LockForVoid, VoidOrder, StartRefund, Refund,
                    FinishAnnul, Goto, CreditSeller
<1>. QED
  BY <1>2, <1>3, <1>4, <1>5, <1>6, <1>7, <1>8 DEF Step

\* What keeps w's part of a market backed.
OwnBacked(w, m) ==
    Owed(Paid(m), w) - Due(w, m) >= PayoutCents * Pending(Contracts(m, "YES"), w)

\* The sums in it are integers.
LEMMA BackedTypes ==
    ASSUME EngineInv, NEW w \in Workers, NEW m \in Markets
    PROVE  /\ Owed(Paid(m), w) \in Int /\ Due(w, m) \in Int
           /\ Pending(Contracts(m, "YES"), w) \in Int
           /\ Held(Paid(m)) \in Int /\ Booked(Contracts(m, "YES")) \in Int
<1>1. tx[w].due \in Nat
  BY Typed DEF TxType
<1>2. PICK g \in [Wallet -> Int] : g = Paid(m)
  BY PaidType
<1>3. PICK f \in [Row -> Int] : f = Contracts(m, "YES")
  BY ContractsType
<1>. QED
  BY <1>1, <1>2, <1>3, WalletSums, RowSums DEF Due

\* Fills that stay as they are leave the contracts as they are.
LEMMA KeptPending ==
    ASSUME RowsInv, EngineInv', NEW w \in Workers, OwnRows(w), FillsKept, NEW m \in Markets
    PROVE  Pending(Contracts(m, "YES"), w)' = Pending(Contracts(m, "YES"), w)
<1>1. EngineInv /\ RowsClean
  BY DEF RowsInv
<1>2. PICK f \in [Row -> Int] : f = Contracts(m, "YES")
  BY ContractsType
<1>3. \A i \in OrderIds : f[draft'[i]] = f[draft[i]]
  BY <1>1, <1>2, KeptContracts
<1>4. Pending(f, w)' = Pending(f, w)
  BY <1>1, <1>3, SamePending
<1>. QED
  BY <1>2, <1>4

\* A statement that books nothing.
LEMMA QuietBacked ==
    ASSUME LocksInv, EngineInv', NEW w \in Workers, OwnRows(w), FillsKept, OwnWallets(w),
           PaymentsKept, pc[w] # "seller", pc'[w] # "seller", NEW m \in Markets,
           OwnBacked(w, m)
    PROVE  OwnBacked(w, m)'
<1>1. EngineInv /\ RowsInv /\ WalletsClean
  BY DEF LocksInv, RowsInv
<1>2. PICK g \in [Wallet -> Int] : g = Paid(m) /\ \A p \in Wallet : g[p] = Outlay(p, m)
  BY PaidType
<1>3. ASSUME NEW u \in Users PROVE g[purse'[u]] = g[purse[u]]
  <2>1. purse[u] \in Wallet /\ purse'[u] \in Wallet
    BY <1>1 DEF EngineInv, TypeOK
  <2>. QED
    BY <1>2, <2>1 DEF PaymentsKept, Outlay
<1>4. Owed(g, w)' = Owed(g, w)
  BY <1>1, <1>3, SameOwed
<1>5. Owed(Paid(m), w)' = Owed(Paid(m), w)
  BY <1>2, <1>4
<1>6. Pending(Contracts(m, "YES"), w)' = Pending(Contracts(m, "YES"), w)
  BY <1>1, KeptPending
<1>7. Due(w, m)' = Due(w, m)
  BY DEF Due
<1>. QED
  BY <1>5, <1>6, <1>7 DEF OwnBacked

\* The credit of a seller is what was due; a fee is paid on top.
LEMMA CreditBacked ==
    ASSUME LocksInv, EngineInv', NEW w \in Workers, ~Rollback(w),
           CreditSeller(w) \/ StampMarket(w), OwnRows(w), FillsKept, OwnWallets(w),
           NEW m \in Markets, OwnBacked(w, m)
    PROVE  OwnBacked(w, m)'
<1>1. EngineInv /\ RowsInv /\ WalletsClean
  BY DEF LocksInv, RowsInv
<1>2. req[w].ticket \in Tickets /\ tx[w].due \in Nat /\ pc \in [Workers -> Statement]
  BY <1>1, Served, Typed, Zenon DEF CreditSeller, StampMarket, TxType
<1>3. PICK t \in Tickets : t = req[w].ticket
  BY <1>2
<1>4. PICK u \in Users, n \in Markets : u = t.user /\ n = t.market
  BY TicketType
<1>5. PICK due \in Nat : due = tx[w].due
  BY <1>2
<1>6. PICK p \in Wallet : p = purse[u]
  BY <1>1, Typed
<1>7. PICK q : q = purse'[u]
  OBVIOUS
<1>8. /\ q \in Wallet /\ \A v \in Users \ {u} : purse'[v] = purse[v]
      /\ CreditSeller(w) => /\ q.spent = [p.spent EXCEPT ![n] = @ - due] /\ q.fees = p.fees
                            /\ pc[w] = "seller"
      /\ StampMarket(w) => /\ q.fees = [p.fees EXCEPT ![n] = @ + due] /\ q.spent = p.spent
                           /\ pc[w] = "stamp"
  <2>1. q \in Wallet
    BY <1>7 DEF EngineInv, TypeOK
  <2>2. purse \in [Users -> Wallet]
    BY <1>1, Typed
  <2>3. CASE CreditSeller(w)
    <3>1. purse' = [purse EXCEPT ![u] = [p EXCEPT !.available = @ + due, !.spent[n] = @ - due]]
      BY <1>3, <1>4, <1>5, <1>6, <2>3 DEF CreditSeller
    <3>2. q = [p EXCEPT !.available = @ + due, !.spent[n] = @ - due]
      BY <1>7, <2>2, <3>1
    <3>3. q.spent = [p.spent EXCEPT ![n] = @ - due] /\ q.fees = p.fees
      BY <3>2 DEF Wallet
    <3>. QED
      BY <2>1, <2>2, <2>3, <3>1, <3>3 DEF CreditSeller, StampMarket
  <2>4. CASE StampMarket(w)
    <3>1. purse' = [purse EXCEPT ![u] = [p EXCEPT !.available = @ - due, !.fees[n] = @ + due]]
      BY <1>3, <1>4, <1>5, <1>6, <2>4 DEF StampMarket
    <3>2. q = [p EXCEPT !.available = @ - due, !.fees[n] = @ + due]
      BY <1>7, <2>2, <3>1
    <3>3. q.fees = [p.fees EXCEPT ![n] = @ + due] /\ q.spent = p.spent
      BY <3>2 DEF Wallet
    <3>. QED
      BY <2>1, <2>2, <2>4, <3>1, <3>3 DEF CreditSeller, StampMarket
  <2>. QED
    BY <2>3, <2>4
<1>9. pc'[w] # "seller"
  BY <1>2, Zenon DEF CreditSeller, StampMarket, Goto
<1>10. PICK a \in Int : a = IF m # n THEN 0 ELSE IF CreditSeller(w) THEN -due ELSE due
  OBVIOUS
<1>11. Outlay(q, m) = Outlay(p, m) + a
  <2>1. p.spent[m] \in Int /\ p.fees[m] \in Int /\ p.spent[n] \in Int /\ p.fees[n] \in Int
    BY DEF Wallet
  <2>2. CASE CreditSeller(w)
    <3>1. q.spent[m] = (IF m = n THEN p.spent[m] - due ELSE p.spent[m]) /\ q.fees = p.fees
      BY <1>8, <2>2 DEF Wallet
    <3>. QED
      BY <1>10, <2>1, <2>2, <3>1 DEF Outlay
  <2>3. CASE ~CreditSeller(w)
    <3>1. q.fees[m] = (IF m = n THEN p.fees[m] + due ELSE p.fees[m]) /\ q.spent = p.spent
      BY <1>8, <2>3 DEF Wallet
    <3>. QED
      BY <1>10, <2>1, <2>3, <3>1 DEF Outlay
  <2>. QED
    BY <2>2, <2>3
<1>12. PICK g \in [Wallet -> Int] : g = Paid(m) /\ \A x \in Wallet : g[x] = Outlay(x, m)
  BY PaidType
<1>13. Owed(g, w)' = Owed(g, w) + a
  <2>1. g[purse'[u]] = g[purse[u]] + a
    BY <1>6, <1>7, <1>8, <1>11, <1>12
  <2>. QED
    BY <1>1, <1>8, <2>1, OneOwed
<1>14. Owed(Paid(m), w)' = Owed(Paid(m), w) + a
  BY <1>12, <1>13
<1>15. Due(w, m)' = 0 /\ Due(w, m) >= -a
  <2>1. Due(w, m)' = 0
    BY <1>9 DEF Due
  <2>2. CASE CreditSeller(w)
    <3>1. Due(w, m) = IF n = m THEN due ELSE 0
      BY <1>3, <1>4, <1>5, <1>8, <2>2 DEF Due
    <3>. QED
      BY <1>10, <2>1, <2>2, <3>1
  <2>3. CASE ~CreditSeller(w)
    <3>1. Due(w, m) = 0 /\ a >= 0
      BY <1>8, <1>10, <2>3 DEF Due
    <3>. QED
      BY <2>1, <3>1
  <2>. QED
    BY <2>2, <2>3
<1>16. Pending(Contracts(m, "YES"), w)' = Pending(Contracts(m, "YES"), w)
  BY <1>1, KeptPending
<1>17. /\ Owed(Paid(m), w) \in Int /\ Due(w, m) \in Int
       /\ Pending(Contracts(m, "YES"), w) \in Int
  BY <1>1, BackedTypes
<1>. QED
  BY <1>14, <1>15, <1>16, <1>17 DEF OwnBacked, PayoutCents

\* What a fill books: the stakes of the bids in it.
LEMMA FillPays ==
    ASSUME LocksInv, EngineInv', NEW w \in Workers, OwnWallets(w), NEW r \in OrderIds,
           FillOrder(w, r), ~Rollback(w),
           NEW q \in Nat, NEW t \in Tickets, NEW own \in Row, NEW resting \in Row,
           t = req[w].ticket, own = draft[tx[w].order], resting = tx[w].batch[r],
           q = Smaller(Unfilled(own), Unfilled(resting)), NEW m \in Markets
    PROVE  Owed(Paid(m), w)'
              = Owed(Paid(m), w)
                  + (IF t.market # m THEN 0
                     ELSE Stake(resting, q) + (IF Buys(t) THEN Stake(own, q) ELSE 0))
<1>1. EngineInv /\ WalletsClean /\ purse \in [Users -> Wallet]
  BY Typed DEF LocksInv, RowsInv
<1>2. PICK u \in Users : u = resting.ticket.user
  BY TicketType DEF Row
<1>3. PICK v \in Users, n \in Markets : v = t.user /\ n = t.market
  BY TicketType
<1>4. PICK a \in Nat, b \in Nat : a = Stake(resting, q) /\ b = Stake(own, q)
  BY StakeType
<1>5. PICK x : x = SpendReserved(purse[u], n, a)
  OBVIOUS
<1>6. PICK p : p = [purse EXCEPT ![u] = x]
  OBVIOUS
<1>7. PICK y : y = SpendReserved(p[v], n, b)
  OBVIOUS
<1>8. purse' = IF Buys(t) THEN [p EXCEPT ![v] = y] ELSE p
  <2>1. purse' = AfterFill(w, r, q)
    BY Zenon DEF FillOrder
  <2>. QED
    BY <1>2, <1>3, <1>4, <1>5, <1>6, <1>7, <2>1 DEF AfterFill
<1>9. x \in Drawn /\ \A z \in Users : p[z] \in Drawn /\ p[z] = IF z = u THEN x ELSE purse[z]
  <2>1. purse[u] \in Drawn
    BY <1>1, WalletIsDrawn
  <2>2. x \in Drawn
    BY <1>5, <2>1, SpendDrawn
  <2>. QED
    BY <1>1, <1>6, <2>2, WalletIsDrawn
<1> DEFINE A == IF n = m THEN a ELSE 0
           B == IF n = m /\ Buys(t) THEN b ELSE 0
<1>10. A \in Int /\ B \in Int
  OBVIOUS
<1>11. PICK c \in [Users -> Int] : c = [z \in Users |-> IF z = u THEN A ELSE 0]
  <2>1. [z \in Users |-> IF z = u THEN A ELSE 0] \in [Users -> Int]
    BY <1>10
  <2>. QED
    BY <2>1
<1>12. PICK d \in [Users -> Int] : d = [z \in Users |-> IF z = v THEN B ELSE 0]
  <2>1. [z \in Users |-> IF z = v THEN B ELSE 0] \in [Users -> Int]
    BY <1>10
  <2>. QED
    BY <2>1
<1>13. PICK e \in [Users -> Int] : \A z \in Users : e[z] = c[z] + d[z]
  <2>1. [z \in Users |-> c[z] + d[z]] \in [Users -> Int]
    OBVIOUS
  <2>. QED
    BY <2>1
<1>14. ASSUME NEW z \in Users
       PROVE  Outlay(purse'[z], m) = Outlay(purse[z], m) + e[z]
  <2>1. purse[z] \in Drawn
    BY <1>1, WalletIsDrawn
  <2>2. Outlay(p[z], m) = Outlay(purse[z], m) + c[z] /\ Outlay(purse[z], m) \in Int
    <3>1. CASE z = u
      <4>1. Outlay(x, m) = Outlay(purse[u], m) + (IF m = n THEN a ELSE 0)
        BY <1>5, <2>1, <3>1, SpendOutlay
      <4>. QED
        BY <1>9, <1>11, <2>1, <3>1, <4>1, SpendOutlay
    <3>2. CASE z # u
      <4>1. Outlay(purse[z], m) \in Int
        BY <1>1, OutlayType
      <4>. QED
        BY <1>9, <1>11, <3>2, <4>1
    <3>. QED
      BY <3>1, <3>2
  <2>3. Outlay(purse'[z], m) = Outlay(p[z], m) + d[z]
    <3>1. CASE Buys(t) /\ z = v
      <4>1. Outlay(y, m) = Outlay(p[v], m) + (IF m = n THEN b ELSE 0)
        BY <1>7, <1>9, SpendOutlay
      <4>2. purse'[z] = y
        BY <1>1, <1>6, <1>8, <3>1
      <4>. QED
        BY <1>12, <3>1, <4>1, <4>2
    <3>2. CASE ~(Buys(t) /\ z = v)
      <4>1. purse'[z] = p[z]
        BY <1>1, <1>6, <1>8, <3>2
      <4>2. d[z] = 0
        BY <1>12, <3>2
      <4>3. Outlay(p[z], m) \in Int
        BY <2>2
      <4>. QED
        BY <4>1, <4>2, <4>3
    <3>. QED
      BY <3>1, <3>2
  <2>4. c[z] \in Int /\ d[z] \in Int /\ e[z] = c[z] + d[z]
    BY <1>13
  <2>. QED
    BY <2>2, <2>3, <2>4
<1>15. PICK g \in [Wallet -> Int] : g = Paid(m) /\ \A z \in Wallet : g[z] = Outlay(z, m)
  BY PaidType
<1>16. ASSUME NEW z \in Users PROVE g[purse'[z]] = g[purse[z]] + e[z]
  <2>1. purse[z] \in Wallet /\ purse'[z] \in Wallet
    BY <1>1 DEF EngineInv, TypeOK
  <2>. QED
    BY <1>14, <1>15, <2>1
<1>17. Owed(g, w)' = Owed(g, w) + SumFunctionOnSet(e, Users)
  BY <1>1, <1>16, OwedMoves
<1>18. SumFunctionOnSet(e, Users) = A + B
  <2> HIDE DEF A, B
  <2>1. SumFunctionOnSet(c, Users) = A
    BY <1>10, <1>11, FiniteAssumption, SumAt
  <2>2. SumFunctionOnSet(d, Users) = B
    BY <1>10, <1>12, FiniteAssumption, SumAt
  <2>3. SumFunctionOnSet(e, Users) = SumFunctionOnSet(c, Users) + SumFunctionOnSet(d, Users)
    BY <1>13, FiniteAssumption, SumPlus
  <2>. QED
    BY <2>1, <2>2, <2>3
<1>19. A + B = IF t.market # m THEN 0
               ELSE Stake(resting, q) + (IF Buys(t) THEN Stake(own, q) ELSE 0)
  BY <1>3, <1>4
<1>. QED
  BY <1>15, <1>17, <1>18, <1>19

\* The contracts that a fill makes: a pair for each contract that two bids share, and
\* none when one is sold.
LEMMA FillMakes ==
    ASSUME LocksInv, EngineInv', NEW w \in Workers, OwnRows(w), NEW r \in OrderIds,
           FillOrder(w, r), ~Rollback(w),
           NEW k \in OrderIds, NEW q \in Nat, NEW t \in Tickets, NEW s \in Tickets,
           NEW own \in Row, NEW resting \in Row, k # r,
           own = draft[k], resting = draft[r], own.ticket = t, resting.ticket = s,
           q <= Unfilled(own), q <= Unfilled(resting), Counterpart(t, s),
           draft'[k] = FillRow(own, q), draft'[r] = FillRow(resting, q),
           \A i \in OrderIds \ {k, r} : draft'[i] = draft[i],
           NEW m \in Markets
    PROVE  Pending(Contracts(m, "YES"), w)'
              = Pending(Contracts(m, "YES"), w)
                  + (IF t.market = m /\ Buys(t) /\ Buys(s) THEN q ELSE 0)
<1>1. EngineInv /\ RowsClean /\ draft \in [OrderIds -> Row]
  BY Typed DEF LocksInv, RowsInv
<1>2. PICK f \in [Row -> Int] : f = Contracts(m, "YES")
  BY ContractsType
<1>3. /\ FillRow(own, q) \in Row /\ FillRow(own, q).ticket = t
      /\ FillRow(own, q).filled = own.filled + q
      /\ FillRow(resting, q) \in Row /\ FillRow(resting, q).ticket = s
      /\ FillRow(resting, q).filled = resting.filled + q
  BY FillRowType
<1>4. PICK own2 \in Row, resting2 \in Row :
         own2 = FillRow(own, q) /\ resting2 = FillRow(resting, q)
  BY <1>3
<1>5. /\ own2.ticket = t /\ own2.filled = own.filled + q
      /\ resting2.ticket = s /\ resting2.filled = resting.filled + q
  BY <1>3, <1>4
<1>6. /\ draft'[k] = own2 /\ draft'[r] = resting2
      /\ \A i \in OrderIds \ {k, r} : draft'[i] = draft[i]
  BY <1>1, <1>4
<1>7. Pending(f, w)' = Pending(f, w) + (f[draft'[k]] - f[draft[k]])
                                     + (f[draft'[r]] - f[draft[r]])
  BY <1>1, <1>6, TwoPending
<1>8. /\ own.filled \in Int /\ resting.filled \in Int
      /\ t.side \in {"YES", "NO"} /\ s.side \in {"YES", "NO"}
      /\ t.direction \in {"buy", "sell"} /\ s.direction \in {"buy", "sell"}
  BY TicketType DEF Row, Sides
<1>9. /\ \A row \in Row : row.ticket.market = m /\ row.ticket.side = "YES" /\ Buys(row.ticket)
                             => f[row] = row.filled
      /\ \A row \in Row : row.ticket.market = m /\ row.ticket.side = "YES" /\ ~Buys(row.ticket)
                             => f[row] = -row.filled
      /\ \A row \in Row : row.ticket.market # m => f[row] = 0
      /\ \A row \in Row : row.ticket.side # "YES" => f[row] = 0
  BY <1>2 DEF Contracts
<1>10. s.market = t.market
  BY DEF Counterpart
<1> DEFINE gain(x) == IF x.market = m /\ x.side = "YES" THEN IF Buys(x) THEN q ELSE -q ELSE 0
<1>11. f[own2] - f[own] = gain(t)
  BY <1>5, <1>8, <1>9
<1>12. f[resting2] - f[resting] = gain(s)
  BY <1>5, <1>8, <1>9
<1>13. gain(t) + gain(s) = IF t.market = m /\ Buys(t) /\ Buys(s) THEN q ELSE 0
  <2>1. CASE t.market # m
    BY <1>10, <2>1
  <2>2. CASE t.market = m /\ Buys(t) /\ Buys(s)
    <3>1. s.side = Opposite(t.side)
      BY <2>2 DEF Counterpart
    <3>. QED
      BY <1>8, <1>10, <2>2, <3>1 DEF Opposite
  <2>3. CASE t.market = m /\ ~(Buys(t) /\ Buys(s))
    <3>1. s.side = t.side /\ Buys(t) # Buys(s)
      BY <2>3 DEF Counterpart
    <3>2. (Buys(t) /\ ~Buys(s)) \/ (~Buys(t) /\ Buys(s))
      BY <3>1 DEF Buys
    <3>3. CASE Buys(t) /\ ~Buys(s)
      <4>1. gain(t) = IF t.side = "YES" THEN q ELSE 0
        BY <2>3, <3>3
      <4>2. gain(s) = IF t.side = "YES" THEN -q ELSE 0
        BY <1>10, <2>3, <3>1, <3>3
      <4> HIDE DEF gain
      <4>. QED
        BY <3>3, <4>1, <4>2
    <3>4. CASE ~Buys(t) /\ Buys(s)
      <4>1. gain(t) = IF t.side = "YES" THEN -q ELSE 0
        BY <2>3, <3>4
      <4>2. gain(s) = IF t.side = "YES" THEN q ELSE 0
        BY <1>10, <2>3, <3>1, <3>4
      <4> HIDE DEF gain
      <4>. QED
        BY <3>4, <4>1, <4>2
    <3>. QED
      BY <3>2, <3>3, <3>4
  <2>. QED
    BY <2>1, <2>2, <2>3
<1>14. /\ f[own2] \in Int /\ f[own] \in Int /\ f[resting2] \in Int /\ f[resting] \in Int
       /\ Pending(f, w) \in Int
  BY <1>1, RowSums
<1> HIDE DEF gain
<1>15. Pending(f, w)' = Pending(f, w) + (gain(t) + gain(s))
  BY <1>6, <1>7, <1>11, <1>12, <1>14
<1>. QED
  BY <1>2, <1>13, <1>15

\* Two bids that match pay at least the payout of each pair they make.
LEMMA StakesCover ==
    ASSUME NEW own \in Row, NEW resting \in Row, NEW q \in Nat,
           Buys(own.ticket), Buys(resting.ticket), Compatible(own.ticket, resting.ticket)
    PROVE  Stake(resting, q) + Stake(own, q) >= PayoutCents * q
<1>1. own.ticket.price \in Nat /\ resting.ticket.price \in Nat
  BY TicketType DEF Row
<1>2. PICK a \in Nat, b \in Nat : a = own.ticket.price /\ b = resting.ticket.price
  BY <1>1
<1>3. a + b >= 100
  BY <1>2 DEF Compatible, PayoutCents
<1>4. PICK d \in Nat : a + b = 100 + d
  <2>1. a + b - 100 \in Nat
    BY <1>3
  <2>. QED
    BY <2>1
<1>5. b * q + a * q = (a + b) * q
  OBVIOUS
<1>6. (100 + d) * q = 100 * q + d * q
  OBVIOUS
<1>7. d * q \in Nat /\ 100 * q \in Nat
  OBVIOUS
<1>8. b * q + a * q >= 100 * q
  BY <1>4, <1>5, <1>6, <1>7
<1>. QED
  BY <1>2, <1>8 DEF Stake, PayoutCents

\* A fill is paid for: a pair by two bids, a sale by the bid that takes it, out of which
\* the seller is to be credited.
LEMMA FillBacked ==
    ASSUME LocksInv, EngineInv', NEW w \in Workers, OwnRows(w), OwnWallets(w),
           NEW r \in OrderIds, FillOrder(w, r), ~Rollback(w), NEW m \in Markets,
           OwnBacked(w, m)
    PROVE  OwnBacked(w, m)'
<1>1. EngineInv /\ Counterparts(w) /\ pc \in [Workers -> Statement]
      /\ req[w].op = "place" /\ tx \in [Workers -> TxType]
  BY Served, Typed, Zenon DEF LocksInv, RowsInv, FillOrder
<1>2. PICK k \in OrderIds, q \in Nat, t \in Tickets, own \in Row, resting \in Row :
         /\ k = tx[w].order /\ k # r /\ t = req[w].ticket
         /\ own = draft[k] /\ resting = draft[r] /\ resting = tx[w].batch[r]
         /\ own.ticket = t /\ Exists(own) /\ Exists(resting)
         /\ q = Smaller(Unfilled(own), Unfilled(resting))
         /\ q <= Unfilled(own) /\ q <= Unfilled(resting)
         /\ Unfilled(own) \in Nat \ {0} /\ Unfilled(resting) \in Nat \ {0}
         /\ draft' = [draft EXCEPT ![k] = FillRow(own, q), ![r] = FillRow(resting, q)]
         /\ Compatible(t, resting.ticket)
         /\ owner[k] = w /\ owner[r] = w
  BY <1>1, FilledRows
<1>3. PICK s \in Tickets : s = resting.ticket
  BY DEF Row
<1>4. Counterpart(t, s)
  BY <1>1, <1>2, <1>3 DEF Counterparts
<1>5. PICK a \in Nat, b \in Nat : a = Stake(resting, q) /\ b = Stake(own, q)
  BY StakeType
<1>6. Owed(Paid(m), w)'
         = Owed(Paid(m), w)
             + (IF t.market # m THEN 0 ELSE a + (IF Buys(t) THEN b ELSE 0))
  BY <1>2, <1>5, FillPays
<1>7. Pending(Contracts(m, "YES"), w)'
         = Pending(Contracts(m, "YES"), w)
             + (IF t.market = m /\ Buys(t) /\ Buys(s) THEN q ELSE 0)
  <2>1. /\ k \in OrderIds /\ q \in Nat /\ t \in Tickets /\ s \in Tickets
        /\ own \in Row /\ resting \in Row /\ k # r
        /\ own = draft[k] /\ resting = draft[r] /\ own.ticket = t /\ resting.ticket = s
        /\ q <= Unfilled(own) /\ q <= Unfilled(resting)
    BY <1>2, <1>3
  <2>2. /\ draft'[k] = FillRow(own, q) /\ draft'[r] = FillRow(resting, q)
        /\ \A i \in OrderIds \ {k, r} : draft'[i] = draft[i]
    BY <1>1, <1>2, Typed
  <2>. QED
    BY <1>4, <2>1, <2>2, FillMakes
<1>8. Due(w, m) = 0
  BY DEF Due, FillOrder
<1>9. Due(w, m)' = IF t.market = m /\ ~Buys(t) THEN a ELSE 0
  <2>1. req' = req /\ pc'[w] = IF Buys(t) THEN "stamp" ELSE "seller"
    BY <1>1, <1>2 DEF FillOrder, Goto
  <2>2. ~Buys(t) => tx'[w].due = a
    <3>1. ~Buys(t) => tx' = [tx EXCEPT ![w].batch[r] = NoRow, ![w].due = a]
      BY <1>2, <1>5 DEF FillOrder
    <3>2. tx[w] \in TxType
      BY <1>1
    <3>. QED
      BY <1>1, <3>1, <3>2 DEF TxType
  <2>3. Due(w, m)' = IF pc'[w] = "seller" /\ req'[w].ticket.market = m THEN tx'[w].due ELSE 0
    BY DEF Due
  <2>. QED
    BY <1>2, <2>1, <2>2, <2>3
<1>10. Buys(t) /\ Buys(s) => a + b >= PayoutCents * q
  BY <1>2, <1>3, <1>5, StakesCover
<1>11. /\ Owed(Paid(m), w) \in Int /\ Pending(Contracts(m, "YES"), w) \in Int
  BY <1>1, BackedTypes
<1>12. PICK o \in Int, c \in Int :
          o = Owed(Paid(m), w) /\ c = Pending(Contracts(m, "YES"), w)
  BY <1>11
<1>13. o >= 100 * c
  BY <1>8, <1>12 DEF OwnBacked, PayoutCents
<1>14. CASE t.market = m /\ Buys(t) /\ Buys(s)
  <2>1. a + b >= 100 * q
    BY <1>10, <1>14 DEF PayoutCents
  <2>2. o + (a + b) >= 100 * (c + q)
    BY <1>13, <2>1
  <2>. QED
    BY <1>6, <1>7, <1>9, <1>12, <1>14, <2>2 DEF OwnBacked, PayoutCents
<1>15. CASE ~(t.market = m /\ Buys(t) /\ Buys(s))
  <2>1. PICK o2 \in Int, c2 \in Int, d2 \in Int :
           /\ o2 = Owed(Paid(m), w)' /\ c2 = Pending(Contracts(m, "YES"), w)'
           /\ d2 = Due(w, m)' /\ c2 = c /\ o2 - d2 >= o
    <3>1. Pending(Contracts(m, "YES"), w)' = c
      BY <1>7, <1>12, <1>15
    <3>2. CASE t.market = m
      BY <1>6, <1>9, <1>12, <3>1, <3>2
    <3>3. CASE t.market # m
      BY <1>6, <1>9, <1>12, <3>1, <3>3
    <3>. QED
      BY <3>2, <3>3
  <2>. QED
    BY <1>13, <2>1 DEF OwnBacked, PayoutCents
<1>. QED
  BY <1>14, <1>15

\* Only payouts and refunds pay anything out.
LEMMA PayoutsPay ==
    ASSUME EngineInv, NEW w \in Workers, Start(w) \/ Step(w), ~Rollback(w), ~Commit(w)
    PROVE  \/ \A u \in Users : purse'[u].won = purse[u].won
           \/ \E u \in Users : PayWinner(w, u) \/ Refund(w, u)
<1>1. purse \in [Users -> Wallet] /\ Wallet \subseteq Drawn
  BY Typed, WalletIsDrawn
<1>2. CASE EntriesKept
  BY <1>2 DEF EntriesKept
<1>3. CASE CreditSeller(w) \/ StampMarket(w)
  <2>1. req[w].ticket \in Tickets
    BY <1>3, Served, Zenon DEF CreditSeller, StampMarket
  <2>2. PICK t \in Tickets : t = req[w].ticket
    BY <2>1
  <2>3. PICK u \in Users, n \in Markets : u = t.user /\ n = t.market
    BY TicketType
  <2>4. PICK due : due = tx[w].due
    OBVIOUS
  <2>5. PICK p \in Wallet : p = purse[u]
    BY <1>1
  <2>6. CASE CreditSeller(w)
    <3>1. PICK q : q = [p EXCEPT !.available = @ + due, !.spent[n] = @ - due]
      OBVIOUS
    <3>2. purse' = [purse EXCEPT ![u] = q]
      BY <2>2, <2>3, <2>4, <2>5, <2>6, <3>1 DEF CreditSeller
    <3>3. q.won = p.won
      BY <3>1 DEF Wallet
    <3>. QED
      BY <1>1, <2>5, <3>2, <3>3
  <2>7. CASE StampMarket(w)
    <3>1. PICK q : q = [p EXCEPT !.available = @ - due, !.fees[n] = @ + due]
      OBVIOUS
    <3>2. purse' = [purse EXCEPT ![u] = q]
      BY <2>2, <2>3, <2>4, <2>5, <2>7, <3>1 DEF StampMarket
    <3>3. q.won = p.won
      BY <3>1 DEF Wallet
    <3>. QED
      BY <1>1, <2>5, <3>2, <3>3
  <2>. QED
    BY <1>3, <2>6, <2>7
<1>4. ASSUME NEW r \in OrderIds, FillOrder(w, r)
      PROVE  \A u \in Users : purse'[u].won = purse[u].won
  <2>1. PICK q : purse' = AfterFill(w, r, q) /\ q = Smaller(Unfilled(draft[tx[w].order]),
                                                            Unfilled(tx[w].batch[r]))
    BY <1>4, Zenon DEF FillOrder
  <2>2. PICK t \in Tickets : t = req[w].ticket
    BY <1>4, Served, Zenon DEF FillOrder
  <2>3. PICK resting \in Row, own \in Row : resting = tx[w].batch[r] /\ own = draft[tx[w].order]
    BY <1>4, FilledRows
  <2>4. q \in Nat
    BY <1>4, <2>1, <2>3, FilledRows
  <2>5. PICK u \in Users, v \in Users, n \in Markets :
           u = resting.ticket.user /\ v = t.user /\ n = t.market
    BY TicketType DEF Row
  <2>6. PICK a \in Nat, b \in Nat : a = Stake(resting, q) /\ b = Stake(own, q)
    BY <2>4, StakeType
  <2>7. PICK x \in Drawn : x = SpendReserved(purse[u], n, a) /\ x.won = purse[u].won
    <3>1. purse[u] \in Drawn
      BY <1>1
    <3>2. SpendReserved(purse[u], n, a) \in Drawn
      BY <3>1, SpendDrawn
    <3>3. SpendReserved(purse[u], n, a).won = purse[u].won
      BY <2>6, <3>1, SpendOutlay
    <3>. QED
      BY <3>2, <3>3
  <2>8. PICK p : p = [purse EXCEPT ![u] = x]
    OBVIOUS
  <2>9. \A z \in Users : p[z] \in Drawn /\ p[z].won = purse[z].won
    BY <1>1, <2>7, <2>8
  <2>10. PICK y : y = SpendReserved(p[v], n, b)
    OBVIOUS
  <2>11. y.won = p[v].won
    BY <2>6, <2>9, <2>10, SpendOutlay
  <2>12. purse' = IF Buys(t) THEN [p EXCEPT ![v] = y] ELSE p
    BY <2>1, <2>2, <2>3, <2>5, <2>6, <2>7, <2>8, <2>10, Zenon DEF AfterFill
  <2>13. DOMAIN p = Users
    BY <1>1, <2>8
  <2>. QED
    BY <2>9, <2>11, <2>12, <2>13
<1>. QED
  BY <1>2, <1>3, <1>4, EntryWriters

\* A statement of w keeps its own part backed.
LEMMA StepBacked ==
    ASSUME LocksInv, EngineInv', NEW w \in Workers, Start(w) \/ Step(w), ~Rollback(w),
           ~Commit(w), NEW m \in Markets, OwnBacked(w, m)
    PROVE  OwnBacked(w, m)'
<1>1. EngineInv /\ Holding(w)
  BY DEF LocksInv, RowsInv
<1>2. OwnRows(w) /\ OwnWallets(w) /\ (FillsKept \/ \E r \in OrderIds : FillOrder(w, r))
  BY <1>1, RowMoves, WalletMoves
<1>3. CASE \E r \in OrderIds : FillOrder(w, r)
  BY <1>2, <1>3, FillBacked
<1>4. CASE (CreditSeller(w) \/ StampMarket(w)) /\ ~\E r \in OrderIds : FillOrder(w, r)
  BY <1>2, <1>4, CreditBacked
<1>5. CASE /\ ~CreditSeller(w) /\ ~StampMarket(w)
           /\ ~\E r \in OrderIds : FillOrder(w, r)
  <2>1. FillsKept /\ PaymentsKept /\ pc[w] # "seller" /\ pc'[w] # "seller"
    BY <1>1, <1>2, <1>5, PaymentWriters, SellerSteps
  <2>. QED
    BY <1>2, <2>1, QuietBacked
<1>. QED
  BY <1>3, <1>4, <1>5

LEMMA BackedInit == Init => BackedInv
<1> SUFFICES ASSUME Init PROVE BackedInv
  OBVIOUS
<1>1. LedgerInv /\ LocksInv /\ EngineInv
  BY LedgerInit, LocksInit, InitInv
<1>3. \A u \in Users : /\ wallets[u].spent = [m \in Markets |-> 0]
                      /\ wallets[u].fees = [m \in Markets |-> 0]
                      /\ purse[u] = wallets[u]
  <2> SUFFICES ASSUME NEW u \in Users
               PROVE  /\ wallets[u].spent = [m \in Markets |-> 0]
                      /\ wallets[u].fees = [m \in Markets |-> 0]
                      /\ purse[u] = wallets[u]
    OBVIOUS
  <2>1. wallets[u] = NewWallet(InitialFunds[u]) /\ purse[u] = wallets[u]
    BY DEF Init
  <2>. QED
    BY <2>1 DEF NewWallet
<1>5. ASSUME NEW m \in Markets PROVE Backed(m)
  <2>1. PICK g \in [Wallet -> Int] : g = Paid(m) /\ \A p \in Wallet : g[p] = Outlay(p, m)
    BY PaidType
  <2>2. PICK f \in [Row -> Int] : f = Contracts(m, "YES")
    BY ContractsType
  <2>3. NoRow \in Row /\ NoRow.filled = 0
    BY NoRowType DEF NoRow
  <2>4. f[NoRow] = 0
    BY <2>2, <2>3 DEF Contracts
  <2>5. \A i \in OrderIds : orders[i] = NoRow /\ draft[i] = NoRow
    BY DEF Init, NoBatch
  <2>6. \A u \in Users : g[wallets[u]] = 0 /\ g[purse[u]] = 0
    <3> SUFFICES ASSUME NEW u \in Users PROVE g[wallets[u]] = 0 /\ g[purse[u]] = 0
      OBVIOUS
    <3>1. wallets[u] \in Wallet
      BY <1>1, Typed
    <3>2. Outlay(wallets[u], m) = 0
      BY <1>3 DEF Outlay
    <3>. QED
      BY <1>3, <2>1, <3>1, <3>2
  <2>7. IsFiniteSet(OrderIds) /\ IsFiniteSet(Users)
    BY <1>1, <2>2, RowSums, FiniteAssumption
  <2>8. Booked(f) = 0 /\ \A w \in Workers : Pending(f, w) = 0
    <3> DEFINE x == [i \in OrderIds |-> f[orders[i]]]
    <3>1. \A i \in OrderIds : x[i] = 0
      BY <2>4, <2>5
    <3>2. \A w \in Workers, i \in OrderIds : Change(f, w)[i] = 0
      BY <2>4, <2>5 DEF Change
    <3> HIDE DEF x
    <3>3. SumFunctionOnSet(x, OrderIds) = 0
      BY <2>7, <3>1, SumZero
    <3>4. \A w \in Workers : SumFunctionOnSet(Change(f, w), OrderIds) = 0
      BY <2>7, <3>2, SumZero
    <3>. QED
      BY <3>3, <3>4 DEF Booked, Pending, x
  <2>9. Held(g) = 0 /\ \A w \in Workers : Owed(g, w) = 0
    <3> DEFINE x == [u \in Users |-> g[wallets[u]]]
    <3>1. \A u \in Users : x[u] = 0
      BY <2>6
    <3>2. \A w \in Workers, u \in Users : Moved(g, w)[u] = 0
      BY <2>6 DEF Moved
    <3> HIDE DEF x
    <3>3. SumFunctionOnSet(x, Users) = 0
      BY <2>7, <3>1, SumZero
    <3>4. \A w \in Workers : SumFunctionOnSet(Moved(g, w), Users) = 0
      BY <2>7, <3>2, SumZero
    <3>. QED
      BY <3>3, <3>4 DEF Held, Owed, x
  <2>10. \A w \in Workers : Due(w, m) = 0
    BY DEF Init, Due
  <2>. QED
    BY <2>1, <2>2, <2>8, <2>9, <2>10 DEF Backed, PayoutCents
<1>. QED
  BY <1>1, <1>5 DEF BackedInv

\* What w does leaves the parts of the others backed.
LEMMA OthersBacked ==
    ASSUME EngineInv, EngineInv', NEW w \in Workers,
           Start(w) \/ Step(w) \/ Rollback(w) \/ Commit(w),
           OwnRows(w) \/ Rollback(w) \/ Commit(w), OwnWallets(w) \/ Rollback(w) \/ Commit(w),
           NEW v \in Workers \ {w}, NEW m \in Markets, OwnBacked(v, m)
    PROVE  OwnBacked(v, m)'
<1>1. PICK g \in [Wallet -> Int] : g = Paid(m)
  BY PaidType
<1>2. PICK f \in [Row -> Int] : f = Contracts(m, "YES")
  BY ContractsType
<1>3. RowsLeft(v) /\ WalletsLeft(v)
  BY OthersRows, OthersWallets
<1>4. Owed(g, v)' = Owed(g, v) /\ Pending(f, v)' = Pending(f, v)
  BY <1>3, BystanderOwed, BystanderPending
<1>5. pc'[v] = pc[v] /\ req'[v] = req[v] /\ tx'[v] = tx[v]
  BY OthersLocal
<1>6. Due(v, m)' = Due(v, m)
  BY <1>5 DEF Due
<1>. QED
  BY <1>1, <1>2, <1>4, <1>6 DEF OwnBacked

LEMMA BackedNext == BackedInv /\ [Next]_vars => BackedInv'
<1> SUFFICES ASSUME BackedInv, [Next]_vars PROVE BackedInv'
  OBVIOUS
<1>1. /\ LedgerInv /\ LocksInv /\ EngineInv
      /\ \A w \in Workers : Holding(w)
  BY DEF BackedInv, LocksInv, RowsInv
<1>2. LedgerInv' /\ LocksInv' /\ EngineInv'
  BY <1>1, LedgerNext, LocksNext, NextInv
<1>3. \A m \in Markets :
         /\ Held(Paid(m)) >= PayoutCents * Booked(Contracts(m, "YES"))
         /\ \A w \in Workers : OwnBacked(w, m)
  BY DEF BackedInv, Backed, OwnBacked
<1>4. SUFFICES \A m \in Markets : Backed(m)'
  BY <1>2 DEF BackedInv
<1>5. ASSUME NEW w \in Workers, (Start(w) \/ Step(w)) /\ ~Rollback(w) /\ ~Commit(w)
      PROVE  \A m \in Markets : Backed(m)'
  <2>1. OwnRows(w) /\ OwnWallets(w)
    BY <1>1, <1>5, RowMoves, WalletMoves
  <2>2. orders' = orders /\ wallets' = wallets
    BY <2>1 DEF OwnRows, OwnWallets
  <2>4. ASSUME NEW m \in Markets PROVE Backed(m)'
    <3>1. Held(Paid(m))' = Held(Paid(m))
      BY <2>2 DEF Held, Paid
    <3>2. Booked(Contracts(m, "YES"))' = Booked(Contracts(m, "YES"))
      BY <2>2 DEF Booked, Contracts
    <3>3. OwnBacked(w, m)'
      BY <1>1, <1>2, <1>3, <1>5, StepBacked
    <3>4. ASSUME NEW v \in Workers \ {w} PROVE OwnBacked(v, m)'
      BY <1>1, <1>2, <1>3, <1>5, <2>1, OthersBacked
    <3>. QED
      BY <1>3, <3>1, <3>2, <3>3, <3>4 DEF Backed, OwnBacked
  <2>. QED
    BY <2>4
<1>6. ASSUME NEW w \in Workers, Rollback(w) \/ Commit(w)
      PROVE  \A m \in Markets : Backed(m)'
  <2>1. \A i \in OrderIds : owner'[i] # w
    BY <1>6, EndedRows
  <2>2. \A u \in Users : holder'[u] # w
    BY <1>6, NobodyAssumption DEF Rollback, Commit, Unlock
  <2>3. pc'[w] = "idle"
    BY <1>1, <1>6, Typed DEF Rollback, Commit, EndRequest, Goto
  <2>5. ASSUME NEW m \in Markets PROVE Backed(m)'
    <3>1. PICK g \in [Wallet -> Int] : g = Paid(m)
      BY PaidType
    <3>2. PICK f \in [Row -> Int] : f = Contracts(m, "YES")
      BY ContractsType
    <3>3. Owed(g, w)' = 0 /\ Pending(f, w)' = 0
      BY <1>2, <2>1, <2>2, IdleOwed, IdlePending
    <3>4. Due(w, m)' = 0
      BY <2>3 DEF Due
    <3>5. OwnBacked(w, m)'
      BY <3>1, <3>2, <3>3, <3>4 DEF OwnBacked, PayoutCents
    <3>6. ASSUME NEW v \in Workers \ {w} PROVE OwnBacked(v, m)'
      BY <1>1, <1>2, <1>3, <1>6, OthersBacked
    <3>7. Held(g)' >= PayoutCents * Booked(f)'
      <4>1. Held(g) >= PayoutCents * Booked(f) /\ OwnBacked(w, m)
        BY <1>3, <3>1, <3>2
      <4>2. CASE Rollback(w)
        <5>1. wallets' = wallets /\ orders' = orders
          BY <4>2 DEF Rollback
        <5>. QED
          BY <4>1, <5>1 DEF Held, Booked
      <4>3. CASE Commit(w)
        <5>1. Held(g)' = Held(g) + Owed(g, w) /\ Booked(f)' = Booked(f) + Pending(f, w)
          BY <1>1, <4>3, CommitPays, CommitBooks
        <5>2. Due(w, m) = 0
          BY <4>3 DEF Due, Commit
        <5>3. Owed(g, w) - 0 >= PayoutCents * Pending(f, w)
          BY <3>1, <3>2, <4>1, <5>2 DEF OwnBacked
        <5>4. /\ Held(g) \in Int /\ Owed(g, w) \in Int
              /\ Booked(f) \in Int /\ Pending(f, w) \in Int
          BY <1>1, WalletSums, RowSums
        <5>. QED
          BY <4>1, <5>1, <5>3, <5>4 DEF PayoutCents
      <4>. QED
        BY <1>6, <4>2, <4>3
    <3>. QED
      BY <3>1, <3>2, <3>5, <3>6, <3>7 DEF Backed, OwnBacked
  <2>. QED
    BY <2>5
<1>7. CASE UNCHANGED <<orders, draft, owner, wallets, purse, holder, keeper, pc, req, tx>>
  <2>1. ASSUME NEW m \in Markets PROVE Backed(m)'
    <3>1. /\ Held(Paid(m))' = Held(Paid(m))
          /\ Booked(Contracts(m, "YES"))' = Booked(Contracts(m, "YES"))
      BY <1>7 DEF Held, Paid, Booked, Contracts
    <3>2. ASSUME NEW w \in Workers PROVE OwnBacked(w, m)'
      <4>1. Owed(Paid(m), w)' = Owed(Paid(m), w)
        BY <1>7 DEF Owed, Moved, Paid
      <4>2. Pending(Contracts(m, "YES"), w)' = Pending(Contracts(m, "YES"), w)
        BY <1>7 DEF Pending, Change, Contracts
      <4>3. Due(w, m)' = Due(w, m)
        BY <1>7 DEF Due
      <4>. QED
        BY <1>3, <4>1, <4>2, <4>3 DEF OwnBacked
    <3>. QED
      BY <1>3, <3>1, <3>2 DEF Backed, OwnBacked
  <2>. QED
    BY <2>1
<1>. QED
  BY <1>5, <1>6, <1>7, EngineSteps

\* What users have paid in on a market, net of what they were paid for sales, covers the
\* payout of every pair of contracts.
PairsPaidFor ==
    \A m \in Markets :
        SumFunction([u \in Users |-> Outlay(wallets[u], m)]) >= PayoutCents * Outstanding(m, "YES")

\* What users hold in contracts they have paid for, sale by sale and fee by fee, under
\* any interleaving of all requests, settlements and cancellations of markets included:
\* no fill moves contracts without the money, and none is undone without the other.
THEOREM PairsArePaidFor == Spec => []PairsPaidFor
<1>1. BackedInv => PairsPaidFor
  <2> SUFFICES ASSUME BackedInv, NEW m \in Markets
               PROVE  SumFunction([u \in Users |-> Outlay(wallets[u], m)])
                        >= PayoutCents * Outstanding(m, "YES")
    BY DEF PairsPaidFor
  <2>1. EngineInv /\ Backed(m)
    BY DEF BackedInv, LocksInv, RowsInv
  <2>2. PICK g \in [Wallet -> Int] : g = Paid(m) /\ \A p \in Wallet : g[p] = Outlay(p, m)
    BY PaidType
  <2>3. [u \in Users |-> Outlay(wallets[u], m)] = [u \in Users |-> g[wallets[u]]]
    <3>1. \A u \in Users : wallets[u] \in Wallet
      BY <2>1, Typed
    <3>. QED
      BY <2>2, <3>1
  <2>4. SumFunction([u \in Users |-> Outlay(wallets[u], m)]) = Held(Paid(m))
    BY <2>2, <2>3 DEF SumFunction, Held
  <2>5. Outstanding(m, "YES") = Booked(Contracts(m, "YES"))
    BY <2>1, OutstandingSum DEF Sides
  <2>. QED
    BY <2>1, <2>4, <2>5 DEF Backed
<1>. QED
  BY <1>1, BackedInit, BackedNext, PTL DEF Spec

----------------------------------------------------------------------------
(***************************************************************************)
(* The platform can pay, until markets are settled or cancelled.           *)
(***************************************************************************)

\* What users have gained together on a market.
Gains(m) == SumFunctionOnSet([u \in Users |-> Gained(wallets[u])[m]], Users)

\* The payout of the pairs that are still to be paid for.
Payable(m) == IF Settleable(m) THEN PayoutCents * Outstanding(m, "YES") ELSE 0

\* What users have gained is what they were paid less what they have paid.
LEMMA MarketGains ==
    ASSUME EngineInv, NEW m \in Markets
    PROVE  /\ \A u \in Users : Gained(wallets[u])[m] \in Int
           /\ Gains(m) \in Int /\ Outstanding(m, "YES") \in Int /\ Held(Paid(m)) \in Int
           /\ Gains(m) + Held(Paid(m))
                = SumFunctionOnSet([u \in Users |-> wallets[u].won[m]], Users)
<1>1. PICK g \in [Wallet -> Int] : g = Paid(m) /\ \A p \in Wallet : g[p] = Outlay(p, m)
  BY PaidType
<1>2. PICK cost : cost = [u \in Users |-> g[wallets[u]]]
  OBVIOUS
<1>3. PICK gain : gain = [u \in Users |-> Gained(wallets[u])[m]]
  OBVIOUS
<1>4. PICK won : won = [u \in Users |-> wallets[u].won[m]]
  OBVIOUS
<1>5. ASSUME NEW u \in Users
      PROVE  /\ gain[u] \in Int /\ cost[u] \in Int /\ won[u] = gain[u] + cost[u]
             /\ Gained(wallets[u])[m] \in Int
  <2>1. PICK p \in Wallet : p = wallets[u]
    BY Typed
  <2>2. PICK o \in Int : o = Outlay(p, m)
    BY OutlayType
  <2>3. PICK x \in Int : x = p.won[m]
    BY DEF Wallet
  <2>4. Gained(p)[m] = x - o /\ cost[u] = o
    BY <1>1, <1>2, <2>1, <2>2, <2>3 DEF Gained
  <2>5. gain[u] = x - o /\ won[u] = x
    BY <1>3, <1>4, <2>1, <2>3, <2>4
  <2>. QED
    BY <2>1, <2>4, <2>5
<1>6. SumFunctionOnSet(won, Users)
        = SumFunctionOnSet(gain, Users) + SumFunctionOnSet(cost, Users)
  BY <1>5, FiniteAssumption, SumPlus
<1>7. SumFunctionOnSet(cost, Users) = Held(Paid(m))
  BY <1>1, <1>2 DEF Held
<1>8. Held(Paid(m)) \in Int
  BY <1>1, WalletSums
<1>9. Outstanding(m, "YES") \in Int
  <2>1. Outstanding(m, "YES") = Booked(Contracts(m, "YES"))
    BY OutstandingSum DEF Sides
  <2>2. Booked(Contracts(m, "YES")) \in Int
    BY ContractsType, RowSums
  <2>. QED
    BY <2>1, <2>2
<1>10. SumFunctionOnSet(gain, Users) \in Int
  BY <1>5, FiniteAssumption, SumInt
<1>. QED
  BY <1>3, <1>4, <1>5, <1>6, <1>7, <1>8, <1>9, <1>10 DEF Gains

\* If users have gained nothing on any market, beyond minus what is promised on it, the
\* platform can pay: the sums of the wallets, by market, are the sums by user.
LEMMA Covered ==
    ASSUME LedgerInv, \A m \in Markets : Gains(m) + Payable(m) <= 0
    PROVE  Collateralised
<1>1. EngineInv
  BY DEF LedgerInv
<1>2. PICK live : live = {m \in Markets : market[m] \in {"open", "closed"}}
  OBVIOUS
<1>3. PICK pairs : pairs = [m \in Markets |-> Outstanding(m, "YES")]
  OBVIOUS
<1>4. PICK due : due = [m \in Markets |-> IF m \in live THEN pairs[m] ELSE 0]
  OBVIOUS
<1>5. PICK total : total = [u \in Users |-> Total(wallets[u])]
  OBVIOUS
<1>6. PICK gain : gain = [u \in Users |-> Gained(wallets[u])]
  OBVIOUS
<1>7. PICK won : won = [u \in Users |-> SumFunctionOnSet(gain[u], Markets)]
  OBVIOUS
<1>8. PICK column : column = [m \in Markets |->
                                SumFunctionOnSet([u \in Users |-> gain[u][m]], Users)]
  OBVIOUS
<1>9. PICK payout : payout = [m \in Markets |-> PayoutCents * due[m]]
  OBVIOUS
<1>10. PICK loss : loss = [m \in Markets |-> column[m] + payout[m]]
  OBVIOUS
<1>11. PICK minus \in Int : minus = -1
  OBVIOUS
<1>12. PICK surplus : surplus = [m \in Markets |-> minus * loss[m]]
  OBVIOUS
<1>13. ASSUME NEW m \in Markets
       PROVE  /\ column[m] \in Int /\ pairs[m] \in Int /\ due[m] \in Int /\ payout[m] \in Int
              /\ loss[m] = column[m] + payout[m] /\ loss[m] \in Int /\ surplus[m] \in Nat
  <2>1. [u \in Users |-> gain[u][m]] = [u \in Users |-> Gained(wallets[u])[m]]
    BY <1>6
  <2>2. column[m] = Gains(m)
    BY <1>8, <2>1 DEF Gains
  <2>3. PICK x \in Int, y \in Int : x = Gains(m) /\ y = Outstanding(m, "YES")
    BY <1>1, MarketGains
  <2>4. PICK z \in Int : z = IF m \in live THEN y ELSE 0
    OBVIOUS
  <2>5. pairs[m] = y /\ due[m] = z
    BY <1>3, <1>4, <2>3, <2>4
  <2>6. Payable(m) = 100 * z
    BY <1>2, <2>3, <2>4 DEF Payable, Settleable, PayoutCents
  <2>7. x + 100 * z <= 0
    <3>1. Gains(m) + Payable(m) <= 0
      OBVIOUS
    <3>. QED
      BY <2>3, <2>6, <3>1
  <2>8. column[m] = x /\ payout[m] = 100 * z /\ loss[m] = x + 100 * z
    BY <1>9, <1>10, <2>2, <2>3, <2>5 DEF PayoutCents
  <2>9. surplus[m] = -1 * (x + 100 * z)
    BY <1>11, <1>12, <2>8
  <2>. QED
    BY <2>5, <2>7, <2>8, <2>9
<1>14. \A u \in Users : \A m \in Markets : gain[u][m] \in Int
  BY <1>1, <1>6, MarketGains
<1>15. IsFiniteSet(Users) /\ IsFiniteSet(Markets) /\ DOMAIN InitialFunds = Users
         /\ \A u \in Users : InitialFunds[u] \in Int
  BY FiniteAssumption, FundsAssumption
<1>16. \A u \in Users : won[u] \in Int /\ total[u] = InitialFunds[u] + won[u]
  <2> SUFFICES ASSUME NEW u \in Users
               PROVE  won[u] \in Int /\ total[u] = InitialFunds[u] + won[u]
    OBVIOUS
  <2>1. Explained(wallets[u], InitialFunds[u])
    BY DEF LedgerInv
  <2>2. won[u] = SumFunctionOnSet(Gained(wallets[u]), Markets)
    BY <1>6, <1>7
  <2>3. total[u] = InitialFunds[u] + won[u]
    BY <1>5, <2>1, <2>2 DEF Explained
  <2>4. SumFunctionOnSet(gain[u], Markets) \in Int
    BY <1>14, <1>15, SumInt
  <2>. QED
    BY <1>7, <2>3, <2>4
<1>17. SumFunctionOnSet(total, Users)
         = SumFunctionOnSet(InitialFunds, Users) + SumFunctionOnSet(won, Users)
  BY <1>15, <1>16, SumPlus
<1>18. SumFunctionOnSet(won, Users) = SumFunctionOnSet(column, Markets)
  <2>1. PICK across : across = [m \in Markets |-> [u \in Users |-> gain[u][m]]]
    OBVIOUS
  <2>2. Transposed(across, gain, Users, Markets)
    BY <2>1 DEF Transposed
  <2>3. RowSum(column, across, Markets, Users)
    BY <1>8, <2>1 DEF RowSum
  <2>4. RowSum(won, gain, Users, Markets)
    BY <1>7 DEF RowSum
  <2>. QED
    BY <1>14, <1>15, <2>2, <2>3, <2>4, SumSwap
<1>19. SumFunctionOnSet(pairs, live) = SumFunctionOnSet(due, Markets)
  <2>1. live \in SUBSET Markets
    BY <1>2
  <2>2. /\ \A m \in live : pairs[m] \in Int /\ due[m] = pairs[m]
        /\ \A m \in Markets \ live : due[m] = 0
    BY <1>4, <1>13, <2>1
  <2>. QED
    BY <1>15, <2>1, <2>2, SumOfSome
<1>20. SumFunctionOnSet(payout, Markets) = PayoutCents * SumFunctionOnSet(due, Markets)
  <2>1. PayoutCents \in Int
    BY DEF PayoutCents
  <2>. QED
    BY <1>9, <1>13, <1>15, <2>1, SumScaled
<1>21. SumFunctionOnSet(loss, Markets)
         = SumFunctionOnSet(column, Markets) + SumFunctionOnSet(payout, Markets)
  BY <1>13, <1>15, SumPlus
<1>22. SumFunctionOnSet(surplus, Markets) = minus * SumFunctionOnSet(loss, Markets)
  <2>1. SumFunctionOnSet([m \in Markets |-> minus * loss[m]], Markets)
          = minus * SumFunctionOnSet(loss, Markets)
    BY <1>13, <1>15, SumScaled
  <2>. QED
    BY <1>12, <2>1
<1>23. SumFunctionOnSet(surplus, Markets) \in Nat
  BY <1>13, <1>15, SumNat
<1>24. PICK funds \in Int, c \in Int, d \in Int, e \in Int :
          /\ funds = SumFunctionOnSet(InitialFunds, Users)
          /\ c = SumFunctionOnSet(column, Markets)
          /\ d = SumFunctionOnSet(payout, Markets)
          /\ e = SumFunctionOnSet(loss, Markets)
  BY <1>13, <1>15, SumInt
<1>25. e <= 0 /\ e = c + d
  BY <1>11, <1>21, <1>22, <1>23, <1>24
<1>26. funds + c + d <= funds
  BY <1>25
<1>27. /\ SumFunction(total) = funds + c
       /\ SumFunction(InitialFunds) = funds
       /\ PayoutCents * SumFunctionOnSet(pairs, live) = d
  BY <1>5, <1>15, <1>17, <1>18, <1>19, <1>20, <1>24 DEF SumFunction
<1>28. SumFunction(total) + PayoutCents * SumFunctionOnSet(pairs, live)
         <= SumFunction(InitialFunds)
  BY <1>26, <1>27
<1>. QED
  BY <1>2, <1>3, <1>5, <1>28 DEF Collateralised

\* On a market that lasts, and has paid nothing out, users have lost at least the payout
\* of its pairs.
LEMMA LiveCovered ==
    ASSUME BackedInv, NEW m \in Markets, Settleable(m), \A u \in Users : wallets[u].won[m] = 0
    PROVE  Gains(m) + Payable(m) <= 0
<1>1. EngineInv /\ Backed(m)
  BY DEF BackedInv, LocksInv, RowsInv
<1>2. SumFunctionOnSet([u \in Users |-> wallets[u].won[m]], Users) = 0
  BY FiniteAssumption, SumZero
<1>3. PICK x \in Int, y \in Int, z \in Int :
         x = Gains(m) /\ y = Outstanding(m, "YES") /\ z = Held(Paid(m))
  BY <1>1, MarketGains
<1>4. x + z = 0
  BY <1>1, <1>2, <1>3, MarketGains
<1>5. Outstanding(m, "YES") = Booked(Contracts(m, "YES"))
  BY <1>1, OutstandingSum DEF Sides
<1>6. z >= 100 * y
  BY <1>1, <1>3, <1>5 DEF Backed, PayoutCents
<1>7. Payable(m) = 100 * y
  BY <1>3 DEF Payable, PayoutCents
<1>. QED
  BY <1>3, <1>4, <1>6, <1>7

Live == \A m \in Markets : market[m] \in {"open", "closed"}

NothingWon == \A u \in Users, m \in Markets : wallets[u].won[m] = 0 /\ purse[u].won[m] = 0

OpenInv == BackedInv /\ Asked /\ Live /\ NothingWon

\* Only a cancellation of a market, or its settlement, ends it.
LEMMA LiveNext ==
    ASSUME Ops \cap {"settle", "annul"} = {}, EngineInv, Asked, Live, [Next]_vars
    PROVE  Live'
<1>1. market \in [Markets -> MarketStatus]
  BY Typed
<1>2. ASSUME NEW w \in Workers, Start(w) \/ Step(w), ~Commit(w) PROVE market' = market
  <2>1. CASE Rollback(w)
    BY <2>1 DEF Rollback
  <2>2. CASE Start(w)
    BY <2>2 DEF Start, StartPlace, StartCancel, StartSettle, StartAnnul, marketVars
  <2>3. CASE PlaceStep(w) /\ ~Rollback(w)
    BY <2>3 DEF PlaceStep, Insert, ReserveFunds, CheckPosition, Scan, Cross, FillOrder,
                CreditSeller, StampMarket, FinishPlace, DropRemainder, marketVars
  <2>4. CASE CancelStep(w) /\ ~Rollback(w)
    BY <2>4, Zenon DEF CancelStep, CancelOrder, Unreserve, ReleaseFunds, marketVars
  <2>5. CASE SettleStep(w) /\ ~Rollback(w)
    BY <2>5 DEF SettleStep, Snapshot, SweepOrder, ReleaseSwept, ReleaseFunds, StartPayout,
                Assess, PayWinner, FinishSettle, marketVars
  <2>6. CASE AnnulStep(w) /\ ~Rollback(w)
    BY <2>6, Zenon DEF AnnulStep, LockForAnnul, LockForVoid, VoidOrder, StartRefund, Refund,
                FinishAnnul, marketVars
  <2>. QED
    BY <1>2, <2>1, <2>2, <2>3, <2>4, <2>5, <2>6 DEF Step
<1>3. ASSUME NEW w \in Workers, Rollback(w) PROVE market' = market
  BY <1>3 DEF Rollback
<1>4. ASSUME NEW w \in Workers, Commit(w) PROVE market' = market
  <2>1. req[w].op \notin {"settle", "annul"}
    BY DEF Asked
  <2>2. \A m \in Markets : FinalStatus(req[w], m) = market[m]
    BY <2>1 DEF FinalStatus
  <2>3. market' = [m \in Markets |-> market[m]]
    BY <1>4, <2>2 DEF Commit
  <2>. QED
    BY <1>1, <2>3
<1>5. ASSUME NEW m \in Markets, Expire(m) PROVE market' = market
  BY <1>5 DEF Expire
<1>6. ASSUME NEW m \in Markets, CloseExpired(m) PROVE Live'
  <2>1. market' = [market EXCEPT ![m] = "closed"]
    BY <1>6 DEF CloseExpired
  <2>. QED
    BY <1>1, <2>1 DEF Live
<1>7. market' = market => Live'
  BY DEF Live
<1>8. CASE UNCHANGED vars
  BY <1>7, <1>8 DEF vars
<1>. QED
  BY <1>2, <1>3, <1>4, <1>5, <1>6, <1>7, <1>8 DEF Next, Crash, DeadlockVictim

\* Placements and cancellations pay nothing out.
LEMMA WonKept ==
    ASSUME Ops \cap {"settle", "annul"} = {}, EngineInv, Asked, NEW w \in Workers,
           Start(w) \/ Step(w), ~Rollback(w), ~Commit(w)
    PROVE  \A u \in Users : purse'[u].won = purse[u].won
<1>1. req[w].op \notin {"settle", "annul"}
  BY DEF Asked
<1>2. \A u \in Users : ~PayWinner(w, u) /\ ~Refund(w, u)
  BY <1>1, Served DEF PayWinner, Refund
<1>. QED
  BY <1>2, PayoutsPay

LEMMA OpenInit == Init => OpenInv
<1> SUFFICES ASSUME Init PROVE OpenInv
  OBVIOUS
<1>1. BackedInv /\ Asked
  BY BackedInit, AskedInit
<1>2. Live
  BY DEF Init, Live
<1>3. NothingWon
  BY DEF Init, NewWallet, NothingWon
<1>. QED
  BY <1>1, <1>2, <1>3 DEF OpenInv

LEMMA OpenNext == Ops \cap {"settle", "annul"} = {} /\ OpenInv /\ [Next]_vars => OpenInv'
<1> SUFFICES ASSUME Ops \cap {"settle", "annul"} = {}, OpenInv, [Next]_vars
             PROVE  OpenInv'
  OBVIOUS
<1>1. EngineInv /\ Asked /\ Live /\ NothingWon
  BY DEF OpenInv, BackedInv, LocksInv, RowsInv
<1>2. BackedInv' /\ Asked' /\ Live'
  BY <1>1, BackedNext, AskedNext, LiveNext DEF OpenInv
<1>3. ASSUME NEW w \in Workers, (Start(w) \/ Step(w)) /\ ~Rollback(w) /\ ~Commit(w)
      PROVE  NothingWon'
  <2>1. \A u \in Users : purse'[u].won = purse[u].won
    BY <1>1, <1>3, WonKept
  <2>2. wallets' = wallets
    BY <1>3, PurseWriters
  <2>. QED
    BY <1>1, <2>1, <2>2 DEF NothingWon
<1>4. ASSUME NEW w \in Workers, Rollback(w) \/ Commit(w) PROVE NothingWon'
  BY <1>1, <1>4 DEF NothingWon, Rollback, Commit
<1>5. ASSUME UNCHANGED <<orders, draft, owner, wallets, purse, holder, keeper, pc, req, tx>>
      PROVE  NothingWon'
  BY <1>1, <1>5 DEF NothingWon
<1>6. NothingWon'
  BY <1>3, <1>4, <1>5, EngineSteps
<1>. QED
  BY <1>2, <1>6 DEF OpenInv

\* Unless markets are settled or cancelled, the platform can always pay, however
\* placements and cancellations of orders interleave, fail and crash: what users hold,
\* with the payout of every pair of contracts, is at most what they were granted.
THEOREM ContractsAreCovered ==
    ASSUME Ops \cap {"settle", "annul"} = {}
    PROVE  Spec => []Collateralised
<1>1. OpenInv => Collateralised
  <2> SUFFICES ASSUME OpenInv PROVE Collateralised
    OBVIOUS
  <2>1. \A m \in Markets : Gains(m) + Payable(m) <= 0
    BY LiveCovered DEF OpenInv, Live, NothingWon, Settleable
  <2>. QED
    BY <2>1, Covered DEF OpenInv, BackedInv
<1>2. OpenInv /\ [Next]_vars => OpenInv'
  BY OpenNext
<1>. QED
  BY <1>1, <1>2, OpenInit, PTL DEF Spec


----------------------------------------------------------------------------
(***************************************************************************)
(* What bids reserve is what wallets hold back.                            *)
(***************************************************************************)

\* What an order row of user u keeps in its owner's reserved column.
Tied(u) ==
    [row \in Row |-> IF row.ticket.user = u /\ Active(row) THEN Reserved(row) ELSE 0]

Backing == [p \in Wallet |-> p.reserved]

\* What w has written to a row of u and has still to write to the wallet of u: the
\* reservation of an order it has inserted, or the release of one it has cancelled.
Debt(w, u) ==
    IF pc[w] = "reserve" /\ req[w].ticket.user = u THEN Reserved(draft[tx[w].order])
    ELSE IF \/ pc[w] = "unreserve" /\ draft[req[w].order].ticket.user = u
            \/ pc[w] = "release" /\ draft[tx[w].order].ticket.user = u THEN -tx[w].due
    ELSE 0

Balanced(w, u) == Moved(Backing, w)[u] + Debt(w, u) = Pending(Tied(u), w)

\* A cancellation has locked the order whose reservation it releases.
CancelHolds(w) == pc[w] = "unreserve" => owner[req[w].order] = w

TiedInv ==
    /\ WholeInv
    /\ \A w \in Workers : CancelHolds(w)
    /\ \A u \in Users : /\ wallets[u].reserved = Booked(Tied(u))
                        /\ \A w \in Workers : Balanced(w, u)

LEMMA BackingType == Backing \in [Wallet -> Int] /\ \A p \in Wallet : Backing[p] = p.reserved
  BY DEF Backing, Wallet

\* What any row reserves is an integer; all that a whole row reserves is tied to it.
LEMMA TiedType ==
    ASSUME NEW u \in Users
    PROVE  /\ Tied(u) \in [Row -> Int]
           /\ \A row \in Row :
                 /\ Reserved(row) \in Int
                 /\ ~Active(row) => Tied(u)[row] = 0
                 /\ row.ticket.user # u => Tied(u)[row] = 0
                 /\ Exists(row) /\ Whole(row) /\ row.ticket.user = u
                       => Tied(u)[row] = Reserved(row)
<1>1. ASSUME NEW row \in Row PROVE Reserved(row) \in Int /\ (Unfilled(row) = 0 => Reserved(row) = 0)
  <2>1. row.ticket.price \in Nat /\ Unfilled(row) \in Int
    BY TicketType, UnfilledType DEF Row
  <2>2. PICK a \in Nat, b \in Int : a = row.ticket.price /\ b = Unfilled(row)
    BY <2>1
  <2>3. a * b \in Int /\ (b = 0 => a * b = 0)
    OBVIOUS
  <2>. QED
    BY <2>2, <2>3 DEF Reserved, Stake
<1>2. Tied(u) \in [Row -> Int]
  BY <1>1 DEF Tied
<1>3. ASSUME NEW row \in Row
      PROVE  Tied(u)[row] = IF row.ticket.user = u /\ Active(row) THEN Reserved(row) ELSE 0
  BY DEF Tied
<1>4. ASSUME NEW row \in Row, Exists(row), Whole(row), row.ticket.user = u
      PROVE  Tied(u)[row] = Reserved(row)
  BY <1>1, <1>3, <1>4 DEF Whole
<1>. QED
  BY <1>1, <1>2, <1>3, <1>4

LEMMA DebtType ==
    ASSUME EngineInv, NEW w \in Workers, NEW u \in Users
    PROVE  Debt(w, u) \in Int
<1>1. tx[w].due \in Nat
  BY Typed DEF TxType
<1>2. CASE pc[w] = "reserve"
  <2>1. tx[w].order \in OrderIds
    BY <1>2, Served
  <2>2. draft[tx[w].order] \in Row
    BY <2>1, Typed
  <2>3. Reserved(draft[tx[w].order]) \in Int
    BY <2>2, TiedType
  <2>. QED
    BY <1>2, <2>3 DEF Debt
<1>3. CASE pc[w] # "reserve"
  BY <1>1, <1>3 DEF Debt
<1>. QED
  BY <1>2, <1>3

\* A statement of w writes one row at most, which then ties up as much more as the
\* wallet of u holds back and is still owed.
RowTies(w, u) ==
    \E k \in OrderIds, a \in Int, d \in Int :
        /\ \A i \in OrderIds \ {k} : draft'[i] = draft[i]
        /\ purse'[u].reserved = purse[u].reserved + a
        /\ Debt(w, u)' = Debt(w, u) + d
        /\ Tied(u)[draft'[k]] = Tied(u)[draft[k]] + (a + d)

\* A statement that concerns no reservation.
NothingTied(w) ==
    /\ draft' = draft
    /\ \A u \in Users : purse'[u].reserved = purse[u].reserved
    /\ pc[w] \notin {"reserve", "unreserve", "release"}
    /\ pc'[w] \notin {"reserve", "unreserve", "release"}

\* Such a statement keeps the balance.
LEMMA RowBalanced ==
    ASSUME LocksInv, EngineInv', NEW w \in Workers, OwnRows(w), OwnWallets(w),
           NEW u \in Users, RowTies(w, u), Balanced(w, u)
    PROVE  Balanced(w, u)'
<1>1. EngineInv /\ RowsClean /\ WalletsClean
  BY DEF LocksInv, RowsInv
<1>2. PICK k \in OrderIds, a \in Int, d \in Int :
         /\ \A i \in OrderIds \ {k} : draft'[i] = draft[i]
         /\ purse'[u].reserved = purse[u].reserved + a
         /\ Debt(w, u)' = Debt(w, u) + d
         /\ Tied(u)[draft'[k]] = Tied(u)[draft[k]] + (a + d)
  BY DEF RowTies
<1>3. PICK g \in [Wallet -> Int] : g = Backing /\ \A p \in Wallet : g[p] = p.reserved
  BY BackingType
<1>4. PICK f \in [Row -> Int] : f = Tied(u)
  BY TiedType
<1>5. purse[u] \in Wallet /\ purse'[u] \in Wallet /\ draft[k] \in Row
  BY <1>1 DEF EngineInv, TypeOK
<1>6. Moved(g, w)'[u] = Moved(g, w)[u] + (g[purse'[u]] - g[purse[u]])
  BY <1>1, OwnMove
<1>7. Pending(f, w)' = Pending(f, w) + (f[draft'[k]] - f[draft[k]])
  BY <1>1, <1>2, OnePending
<1>8. f[draft[k]] \in Int /\ purse[u].reserved \in Int
  BY <1>5 DEF Wallet
<1>9. /\ Debt(w, u) \in Int /\ Moved(g, w)[u] \in Int /\ Pending(f, w) \in Int
  BY <1>1, DebtType, WalletSums, RowSums
<1>10. Moved(g, w)'[u] = Moved(g, w)[u] + a
  BY <1>2, <1>3, <1>5, <1>6, <1>8
<1>11. Pending(f, w)' = Pending(f, w) + (a + d)
  BY <1>2, <1>4, <1>7, <1>8
<1>12. Moved(g, w)[u] + Debt(w, u) = Pending(f, w)
  BY <1>3, <1>4 DEF Balanced
<1>13. Moved(g, w)'[u] + Debt(w, u)' = Pending(f, w)'
  BY <1>2, <1>9, <1>10, <1>11, <1>12
<1>. QED
  BY <1>3, <1>4, <1>13 DEF Balanced

\* A statement that writes no row and moves nothing into or out of reserved columns.
LEMMA QuietBalanced ==
    ASSUME LocksInv, EngineInv', NEW w \in Workers, OwnRows(w), OwnWallets(w),
           NEW u \in Users, NothingTied(w), Balanced(w, u)
    PROVE  Balanced(w, u)'
<1>1. EngineInv /\ RowsClean /\ WalletsClean
  BY DEF LocksInv, RowsInv
<1>2. PICK g \in [Wallet -> Int] : g = Backing /\ \A p \in Wallet : g[p] = p.reserved
  BY BackingType
<1>3. PICK f \in [Row -> Int] : f = Tied(u)
  BY TiedType
<1>4. purse[u] \in Wallet /\ purse'[u] \in Wallet
  BY <1>1 DEF EngineInv, TypeOK
<1>5. Moved(g, w)'[u] = Moved(g, w)[u] + (g[purse'[u]] - g[purse[u]])
  BY <1>1, OwnMove
<1>6. Pending(f, w)' = Pending(f, w)
  BY <1>1, SamePending DEF NothingTied
<1>7. Debt(w, u) = 0 /\ Debt(w, u)' = 0
  BY DEF Debt, NothingTied
<1>8. g[purse'[u]] = g[purse[u]] /\ g[purse[u]] \in Int /\ Moved(g, w)[u] \in Int
  BY <1>1, <1>2, <1>4, WalletSums DEF NothingTied
<1>9. Moved(g, w)[u] + 0 = Pending(f, w)
  BY <1>2, <1>3, <1>7 DEF Balanced
<1>10. Moved(g, w)'[u] + 0 = Pending(f, w)'
  BY <1>5, <1>6, <1>8, <1>9
<1>. QED
  BY <1>2, <1>3, <1>7, <1>10 DEF Balanced

\* An order is inserted before its reservation is made.
LEMMA InsertTies ==
    ASSUME EngineInv, NEW w \in Workers, Insert(w), NEW u \in Users
    PROVE  RowTies(w, u)
<1>1. EngineInv /\ draft \in [OrderIds -> Row] /\ tx \in [Workers -> TxType]
      /\ pc \in [Workers -> Statement]
  BY Typed
<1>2. req[w].ticket \in Tickets
  BY <1>1, Served DEF Insert
<1>3. PICK t \in Tickets : t = req[w].ticket
  BY <1>2
<1>4. PICK k \in OrderIds : /\ ~Exists(draft[k])
                            /\ draft' = [draft EXCEPT ![k] = NewRow(t)]
                            /\ tx' = [tx EXCEPT ![w].order = k]
  BY <1>3 DEF Insert, IsNextId
<1>5. PICK new \in Row : new = NewRow(t)
  BY NewRowType
<1>6. /\ Exists(new) /\ new.ticket = t /\ Whole(new)
  BY <1>5, NewRowType, NewWhole
<1>7. /\ pc'[w] = (IF Buys(t) THEN "reserve" ELSE "position") /\ req' = req
      /\ tx'[w].order = k /\ draft'[k] = new /\ purse'[u] = purse[u] /\ pc[w] = "insert"
  BY <1>1, <1>3, <1>4, <1>5 DEF Insert, Goto, TxType, walletVars
<1>8. PICK d \in Int : d = IF t.user = u THEN Reserved(new) ELSE 0
  BY TiedType
<1>9. Debt(w, u)' = d /\ Debt(w, u) = 0
  <2>1. ~Buys(t) => d = 0
    BY <1>6, <1>8 DEF Reserved
  <2>. QED
    BY <1>3, <1>7, <1>8, <2>1 DEF Debt
<1>10. Tied(u)[draft'[k]] = d /\ Tied(u)[draft[k]] = 0
  <2>1. draft[k] \in Row /\ ~Active(draft[k])
    BY <1>1, <1>4 DEF Exists, Active, ActiveStatuses
  <2>. QED
    BY <1>6, <1>7, <1>8, <2>1, TiedType
<1>11. \A i \in OrderIds \ {k} : draft'[i] = draft[i]
  BY <1>1, <1>4
<1>12. purse'[u].reserved = purse[u].reserved + 0
  <2>1. purse[u].reserved \in Int
    BY <1>1, Typed DEF Wallet
  <2>. QED
    BY <1>7, <2>1
<1>13. /\ Debt(w, u)' = Debt(w, u) + d
       /\ Tied(u)[draft'[k]] = Tied(u)[draft[k]] + (0 + d)
  BY <1>9, <1>10
<1>. QED
  BY <1>11, <1>12, <1>13 DEF RowTies

\* The reservation is made for all of a new order, which stays as it is.
LEMMA ReserveTies ==
    ASSUME EngineInv, NEW w \in Workers, ReserveFunds(w), ~Rollback(w), NEW u \in Users
    PROVE  RowTies(w, u)
<1>1. EngineInv /\ purse \in [Users -> Wallet] /\ pc \in [Workers -> Statement]
  BY Typed
<1>2. req[w].ticket \in Tickets /\ tx[w].order \in OrderIds /\ pc[w] = "reserve"
  BY <1>1, Served DEF ReserveFunds
<1>3. PICK t \in Tickets, k \in OrderIds : t = req[w].ticket /\ k = tx[w].order
  BY <1>2
<1>4. PICK v \in Users : v = t.user
  BY TicketType
<1>5. PICK row \in Row : row = draft[k]
  BY <1>1, Typed
<1>6. PICK b \in Int : b = Reserved(row)
  BY TiedType
<1>7. /\ draft' = draft /\ pc'[w] = "scan"
      /\ purse' = [purse EXCEPT ![v] = Reserve(purse[v], b)]
  BY <1>1, <1>3, <1>4, <1>5, <1>6 DEF ReserveFunds, Goto, orderVars
<1>8. PICK a \in Int : a = IF v = u THEN b ELSE 0
  OBVIOUS
<1>9. purse'[u].reserved = purse[u].reserved + a
  <2>1. PICK p \in Wallet : p = purse[u]
    BY <1>1
  <2>2. p.reserved \in Int /\ Reserve(p, b).reserved = p.reserved + b
    BY DEF Wallet, Reserve
  <2>3. purse'[u] = IF v = u THEN Reserve(p, b) ELSE p
    BY <1>1, <1>7, <2>1
  <2>. QED
    BY <1>8, <2>1, <2>2, <2>3
<1>10. Debt(w, u) = a /\ Debt(w, u)' = 0
  BY <1>2, <1>3, <1>4, <1>5, <1>6, <1>7, <1>8 DEF Debt
<1>11. PICK d \in Int : d = -a
  OBVIOUS
<1>12. Debt(w, u)' = Debt(w, u) + d
  BY <1>10, <1>11
<1>13. Tied(u)[draft'[k]] = Tied(u)[draft[k]] + (a + d)
  <2>1. Tied(u)[row] \in Int
    BY TiedType
  <2>. QED
    BY <1>5, <1>7, <1>11, <2>1
<1>14. \A i \in OrderIds \ {k} : draft'[i] = draft[i]
  BY <1>7
<1>. QED
  BY <1>9, <1>12, <1>13, <1>14 DEF RowTies

\* What is left of an IOC or FOK order is released with it.
LEMMA DropTies ==
    ASSUME EngineInv, NEW w \in Workers, NEW S, DropRemainder(w, S),
           pc[w] \in {"cross", "fill"}, ~Rollback(w), Whole(draft[tx[w].order]), NEW u \in Users
    PROVE  RowTies(w, u)
<1>1. EngineInv /\ purse \in [Users -> Wallet] /\ pc \in [Workers -> Statement]
      /\ draft \in [OrderIds -> Row]
  BY Typed
<1>2. req[w].ticket \in Tickets /\ tx[w].order \in OrderIds /\ req[w].op = "place"
  BY <1>1, Served
<1>3. PICK t \in Tickets, k \in OrderIds : t = req[w].ticket /\ k = tx[w].order
  BY <1>2
<1>4. PICK v \in Users : v = t.user
  BY TicketType
<1>5. PICK row \in Row : row = draft[k]
  BY <1>1
<1>6. PICK b \in Int : b = Reserved(row)
  BY TiedType
<1>7. row.ticket = t /\ Exists(row) /\ Unfilled(row) >= 0 /\ Whole(row)
  BY <1>1, <1>2, <1>3, <1>5, OwnRow
<1>8. PICK new \in Row : new = CancelRemainder(row) /\ ~Active(new)
  BY <1>7, CancelRemainderType
<1>9. /\ draft' = [draft EXCEPT ![k] = new] /\ pc'[w] = "commit"
      /\ purse' = [purse EXCEPT ![v] = Release(purse[v], b)]
  BY <1>1, <1>3, <1>4, <1>5, <1>6, <1>8 DEF DropRemainder, Goto
<1>10. PICK a \in Int : a = IF v = u THEN -b ELSE 0
  OBVIOUS
<1>11. purse'[u].reserved = purse[u].reserved + a
  <2>1. PICK p \in Wallet : p = purse[u]
    BY <1>1
  <2>2. p.reserved \in Int /\ Release(p, b).reserved = p.reserved - b
    BY DEF Wallet, Release
  <2>3. purse'[u] = IF v = u THEN Release(p, b) ELSE p
    BY <1>1, <1>9, <2>1
  <2>. QED
    BY <1>10, <2>1, <2>2, <2>3
<1>12. Debt(w, u)' = Debt(w, u) + 0
  BY <1>9 DEF Debt
<1>13. Tied(u)[draft'[k]] = Tied(u)[draft[k]] + (a + 0)
  <2>1. Tied(u)[new] = 0 /\ draft'[k] = new
    BY <1>1, <1>8, <1>9, TiedType
  <2>2. Tied(u)[row] = IF v = u THEN b ELSE 0
    BY <1>4, <1>6, <1>7, TiedType
  <2>. QED
    BY <1>5, <1>10, <2>1, <2>2
<1>14. \A i \in OrderIds \ {k} : draft'[i] = draft[i]
  BY <1>1, <1>9
<1>. QED
  BY <1>11, <1>12, <1>13, <1>14 DEF RowTies

\* The row of a cancelled order is written before its wallet.
LEMMA CancelTies ==
    ASSUME EngineInv, NEW w \in Workers, CancelOrder(w), ~Rollback(w),
           Whole(draft[req[w].order]), NEW u \in Users
    PROVE  RowTies(w, u)
<1>1. EngineInv /\ purse \in [Users -> Wallet] /\ pc \in [Workers -> Statement]
      /\ draft \in [OrderIds -> Row] /\ tx \in [Workers -> TxType]
  BY Typed
<1>2. req[w].order \in OrderIds /\ pc[w] = "row"
  BY <1>1, Served DEF CancelOrder
<1>3. PICK k \in OrderIds : k = req[w].order
  BY <1>2
<1>4. PICK row \in Row : row = draft[k]
  BY <1>1
<1>5. PICK b \in Int : b = Reserved(row)
  BY TiedType
<1>6. Active(row) /\ RowOK(row) /\ Exists(row) /\ Whole(row)
  BY <1>1, <1>3, <1>4 DEF CancelOrder, EngineInv, DraftsExtend, Active, Exists, ActiveStatuses
<1>7. PICK new \in Row : new = CancelRow(row, row) /\ ~Active(new) /\ new.ticket = row.ticket
  BY <1>6, CancelRowType
<1>8. /\ draft' = [draft EXCEPT ![k] = new] /\ pc'[w] = "unreserve" /\ req' = req
      /\ purse' = purse /\ tx' = [tx EXCEPT ![w].due = b]
  BY <1>1, <1>3, <1>4, <1>5, <1>7 DEF CancelOrder, Goto, walletVars
<1>9. tx'[w].due = b /\ draft'[k] = new
  BY <1>1, <1>8 DEF TxType
<1>10. PICK d \in Int : d = IF row.ticket.user = u THEN -b ELSE 0
  OBVIOUS
<1>11. Debt(w, u) = 0 /\ Debt(w, u)' = d
  <2>1. Debt(w, u) = 0
    BY <1>2 DEF Debt
  <2>2. Debt(w, u)' = IF draft'[req'[w].order].ticket.user = u THEN -tx'[w].due ELSE 0
    BY <1>8 DEF Debt
  <2>. QED
    BY <1>3, <1>7, <1>8, <1>9, <1>10, <2>1, <2>2
<1>12. purse'[u].reserved = purse[u].reserved + 0
  <2>1. purse[u].reserved \in Int
    BY <1>1 DEF Wallet
  <2>. QED
    BY <1>8, <2>1
<1>13. Tied(u)[draft'[k]] = Tied(u)[draft[k]] + (0 + d)
  <2>1. Tied(u)[new] = 0
    BY <1>7, TiedType
  <2>2. Tied(u)[row] = IF row.ticket.user = u THEN b ELSE 0
    BY <1>5, <1>6, TiedType
  <2>. QED
    BY <1>4, <1>9, <1>10, <2>1, <2>2
<1>14. /\ \A i \in OrderIds \ {k} : draft'[i] = draft[i]
       /\ Debt(w, u)' = Debt(w, u) + d
  BY <1>1, <1>8, <1>11
<1>. QED
  BY <1>12, <1>13, <1>14 DEF RowTies

\* The release of a cancelled order's reservation.
LEMMA ReleaseTies ==
    ASSUME EngineInv, NEW w \in Workers, Unreserve(w) \/ ReleaseSwept(w), ~Rollback(w),
           NEW u \in Users
    PROVE  RowTies(w, u)
<1>1. /\ purse \in [Users -> Wallet] /\ pc \in [Workers -> Statement]
      /\ draft \in [OrderIds -> Row] /\ tx \in [Workers -> TxType]
  BY Typed
<1>2. PICK k \in OrderIds, next \in {"commit", "sweep"} :
         /\ ReleaseFunds(w, k, next)
         /\ \/ pc[w] = "unreserve" /\ k = req[w].order
            \/ pc[w] = "release" /\ k = tx[w].order
  <2>1. CASE Unreserve(w)
    BY <2>1, Served DEF Unreserve
  <2>2. CASE ReleaseSwept(w)
    BY <2>2, Served DEF ReleaseSwept
  <2>. QED
    BY <2>1, <2>2
<1>3. PICK due \in Nat : due = tx[w].due
  BY <1>1 DEF TxType
<1>4. PICK row \in Row : row = draft[k]
  BY <1>1
<1>5. PICK v \in Users : v = row.ticket.user
  BY TicketType DEF Row
<1>6. /\ draft' = draft /\ pc'[w] = next
      /\ purse' = [purse EXCEPT ![v] = Release(purse[v], due)]
  BY <1>1, <1>2, <1>3, <1>4, <1>5 DEF ReleaseFunds, Goto, orderVars
<1>7. PICK a \in Int : a = IF v = u THEN -due ELSE 0
  OBVIOUS
<1>8. purse'[u].reserved = purse[u].reserved + a
  <2>1. PICK p \in Wallet : p = purse[u]
    BY <1>1
  <2>2. p.reserved \in Int /\ Release(p, due).reserved = p.reserved - due
    BY DEF Wallet, Release
  <2>3. purse'[u] = IF v = u THEN Release(p, due) ELSE p
    BY <1>1, <1>6, <2>1
  <2>. QED
    BY <1>7, <2>1, <2>2, <2>3
<1>9. Debt(w, u) = a /\ Debt(w, u)' = 0
  BY <1>2, <1>3, <1>4, <1>5, <1>6, <1>7 DEF Debt
<1>10. PICK d \in Int : d = -a
  OBVIOUS
<1>11. Debt(w, u)' = Debt(w, u) + d
  BY <1>9, <1>10
<1>12. Tied(u)[draft'[k]] = Tied(u)[draft[k]] + (a + d)
  <2>1. Tied(u)[row] \in Int
    BY TiedType
  <2>. QED
    BY <1>4, <1>6, <1>10, <2>1
<1>13. \A i \in OrderIds \ {k} : draft'[i] = draft[i]
  BY <1>6
<1>. QED
  BY <1>8, <1>11, <1>12, <1>13 DEF RowTies

\* A settlement cancels the row it loaded, before it releases what the row reserved.
LEMMA SweepTies ==
    ASSUME EngineInv, NEW w \in Workers, NEW k \in OrderIds, SweepOrder(w, k),
           tx[w].batch[k] = draft[k], Whole(draft[k]), NEW u \in Users
    PROVE  RowTies(w, u)
<1>1. /\ purse \in [Users -> Wallet] /\ pc \in [Workers -> Statement]
      /\ draft \in [OrderIds -> Row] /\ tx \in [Workers -> TxType]
  BY Typed
<1>2. PICK row \in Row : row = draft[k]
  BY <1>1
<1>3. PICK b \in Int : b = Reserved(row)
  BY TiedType
<1>4. Active(row) /\ RowOK(row) /\ Exists(row) /\ Whole(row) /\ pc[w] = "sweep"
  BY <1>2, NextRow DEF SweepOrder, Active, Exists, ActiveStatuses
<1>5. PICK new \in Row : new = CancelRow(row, row) /\ ~Active(new) /\ new.ticket = row.ticket
  BY <1>4, CancelRowType
<1>6. /\ draft' = [draft EXCEPT ![k] = new] /\ purse' = purse
      /\ pc'[w] = IF b = 0 THEN "sweep" ELSE "release"
  BY <1>1, <1>2, <1>3, <1>5 DEF SweepOrder, Goto, walletVars
<1>7. tx' = [tx EXCEPT ![w].batch[k] = NoRow, ![w].order = k, ![w].due = b]
  BY <1>2, <1>3 DEF SweepOrder
<1>8. tx'[w].order = k /\ tx'[w].due = b /\ draft'[k] = new
  BY <1>1, <1>6, <1>7 DEF TxType
<1>9. PICK d \in Int : d = IF row.ticket.user = u THEN -b ELSE 0
  OBVIOUS
<1>10. Debt(w, u) = 0 /\ Debt(w, u)' = d
  <2>1. Debt(w, u) = 0
    BY <1>4 DEF Debt
  <2>2. CASE b = 0
    <3>1. pc'[w] = "sweep"
      BY <1>6, <2>2
    <3>2. -b = 0
      <4>1. \A x \in Int : -x = 0 - x
        OBVIOUS
      <4>2. 0 - b = 0
        BY <2>2
      <4>. QED
        BY <4>1, <4>2
    <3>3. d = 0
      BY <1>9, <3>2
    <3>. QED
      BY <2>1, <3>1, <3>3 DEF Debt
  <2>3. CASE b # 0
    <3>1. pc'[w] = "release"
      BY <1>6, <2>3
    <3>2. Debt(w, u)' = IF draft'[tx'[w].order].ticket.user = u THEN -tx'[w].due ELSE 0
      BY <3>1 DEF Debt
    <3>. QED
      BY <1>5, <1>8, <1>9, <2>1, <3>2
  <2>. QED
    BY <2>2, <2>3
<1>11. purse'[u].reserved = purse[u].reserved + 0
  <2>1. purse[u].reserved \in Int
    BY <1>1 DEF Wallet
  <2>. QED
    BY <1>6, <2>1
<1>12. Tied(u)[draft'[k]] = Tied(u)[draft[k]] + (0 + d)
  <2>1. Tied(u)[new] = 0
    BY <1>5, TiedType
  <2>2. Tied(u)[row] = IF row.ticket.user = u THEN b ELSE 0
    BY <1>3, <1>4, TiedType
  <2>. QED
    BY <1>2, <1>8, <1>9, <2>1, <2>2
<1>13. /\ \A i \in OrderIds \ {k} : draft'[i] = draft[i]
       /\ Debt(w, u)' = Debt(w, u) + d
  BY <1>1, <1>6, <1>10
<1>. QED
  BY <1>11, <1>12, <1>13 DEF RowTies

\* A fill takes its stake out of what a bid ties up.
LEMMA FillTies ==
    ASSUME NEW row \in Row, NEW q \in Nat, q <= Unfilled(row), Exists(row), Whole(row),
           NEW u \in Users
    PROVE  Tied(u)[FillRow(row, q)]
              = Tied(u)[row]
                  - (IF Buys(row.ticket) /\ row.ticket.user = u THEN Stake(row, q) ELSE 0)
<1>1. PICK new \in Row : new = FillRow(row, q)
  BY FillRowType
<1>2. new.ticket = row.ticket /\ Exists(new) /\ Whole(new) /\ new.filled = row.filled + q
  BY <1>1, FillRowType, FillWhole
<1>3. new.cancelled = row.cancelled
  BY <1>1 DEF FillRow, Row
<1>4. Unfilled(new) = Unfilled(row) - q
  <2>1. row.ticket.quantity \in Int /\ row.filled \in Int /\ row.cancelled \in Int
    BY TicketType DEF Row
  <2>. QED
    BY <1>2, <1>3, <2>1 DEF Unfilled
<1>5. PICK a \in Nat, b \in Int : a = row.ticket.price /\ b = Unfilled(row)
  BY TicketType, UnfilledType DEF Row
<1>6. a * (b - q) = a * b - a * q /\ a * b \in Int /\ a * q \in Int
  OBVIOUS
<1>7. /\ Reserved(new) = Reserved(row) - (IF Buys(row.ticket) THEN Stake(row, q) ELSE 0)
      /\ Reserved(row) \in Int
  BY <1>2, <1>4, <1>5, <1>6 DEF Reserved, Stake
<1>8. CASE row.ticket.user = u
  <2>1. Tied(u)[new] = Reserved(new) /\ Tied(u)[row] = Reserved(row)
    BY <1>2, <1>8, TiedType
  <2>. QED
    BY <1>1, <1>7, <1>8, <2>1
<1>9. CASE row.ticket.user # u
  <2>1. Tied(u)[new] = 0 /\ Tied(u)[row] = 0
    BY <1>2, <1>9, TiedType
  <2>. QED
    BY <1>1, <1>9, <2>1
<1>. QED
  BY <1>8, <1>9

\* A fill takes c out of the reserved column for the resting order and d for the incoming
\* one.  A resting sell pays although it has reserved nothing.
LEMMA FillReserves ==
    ASSUME EngineInv, NEW w \in Workers, NEW r \in OrderIds, FillOrder(w, r), ~Rollback(w),
           \A i \in OrderIds : Whole(draft[i]), NEW u \in Users
    PROVE  \E k \in OrderIds \ {r}, c \in Nat, d \in Nat, e \in Nat :
              /\ \A i \in OrderIds \ {k, r} : draft'[i] = draft[i]
              /\ purse'[u].reserved = purse[u].reserved - c - d
              /\ Tied(u)[draft'[k]] = Tied(u)[draft[k]] - d
              /\ Tied(u)[draft'[r]] = Tied(u)[draft[r]] - e
              /\ e <= c
              /\ Buys(draft[r].ticket) => e = c
              /\ pc[w] = "fill" /\ pc'[w] \in {"stamp", "seller"}
<1>1. purse \in [Users -> Wallet] /\ draft \in [OrderIds -> Row] /\ pc \in [Workers -> Statement]
  BY Typed
<1>2. PICK k \in OrderIds, q \in Nat, t \in Tickets, own \in Row, resting \in Row :
         /\ k = tx[w].order /\ k # r /\ t = req[w].ticket
         /\ own = draft[k] /\ resting = draft[r] /\ resting = tx[w].batch[r]
         /\ own.ticket = t /\ Exists(own) /\ Exists(resting)
         /\ q = Smaller(Unfilled(own), Unfilled(resting))
         /\ q <= Unfilled(own) /\ q <= Unfilled(resting)
         /\ draft' = [draft EXCEPT ![k] = FillRow(own, q), ![r] = FillRow(resting, q)]
  BY FilledRows
<1>3. PICK a \in Nat, b \in Nat : a = Stake(own, q) /\ b = Stake(resting, q)
  BY StakeType
<1>4. PICK v \in Users, z \in Users, m \in Markets :
         v = t.user /\ z = resting.ticket.user /\ m = t.market
  BY TicketType DEF Row
<1>5. PICK p : p = [purse EXCEPT ![z] = SpendReserved(purse[z], m, b)]
  OBVIOUS
<1>6. purse' = IF Buys(t) THEN [p EXCEPT ![v] = SpendReserved(p[v], m, a)] ELSE p
  <2>1. purse' = AfterFill(w, r, q)
    BY <1>2, Zenon DEF FillOrder
  <2>. QED
    BY <1>2, <1>3, <1>4, <1>5, <2>1 DEF AfterFill
<1>7. PICK c \in Nat, d \in Nat, e \in Nat :
         /\ c = (IF z = u THEN b ELSE 0)
         /\ d = (IF Buys(t) /\ v = u THEN a ELSE 0)
         /\ e = (IF Buys(resting.ticket) /\ z = u THEN b ELSE 0)
  OBVIOUS
<1>8. purse'[u].reserved = purse[u].reserved - c - d
  <2>1. purse[z] \in Drawn /\ purse[u] \in Drawn
    BY <1>1, WalletIsDrawn
  <2>2. SpendReserved(purse[z], m, b) \in Drawn
    BY <2>1, SpendDrawn
  <2>3. p[u] \in Drawn /\ p[u].reserved = purse[u].reserved - c
    <3>1. SpendReserved(purse[z], m, b).reserved = purse[z].reserved - b
      BY <2>1 DEF SpendReserved, Drawn
    <3>2. p[u] = IF u = z THEN SpendReserved(purse[z], m, b) ELSE purse[u]
      BY <1>1, <1>5
    <3>3. purse[u].reserved \in Int
      BY <2>1 DEF Drawn
    <3>. QED
      BY <1>7, <2>1, <2>2, <3>1, <3>2, <3>3
  <2>4. purse'[u] = IF Buys(t) /\ u = v THEN SpendReserved(p[u], m, a) ELSE p[u]
    BY <1>1, <1>5, <1>6
  <2>5. SpendReserved(p[u], m, a).reserved = p[u].reserved - a
    BY <2>3 DEF SpendReserved, Drawn
  <2>6. purse[u].reserved \in Int
    BY <2>1 DEF Drawn
  <2>. QED
    BY <1>7, <2>3, <2>4, <2>5, <2>6
<1>9. /\ draft'[k] = FillRow(own, q) /\ draft'[r] = FillRow(resting, q)
      /\ \A i \in OrderIds \ {k, r} : draft'[i] = draft[i]
  BY <1>1, <1>2
<1>10. Whole(own) /\ Whole(resting)
  BY <1>2
<1>11. Tied(u)[draft'[k]] = Tied(u)[draft[k]] - d
  <2>1. Exists(own) /\ q <= Unfilled(own) /\ own.ticket = t /\ draft[k] = own
    BY <1>2
  <2>2. Tied(u)[FillRow(own, q)]
           = Tied(u)[own]
               - (IF Buys(own.ticket) /\ own.ticket.user = u THEN Stake(own, q) ELSE 0)
    BY <1>10, <2>1, FillTies
  <2>3. d = IF Buys(own.ticket) /\ own.ticket.user = u THEN Stake(own, q) ELSE 0
    BY <1>3, <1>4, <1>7, <2>1
  <2>. QED
    BY <1>9, <2>1, <2>2, <2>3
<1>12. Tied(u)[draft'[r]] = Tied(u)[draft[r]] - e
  <2>1. Exists(resting) /\ q <= Unfilled(resting) /\ draft[r] = resting
    BY <1>2
  <2>2. Tied(u)[FillRow(resting, q)]
           = Tied(u)[resting]
               - (IF Buys(resting.ticket) /\ resting.ticket.user = u
                  THEN Stake(resting, q) ELSE 0)
    BY <1>10, <2>1, FillTies
  <2>3. e = IF Buys(resting.ticket) /\ resting.ticket.user = u THEN Stake(resting, q) ELSE 0
    BY <1>3, <1>4, <1>7
  <2>. QED
    BY <1>9, <2>1, <2>2, <2>3
<1>13. pc[w] = "fill" /\ pc'[w] \in {"stamp", "seller"}
  BY <1>1, <1>2, Zenon DEF FillOrder, Goto
<1>14. e <= c /\ (Buys(draft[r].ticket) => e = c)
  BY <1>2, <1>7
<1>15. k \in OrderIds \ {r}
  BY <1>2
<1>. QED
  BY <1>7, <1>8, <1>9, <1>11, <1>12, <1>13, <1>14, <1>15

\* Both bids of a fill are paid out of what they had reserved.
LEMMA FillBalanced ==
    ASSUME LocksInv, EngineInv', NEW w \in Workers, OwnRows(w), OwnWallets(w),
           NEW r \in OrderIds, FillOrder(w, r), ~Rollback(w), \A t \in Tickets : Buys(t),
           \A i \in OrderIds : Whole(draft[i]), NEW u \in Users, Balanced(w, u)
    PROVE  Balanced(w, u)'
<1>1. EngineInv /\ RowsClean /\ WalletsClean /\ draft[r] \in Row
  BY Typed DEF LocksInv, RowsInv
<1>2. PICK k \in OrderIds \ {r}, c \in Nat, d \in Nat, e \in Nat :
         /\ \A i \in OrderIds \ {k, r} : draft'[i] = draft[i]
         /\ purse'[u].reserved = purse[u].reserved - c - d
         /\ Tied(u)[draft'[k]] = Tied(u)[draft[k]] - d
         /\ Tied(u)[draft'[r]] = Tied(u)[draft[r]] - e
         /\ Buys(draft[r].ticket) => e = c
         /\ pc[w] = "fill" /\ pc'[w] \in {"stamp", "seller"}
  BY <1>1, FillReserves
<1>3. e = c
  BY <1>1, <1>2 DEF Row
<1>4. PICK g \in [Wallet -> Int] : g = Backing /\ \A x \in Wallet : g[x] = x.reserved
  BY BackingType
<1>5. PICK f \in [Row -> Int] : f = Tied(u)
  BY TiedType
<1>6. purse[u] \in Wallet /\ purse'[u] \in Wallet
  BY <1>1 DEF EngineInv, TypeOK
<1>7. Moved(g, w)'[u] = Moved(g, w)[u] + (g[purse'[u]] - g[purse[u]])
  BY <1>1, OwnMove
<1>8. Pending(f, w)' = Pending(f, w) + (f[draft'[k]] - f[draft[k]])
                                     + (f[draft'[r]] - f[draft[r]])
  BY <1>1, <1>2, TwoPending
<1>9. Debt(w, u) = 0 /\ Debt(w, u)' = 0
  BY <1>2 DEF Debt
<1>10. /\ f[draft[k]] \in Int /\ f[draft[r]] \in Int /\ g[purse[u]] \in Int
       /\ Moved(g, w)[u] \in Int /\ Pending(f, w) \in Int
  BY <1>1, <1>6, WalletSums, RowSums
<1>11. Moved(g, w)[u] + 0 = Pending(f, w)
  BY <1>4, <1>5, <1>9 DEF Balanced
<1>12. Pending(f, w)' = Pending(f, w) - d - c
  BY <1>2, <1>3, <1>5, <1>8, <1>10
<1>13. Moved(g, w)'[u] = Moved(g, w)[u] - c - d
  BY <1>2, <1>4, <1>6, <1>7, <1>10
<1>14. Moved(g, w)'[u] + 0 = Pending(f, w)'
  BY <1>10, <1>11, <1>12, <1>13
<1>. QED
  BY <1>4, <1>5, <1>9, <1>14 DEF Balanced

\* The statements, by what they do to reservations.
LEMMA TieSteps ==
    ASSUME EngineInv, NEW w \in Workers, Start(w) \/ Step(w), ~Rollback(w), ~Commit(w)
    PROVE  \/ NothingTied(w)
           \/ Insert(w) \/ ReserveFunds(w)
           \/ pc[w] \in {"cross", "fill"} /\ \E S : DropRemainder(w, S)
           \/ \E r \in OrderIds : FillOrder(w, r)
           \/ CancelOrder(w) \/ Unreserve(w) \/ ReleaseSwept(w)
           \/ \E i \in OrderIds : SweepOrder(w, i) \/ VoidOrder(w, i)
<1>1. pc \in [Workers -> Statement] /\ purse \in [Users -> Wallet]
  BY Typed
<1>2. CASE Start(w)
  <2>1. draft' = draft /\ purse' = purse
    BY <1>2 DEF Start, StartPlace, StartCancel, StartSettle, StartAnnul, orderVars, walletVars
  <2>2. pc[w] = "idle" /\ pc'[w] \in {"insert", "row", "snapshot", "annul"}
    BY <1>2, StartRequest
  <2>. QED
    BY <2>1, <2>2 DEF NothingTied
<1>3. CASE CheckPosition(w) \/ Scan(w)
  BY <1>1, <1>3 DEF CheckPosition, Scan, Goto, orderVars, walletVars, NothingTied
<1>4. CASE Cross(w)
  BY <1>1, <1>4 DEF Cross, Goto, walletVars, NothingTied
<1>5. CASE FinishPlace(w)
  BY <1>1, <1>5 DEF FinishPlace, Goto, orderVars, walletVars, NothingTied
<1>6. CASE CreditSeller(w) \/ StampMarket(w)
  <2>1. req[w].ticket \in Tickets
    BY <1>6, Served DEF CreditSeller, StampMarket
  <2>2. PICK t \in Tickets : t = req[w].ticket
    BY <2>1
  <2>3. PICK v \in Users, n \in Markets : v = t.user /\ n = t.market
    BY TicketType
  <2>4. PICK due : due = tx[w].due
    OBVIOUS
  <2>5. PICK p \in Wallet : p = purse[v]
    BY <1>1
  <2>6. CASE CreditSeller(w)
    <3>1. PICK q : q = [p EXCEPT !.available = @ + due, !.spent[n] = @ - due]
      OBVIOUS
    <3>2. purse' = [purse EXCEPT ![v] = q]
      BY <2>2, <2>3, <2>4, <2>5, <2>6, <3>1 DEF CreditSeller
    <3>3. q.reserved = p.reserved
      BY <3>1 DEF Wallet
    <3>4. \A u \in Users : purse'[u].reserved = purse[u].reserved
      BY <1>1, <2>5, <3>2, <3>3
    <3>. QED
      BY <1>1, <2>6, <3>4, Zenon DEF CreditSeller, Goto, orderVars, NothingTied
  <2>7. CASE StampMarket(w)
    <3>1. PICK q : q = [p EXCEPT !.available = @ - due, !.fees[n] = @ + due]
      OBVIOUS
    <3>2. purse' = [purse EXCEPT ![v] = q]
      BY <2>2, <2>3, <2>4, <2>5, <2>7, <3>1 DEF StampMarket
    <3>3. q.reserved = p.reserved
      BY <3>1 DEF Wallet
    <3>4. \A u \in Users : purse'[u].reserved = purse[u].reserved
      BY <1>1, <2>5, <3>2, <3>3
    <3>. QED
      BY <1>1, <2>7, <3>4, Zenon DEF StampMarket, Goto, orderVars, NothingTied
  <2>. QED
    BY <1>6, <2>6, <2>7
<1>7. CASE Snapshot(w) \/ StartPayout(w) \/ FinishSettle(w)
  BY <1>1, <1>7 DEF Snapshot, StartPayout, FinishSettle, Goto, orderVars, walletVars, NothingTied
<1>8. CASE LockForAnnul(w) \/ StartRefund(w) \/ FinishAnnul(w)
  BY <1>1, <1>8 DEF LockForAnnul, StartRefund, FinishAnnul, Goto, orderVars, walletVars, NothingTied
<1>9. ASSUME NEW i \in OrderIds, LockForVoid(w, i) PROVE NothingTied(w)
  BY <1>1, <1>9 DEF LockForVoid, Goto, orderVars, NothingTied
<1>10. ASSUME NEW v \in Users, Assess(w, v) PROVE NothingTied(w)
  BY <1>1, <1>10 DEF Assess, Goto, orderVars, walletVars, NothingTied
<1>11. ASSUME NEW v \in Users, PayWinner(w, v) \/ Refund(w, v) PROVE NothingTied(w)
  <2>1. PICK m : m = req[w].market
    OBVIOUS
  <2>2. PICK p \in Wallet : p = purse[v]
    BY <1>1
  <2>3. PICK b, q : /\ q = [p EXCEPT !.available = @ + b, !.won[m] = @ + b]
                    /\ purse' = [purse EXCEPT ![v] = q]
    <3>1. CASE PayWinner(w, v)
      <4>1. PICK due : due = tx[w].due
        OBVIOUS
      <4>2. PICK q : q = [p EXCEPT !.available = @ + due, !.won[m] = @ + due]
        OBVIOUS
      <4>3. purse' = [purse EXCEPT ![v] = q]
        BY <2>1, <2>2, <3>1, <4>1, <4>2 DEF PayWinner
      <4>. QED
        BY <4>2, <4>3
    <3>2. CASE Refund(w, v)
      <4>1. PICK outlay : outlay = Outlay(p, m)
        OBVIOUS
      <4>2. PICK amount : amount = IF outlay > 0 THEN outlay ELSE -Smaller(-outlay, p.available)
        OBVIOUS
      <4>3. PICK q : q = [p EXCEPT !.available = @ + amount, !.won[m] = @ + amount]
        OBVIOUS
      <4>4. purse' = [purse EXCEPT ![v] = q]
        BY <2>1, <2>2, <3>2, <4>1, <4>2, <4>3 DEF Refund
      <4>. QED
        BY <4>3, <4>4
    <3>. QED
      BY <1>11, <3>1, <3>2
  <2>4. q.reserved = p.reserved
    BY <2>3 DEF Wallet
  <2>5. pc[w] \in {"credit", "refund"} /\ pc'[w] \in {"pay", "refund"} /\ draft' = draft
    BY <1>1, <1>11 DEF PayWinner, Refund, Goto, orderVars
  <2>6. \A u \in Users : purse'[u].reserved = purse[u].reserved
    BY <1>1, <2>2, <2>3, <2>4
  <2>. QED
    BY <2>5, <2>6 DEF NothingTied
<1>. QED
  BY <1>2, <1>3, <1>4, <1>5, <1>6, <1>7, <1>8, <1>9, <1>10, <1>11
     DEF Step, PlaceStep, CancelStep, SettleStep, AnnulStep

\* If no market is settled or cancelled, no statement of such a service runs.
LEMMA NoFinals ==
    ASSUME Ops \cap {"settle", "annul"} = {}, EngineInv, Asked, NEW w \in Workers
    PROVE  ~SettleStep(w) /\ ~AnnulStep(w) /\ pc[w] # "release"
<1>1. req[w].op \notin {"settle", "annul"}
  BY DEF Asked
<1>2. SettleStep(w) => req[w].op = "settle"
  BY Served DEF SettleStep, Snapshot, SweepOrder, ReleaseSwept, StartPayout, Assess,
                PayWinner, FinishSettle
<1>3. AnnulStep(w) => req[w].op = "annul"
  BY Served, Zenon DEF AnnulStep, LockForAnnul, LockForVoid, VoidOrder, StartRefund, Refund,
                FinishAnnul
<1>4. pc[w] # "release"
  BY <1>1, Served
<1>. QED
  BY <1>1, <1>2, <1>3, <1>4

\* A step of w keeps what its transaction would change in balance.
LEMMA StepBalanced ==
    ASSUME Ops \cap {"settle", "annul"} = {}, \A t \in Tickets : Buys(t), WholeInv,
           EngineInv', NEW w \in Workers, Start(w) \/ Step(w), ~Rollback(w), ~Commit(w),
           NEW u \in Users, Balanced(w, u)
    PROVE  Balanced(w, u)'
<1>1. LocksInv /\ EngineInv /\ Asked /\ Holding(w) /\ \A i \in OrderIds : Whole(draft[i])
  BY DEF WholeInv, LocksInv, RowsInv
<1>2. OwnRows(w) /\ OwnWallets(w)
  BY <1>1, RowMoves, WalletMoves
<1>3. CASE Insert(w)
  BY <1>1, <1>2, <1>3, InsertTies, RowBalanced
<1>4. CASE ReserveFunds(w)
  BY <1>1, <1>2, <1>4, ReserveTies, RowBalanced
<1>5. CASE pc[w] \in {"cross", "fill"} /\ \E S : DropRemainder(w, S)
  <2>1. tx[w].order \in OrderIds
    BY <1>1, <1>5, Served
  <2>. QED
    BY <1>1, <1>2, <1>5, <2>1, DropTies, RowBalanced
<1>6. CASE \E r \in OrderIds : FillOrder(w, r)
  BY <1>1, <1>2, <1>6, FillBalanced
<1>7. CASE CancelOrder(w)
  <2>1. req[w].order \in OrderIds
    BY <1>1, <1>7, Served DEF CancelOrder
  <2>. QED
    BY <1>1, <1>2, <1>7, <2>1, CancelTies, RowBalanced
<1>8. CASE Unreserve(w)
  BY <1>1, <1>2, <1>8, ReleaseTies, RowBalanced
<1>9. CASE NothingTied(w)
  BY <1>1, <1>2, <1>9, QuietBalanced
<1>10. ~SettleStep(w) /\ ~AnnulStep(w)
  BY <1>1, NoFinals
<1>. QED
  BY <1>1, <1>3, <1>4, <1>5, <1>6, <1>7, <1>8, <1>9, <1>10, TieSteps DEF SettleStep, AnnulStep

\* What w does leaves the balance of the others alone.
LEMMA OthersBalanced ==
    ASSUME EngineInv, EngineInv', NEW w \in Workers,
           Start(w) \/ Step(w) \/ Rollback(w) \/ Commit(w),
           OwnRows(w) \/ Rollback(w) \/ Commit(w), OwnWallets(w) \/ Rollback(w) \/ Commit(w),
           NEW v \in Workers \ {w}, CancelHolds(v), pc[v] # "release",
           NEW u \in Users, Balanced(v, u)
    PROVE  Balanced(v, u)' /\ CancelHolds(v)'
<1>1. PICK f \in [Row -> Int] : f = Tied(u)
  BY TiedType
<1>2. RowsLeft(v) /\ WalletsLeft(v)
  BY OthersRows, OthersWallets
<1>3. Pending(f, v)' = Pending(f, v)
  BY <1>2, BystanderPending
<1>4. pc'[v] = pc[v] /\ req'[v] = req[v] /\ tx'[v] = tx[v]
  BY OthersLocal
<1>5. Moved(Backing, v)'[u] = Moved(Backing, v)[u]
  BY <1>2 DEF Moved, WalletsLeft, Backing
<1>6. Debt(v, u)' = Debt(v, u)
  <2>1. CASE pc[v] = "reserve"
    <3>1. tx[v].order \in OrderIds /\ req[v].op = "place"
      BY <2>1, Served
    <3>2. owner[tx[v].order] = v
      BY <3>1, OwnRow
    <3>3. draft'[tx[v].order] = draft[tx[v].order]
      BY <1>2, <3>1, <3>2 DEF RowsLeft
    <3>. QED
      BY <1>4, <2>1, <3>3 DEF Debt
  <2>2. CASE pc[v] = "unreserve"
    <3>1. req[v].order \in OrderIds /\ owner[req[v].order] = v
      BY <2>2, Served DEF CancelHolds
    <3>2. draft'[req[v].order] = draft[req[v].order]
      BY <1>2, <3>1 DEF RowsLeft
    <3>. QED
      BY <1>4, <2>2, <3>2 DEF Debt
  <2>3. CASE pc[v] \notin {"reserve", "unreserve"}
    BY <1>4, <2>3 DEF Debt
  <2>. QED
    BY <2>1, <2>2, <2>3
<1>7. CancelHolds(v)'
  <2>1. pc[v] = "unreserve" => req[v].order \in OrderIds
    BY Served
  <2>. QED
    BY <1>2, <1>4, <2>1 DEF CancelHolds, RowsLeft
<1>8. Balanced(v, u)'
  BY <1>1, <1>3, <1>5, <1>6 DEF Balanced
<1>. QED
  BY <1>7, <1>8

LEMMA SomeUser == \E u \in Users : TRUE
<1>1. PICK t \in Tickets : TRUE
  BY TicketsAssumption
<1>. QED
  BY TicketType

\* Only the cancellation that has just locked an order goes on to its wallet.
LEMMA HoldsStep ==
    ASSUME Ops \cap {"settle", "annul"} = {}, EngineInv, Asked, NEW w \in Workers,
           Start(w) \/ Step(w), ~Rollback(w), ~Commit(w)
    PROVE  CancelHolds(w)'
<1>1. pc \in [Workers -> Statement] /\ owner \in [OrderIds -> Workers \cup {Nobody}]
  BY Typed
<1>2. CASE CancelOrder(w)
  <2>1. req[w].order \in OrderIds
    BY <1>2, Served DEF CancelOrder
  <2>2. PICK k \in OrderIds : k = req[w].order
    BY <2>1
  <2>3. req' = req /\ owner' = [owner EXCEPT ![k] = w]
    BY <1>2, <2>2 DEF CancelOrder, LockOrder
  <2>. QED
    BY <1>1, <2>2, <2>3 DEF CancelHolds
<1>3. CASE Insert(w) \/ ReserveFunds(w) \/ Unreserve(w)
  <2>1. pc'[w] # "unreserve"
    BY <1>1, <1>3 DEF Insert, ReserveFunds, Unreserve, ReleaseFunds, Goto
  <2>. QED
    BY <2>1 DEF CancelHolds
<1>4. CASE \E S : DropRemainder(w, S)
  <2>1. pc'[w] # "unreserve"
    BY <1>1, <1>4 DEF DropRemainder, Goto
  <2>. QED
    BY <2>1 DEF CancelHolds
<1>5. CASE \E r \in OrderIds : FillOrder(w, r)
  <2>1. pc'[w] # "unreserve"
    BY <1>1, <1>5, Zenon DEF FillOrder, Goto
  <2>. QED
    BY <2>1 DEF CancelHolds
<1>6. CASE NothingTied(w)
  BY <1>6 DEF NothingTied, CancelHolds
<1>7. ~SettleStep(w) /\ ~AnnulStep(w)
  BY NoFinals
<1>. QED
  BY <1>2, <1>3, <1>4, <1>5, <1>6, <1>7, TieSteps DEF SettleStep, AnnulStep

LEMMA TiedInit == Init => TiedInv
<1> SUFFICES ASSUME Init PROVE TiedInv
  OBVIOUS
<1>1. WholeInv /\ EngineInv /\ \A w \in Workers : CancelHolds(w)
  BY WholeInit, InitInv DEF Init, CancelHolds
<1>2. ASSUME NEW u \in Users
      PROVE  wallets[u].reserved = Booked(Tied(u)) /\ \A w \in Workers : Balanced(w, u)
  <2>1. PICK f \in [Row -> Int] : f = Tied(u)
    BY TiedType
  <2>2. f[NoRow] = 0
    <3>1. NoRow \in Row /\ ~Active(NoRow)
      BY NoRowType DEF NoRow, Active, ActiveStatuses
    <3>. QED
      BY <2>1, <3>1, TiedType
  <2>3. \A i \in OrderIds : orders[i] = NoRow /\ draft[i] = NoRow
    BY DEF Init, NoBatch
  <2>4. IsFiniteSet(OrderIds)
    BY <1>1, <2>1, RowSums
  <2>5. Booked(f) = 0 /\ \A w \in Workers : Pending(f, w) = 0
    <3> DEFINE x == [i \in OrderIds |-> f[orders[i]]]
    <3>1. \A i \in OrderIds : x[i] = 0
      BY <2>2, <2>3
    <3>2. \A w \in Workers, i \in OrderIds : Change(f, w)[i] = 0
      BY <2>2, <2>3 DEF Change
    <3> HIDE DEF x
    <3>3. SumFunctionOnSet(x, OrderIds) = 0
      BY <2>4, <3>1, SumZero
    <3>4. \A w \in Workers : SumFunctionOnSet(Change(f, w), OrderIds) = 0
      BY <2>4, <3>2, SumZero
    <3>. QED
      BY <3>3, <3>4 DEF Booked, Pending, x
  <2>6. wallets[u].reserved = 0 /\ purse[u] = wallets[u]
    <3>1. wallets[u] = NewWallet(InitialFunds[u]) /\ purse[u] = wallets[u]
      BY DEF Init
    <3>. QED
      BY <3>1 DEF NewWallet
  <2>7. \A w \in Workers : Moved(Backing, w)[u] = 0 /\ Debt(w, u) = 0
    <3>1. PICK g \in [Wallet -> Int] : g = Backing
      BY BackingType
    <3>2. g[purse[u]] - g[wallets[u]] = 0
      <4>1. PICK p \in Wallet : p = wallets[u]
        BY <1>1, Typed
      <4>. QED
        BY <2>6, <4>1
    <3>3. \A w \in Workers : Moved(g, w)[u] = 0
      BY <3>2 DEF Moved
    <3>4. \A w \in Workers : Debt(w, u) = 0
      BY DEF Init, Debt
    <3>. QED
      BY <3>1, <3>3, <3>4
  <2>. QED
    BY <2>1, <2>5, <2>6, <2>7 DEF Balanced
<1>. QED
  BY <1>1, <1>2 DEF TiedInv

LEMMA TiedNext ==
    ASSUME Ops \cap {"settle", "annul"} = {}, \A t \in Tickets : Buys(t)
    PROVE  TiedInv /\ [Next]_vars => TiedInv'
<1> SUFFICES ASSUME TiedInv, [Next]_vars PROVE TiedInv'
  OBVIOUS
<1>1. /\ WholeInv /\ LocksInv /\ Asked /\ EngineInv
      /\ \A w \in Workers : Holding(w) /\ CancelHolds(w)
      /\ \A u \in Users : wallets[u].reserved = Booked(Tied(u))
      /\ \A u \in Users, w \in Workers : Balanced(w, u)
  BY DEF TiedInv, WholeInv, LocksInv, RowsInv
<1>2. WholeInv' /\ EngineInv'
  <2>1. "settle" \notin Ops
    OBVIOUS
  <2>. QED
    BY <1>1, <2>1, WholeNext, NextInv
<1>3. SUFFICES /\ \A w \in Workers : CancelHolds(w)'
               /\ \A u \in Users : wallets'[u].reserved = Booked(Tied(u))'
               /\ \A u \in Users, w \in Workers : Balanced(w, u)'
  BY <1>2 DEF TiedInv
<1>4. ASSUME NEW w \in Workers, (Start(w) \/ Step(w)) /\ ~Rollback(w) /\ ~Commit(w)
      PROVE  /\ \A v \in Workers : CancelHolds(v)'
             /\ \A u \in Users : wallets'[u].reserved = Booked(Tied(u))'
             /\ \A u \in Users, v \in Workers : Balanced(v, u)'
  <2>1. OwnRows(w) /\ OwnWallets(w)
    BY <1>1, <1>4, RowMoves, WalletMoves
  <2>2. orders' = orders /\ wallets' = wallets
    BY <2>1 DEF OwnRows, OwnWallets
  <2>3. \A u \in Users : wallets'[u].reserved = Booked(Tied(u))'
    BY <1>1, <2>2 DEF Booked, Tied
  <2>4. CancelHolds(w)'
    BY <1>1, <1>4, HoldsStep
  <2>5. ASSUME NEW u \in Users PROVE Balanced(w, u)'
    BY <1>1, <1>2, <1>4, StepBalanced
  <2>6. ASSUME NEW v \in Workers \ {w}, NEW u \in Users PROVE Balanced(v, u)' /\ CancelHolds(v)'
    BY <1>1, <1>2, <1>4, <2>1, NoFinals, OthersBalanced
  <2>7. ASSUME NEW v \in Workers \ {w} PROVE CancelHolds(v)'
    <3>1. PICK u \in Users : TRUE
      BY SomeUser
    <3>. QED
      BY <2>6, <2>7, <3>1
  <2>. QED
    BY <2>3, <2>4, <2>5, <2>6, <2>7
<1>5. ASSUME NEW w \in Workers, Rollback(w) \/ Commit(w)
      PROVE  /\ \A v \in Workers : CancelHolds(v)'
             /\ \A u \in Users : wallets'[u].reserved = Booked(Tied(u))'
             /\ \A u \in Users, v \in Workers : Balanced(v, u)'
  <2>1. \A i \in OrderIds : owner'[i] # w
    BY <1>5, EndedRows
  <2>2. \A u \in Users : holder'[u] # w
    BY <1>5, NobodyAssumption DEF Rollback, Commit, Unlock
  <2>3. pc'[w] = "idle"
    BY <1>1, <1>5, Typed DEF Rollback, Commit, EndRequest, Goto
  <2>4. CancelHolds(w)'
    BY <2>3 DEF CancelHolds
  <2>5. ASSUME NEW v \in Workers \ {w}, NEW u \in Users PROVE Balanced(v, u)' /\ CancelHolds(v)'
    BY <1>1, <1>2, <1>5, NoFinals, OthersBalanced
  <2>6. ASSUME NEW v \in Workers \ {w} PROVE CancelHolds(v)'
    <3>1. PICK u \in Users : TRUE
      BY SomeUser
    <3>. QED
      BY <2>5, <2>6, <3>1
  <2>7. ASSUME NEW u \in Users
        PROVE  Balanced(w, u)' /\ wallets'[u].reserved = Booked(Tied(u))'
    <3>1. PICK f \in [Row -> Int] : f = Tied(u)
      BY TiedType
    <3>2. PICK g \in [Wallet -> Int] : g = Backing /\ \A p \in Wallet : g[p] = p.reserved
      BY BackingType
    <3>3. Pending(f, w)' = 0
      BY <1>2, <2>1, IdlePending
    <3>4. Moved(g, w)'[u] = 0
      BY <2>2 DEF Moved
    <3>5. Debt(w, u)' = 0
      BY <2>3 DEF Debt
    <3>6. Balanced(w, u)'
      BY <3>1, <3>2, <3>3, <3>4, <3>5 DEF Balanced
    <3>7. wallets[u].reserved = Booked(f)
      BY <1>1, <3>1
    <3>8. CASE Rollback(w)
      <4>1. wallets' = wallets /\ orders' = orders
        BY <3>8 DEF Rollback
      <4>2. Booked(f)' = Booked(f)
        BY <4>1 DEF Booked
      <4>. QED
        BY <3>1, <3>6, <3>7, <4>1, <4>2
    <3>9. CASE Commit(w)
      <4>1. Booked(f)' = Booked(f) + Pending(f, w)
        BY <1>1, <3>9, CommitBooks
      <4>2. Debt(w, u) = 0
        BY <3>9 DEF Commit, Debt
      <4>3. Moved(g, w)[u] + 0 = Pending(f, w)
        BY <1>1, <3>1, <3>2, <4>2 DEF Balanced
      <4>4. wallets'[u] = IF holder[u] = w THEN purse[u] ELSE wallets[u]
        BY <3>9 DEF Commit
      <4>5. PICK p \in Wallet, q \in Wallet : p = purse[u] /\ q = wallets[u]
        BY <1>1, Typed
      <4>6. Moved(g, w)[u] = IF holder[u] = w THEN p.reserved - q.reserved ELSE 0
        BY <3>2, <4>5 DEF Moved
      <4>7. p.reserved \in Int /\ q.reserved \in Int /\ Pending(f, w) \in Int
        BY <1>1, RowSums DEF Wallet
      <4>8. wallets'[u].reserved = q.reserved + Moved(g, w)[u]
        BY <4>4, <4>5, <4>6, <4>7
      <4>9. wallets'[u].reserved = Booked(f)'
        BY <3>7, <4>1, <4>3, <4>5, <4>6, <4>7, <4>8
      <4>. QED
        BY <3>1, <3>6, <4>9
    <3>. QED
      BY <1>5, <3>8, <3>9
  <2>. QED
    BY <2>4, <2>5, <2>6, <2>7
<1>6. CASE UNCHANGED <<orders, draft, owner, wallets, purse, holder, keeper, pc, req, tx>>
  <2>1. \A w \in Workers : CancelHolds(w)'
    BY <1>1, <1>6 DEF CancelHolds
  <2>2. ASSUME NEW u \in Users
        PROVE  wallets'[u].reserved = Booked(Tied(u))' /\ \A w \in Workers : Balanced(w, u)'
    <3>1. Booked(Tied(u))' = Booked(Tied(u))
      BY <1>6 DEF Booked, Tied
    <3>2. ASSUME NEW w \in Workers PROVE Balanced(w, u)'
      <4>1. Moved(Backing, w)'[u] = Moved(Backing, w)[u]
        BY <1>6 DEF Moved, Backing
      <4>2. Pending(Tied(u), w)' = Pending(Tied(u), w)
        BY <1>6 DEF Pending, Change, Tied
      <4>3. Debt(w, u)' = Debt(w, u)
        BY <1>6 DEF Debt
      <4>. QED
        BY <1>1, <4>1, <4>2, <4>3 DEF Balanced
    <3>. QED
      BY <1>1, <1>6, <3>1, <3>2
  <2>. QED
    BY <2>1, <2>2
<1>. QED
  BY <1>4, <1>5, <1>6, EngineSteps

\* What is tied to a user's rows is what the resting ones would cost.
LEMMA TiedBacks ==
    ASSUME EngineInv, \A u \in Users : wallets[u].reserved = Booked(Tied(u))
    PROVE  ReservedBacksOrders
<1> SUFFICES ASSUME NEW u \in Users
             PROVE  wallets[u].reserved =
                       SumFunctionOnSet([i \in OrderIds |-> Reserved(orders[i])],
                                        {i \in Resting : orders[i].ticket.user = u})
  BY DEF ReservedBacksOrders
<1>1. EngineInv /\ wallets[u].reserved = Booked(Tied(u))
  OBVIOUS
<1>2. PICK f : f = [i \in OrderIds |-> Reserved(orders[i])]
  OBVIOUS
<1>3. PICK g : g = [i \in OrderIds |-> Tied(u)[orders[i]]]
  OBVIOUS
<1>4. PICK R \in SUBSET OrderIds : R = {i \in Resting : orders[i].ticket.user = u}
  BY DEF Resting, Ids
<1>5. ASSUME NEW i \in OrderIds
      PROVE  /\ f[i] \in Int
             /\ i \in R => g[i] = f[i]
             /\ i \notin R => g[i] = 0
  <2>1. PICK row \in Row : row = orders[i]
    BY <1>1, Typed
  <2>2. i \in R <=> row.ticket.user = u /\ Active(row)
    BY <1>4, <2>1 DEF Resting, Ids, Active, Exists, ActiveStatuses
  <2>3. f[i] = Reserved(row) /\ Reserved(row) \in Int
    BY <1>2, <2>1, TiedType
  <2>4. g[i] = IF row.ticket.user = u /\ Active(row) THEN Reserved(row) ELSE 0
    BY <1>3, <2>1 DEF Tied
  <2>. QED
    BY <2>2, <2>3, <2>4
<1>6. IsFiniteSet(OrderIds)
  BY MaxOrdersAssumption, FS_Interval DEF OrderIds
<1>7. SumFunctionOnSet(f, R) = SumFunctionOnSet(g, OrderIds)
  BY <1>5, <1>6, SumOfSome
<1>8. Booked(Tied(u)) = SumFunctionOnSet(g, OrderIds)
  BY <1>3 DEF Booked
<1>. QED
  BY <1>1, <1>2, <1>4, <1>7, <1>8

\* If users only buy, and markets are neither settled nor cancelled, the reserved column
\* of every wallet is exactly what the resting orders of its owner would cost, for any
\* number of workers that place, fill and cancel orders, fail and crash.
THEOREM ReservationsBackOrders ==
    ASSUME Ops \cap {"settle", "annul"} = {}, \A t \in Tickets : Buys(t)
    PROVE  Spec => []ReservedBacksOrders
<1>1. TiedInv => ReservedBacksOrders
  BY TiedBacks DEF TiedInv, WholeInv, LocksInv, RowsInv
<1>. QED
  BY <1>1, TiedInit, TiedNext, PTL DEF Spec

----------------------------------------------------------------------------
(***************************************************************************)
(* Takers never rest, if users only buy.  A row that its placement has not *)
(* finished yet may be open, and it is locked.  That a FOK order which is  *)
(* filled in part is filled completely by the end of the loop follows from *)
(* what its first query has counted: these rows stay as they are, since    *)
(* the placement holds them, and the second query meets them again.        *)
(***************************************************************************)

\* What may be said of a row once its placement is through.
Taken(row) ==
    row.ticket.tif # "gtc" =>
        /\ ~Active(row)
        /\ row.ticket.tif = "fok" => row.filled \in {0, row.ticket.quantity}

\* The row that w is placing.
Unfinished(w, i) == req[w].op = "place" /\ tx[w].order = i /\ pc[w] # "commit"

TakenSoFar(i) ==
    /\ Taken(orders[i])
    /\ Taken(draft[i]) \/ \E w \in Workers : owner[i] = w /\ Unfinished(w, i)

\* The rows that w holds and its order may take.
Promised(w) ==
    LET t == req[w].ticket
    IN  {i \in OrderIds : /\ owner[i] = w
                          /\ Listed(draft[i], t.market, Opposite(t.side), "buy")
                          /\ Compatible(t, draft[i].ticket)}

\* Those of the loop's rows that it may take.
Takeable(w) == {i \in Ids(tx[w].batch) : Compatible(req[w].ticket, tx[w].batch[i].ticket)}

\* A FOK order before its first fill.
Untouched(w) ==
    LET own == draft[tx[w].order] IN own.filled = 0 /\ own.cancelled = 0

\* What it has counted suffices, and in the loop what is left of it does.
Counted(w) ==
    SumFunctionOnSet(Remainders(draft), Promised(w)) >= req[w].ticket.quantity

Stocked(w) ==
    LET own == draft[tx[w].order]
    IN  /\ own.cancelled = 0
        /\ SumFunctionOnSet(Remainders(tx[w].batch), Takeable(w)) >= Unfilled(own)

Supplied(w) ==
    req[w].op = "place" =>
        /\ pc[w] \notin {"position", "seller"}
        /\ pc[w] = "reserve" => ~tx[w].probed
        /\ pc[w] = "cross" => tx[w].batch = NoBatch
        /\ req[w].ticket.tif = "fok" =>
              /\ pc[w] \in {"reserve", "scan", "cross"} => Untouched(w)
              /\ pc[w] \in {"scan", "cross"} /\ tx[w].probed => Counted(w)
              /\ pc[w] \in {"fill", "stamp"} => Stocked(w)

TakerInv ==
    /\ RowsInv
    /\ \A i \in OrderIds : TakenSoFar(i)
    /\ \A w \in Workers : Supplied(w)

\* The changes of a row.
LEMMA NoRowTaken == Taken(NoRow)
  BY NoRowType DEF Taken, NoRow

LEMMA CancelTaken ==
    ASSUME NEW row \in Row, Taken(row), NEW seen
    PROVE  Taken(CancelRow(row, seen))
<1>1. /\ CancelRow(row, seen).ticket = row.ticket
      /\ CancelRow(row, seen).filled = row.filled
      /\ CancelRow(row, seen).status = "cancelled"
  BY DEF CancelRow, Row
<1>. QED
  BY <1>1 DEF Taken, Active, ActiveStatuses

\* Only GTC orders are there to be filled by others.
LEMMA FillTaken ==
    ASSUME NEW row \in Row, Taken(row), Active(row), NEW q
    PROVE  Taken(FillRow(row, q))
<1>1. FillRow(row, q).ticket = row.ticket
  BY DEF FillRow, Row
<1>. QED
  BY <1>1 DEF Taken

LEMMA RemainderTaken ==
    ASSUME NEW row \in Row, Unfilled(row) >= 0,
           row.ticket.tif = "fok" => row.filled \in {0, row.ticket.quantity}
    PROVE  Taken(CancelRemainder(row))
<1>1. /\ CancelRemainder(row).ticket = row.ticket
      /\ CancelRemainder(row).filled = row.filled
      /\ CancelRemainder(row).status \in {"cancelled", "filled"}
  BY DEF CancelRemainder, Row
<1>. QED
  BY <1>1 DEF Taken, Active, ActiveStatuses

\* A placement goes on with the row that it has not finished.
LEMMA UnfinishedKept ==
    ASSUME EngineInv, NEW w \in Workers, Start(w) \/ Step(w), ~Rollback(w), ~Commit(w),
           NEW i \in OrderIds, NEW v \in Workers, owner[i] = v, Unfinished(v, i),
           v = w => pc'[w] # "commit"
    PROVE  owner'[i] = v /\ Unfinished(v, i)'
<1>1. OwnRows(w)
  BY RowMoves
<1>2. CASE v # w
  <2>1. pc'[v] = pc[v] /\ req'[v] = req[v] /\ tx'[v] = tx[v]
    BY <1>2, OthersLocal
  <2>2. owner'[i] = v
    BY <1>1, <1>2, NobodyAssumption DEF OwnRows, OrderFree
  <2>. QED
    BY <2>1, <2>2 DEF Unfinished
<1>3. CASE v = w
  <2>1. req[w].op = "place" /\ tx[w].order = i
    BY <1>3 DEF Unfinished
  <2>2. ~Start(w)
    BY <2>1, StartRequest DEF NoRequest
  <2>3. PlaceStep(w)
    BY <2>1, <2>2, OtherKeepsRequest DEF Step
  <2>4. ~Insert(w)
    BY <2>1, MaxOrdersAssumption, Served DEF Insert, NoTx, OrderIds
  <2>5. req' = req /\ tx'[w].order = tx[w].order
    BY <2>3, <2>4, PlacementKeepsRequest
  <2>6. owner'[i] = w
    BY <1>1, <1>3 DEF OwnRows
  <2>. QED
    BY <1>3, <2>1, <2>5, <2>6 DEF Unfinished
<1>. QED
  BY <1>2, <1>3

\* A row that w may write and is not placing is taken.
LEMMA FreeTaken ==
    ASSUME EngineInv, NEW w \in Workers, NEW i \in OrderIds, TakenSoFar(i), OrderFree(w, i),
           ~Unfinished(w, i)
    PROVE  Taken(draft[i])
  BY NobodyAssumption DEF TakenSoFar, OrderFree

\* Users only buy, so every row is a bid.
LEMMA AllBids ==
    ASSUME EngineInv, \A t \in Tickets : Buys(t)
    PROVE  /\ \A i \in OrderIds : Buys(draft[i].ticket)
           /\ \A w \in Workers, i \in OrderIds : Buys(tx[w].batch[i].ticket)
           /\ \A w \in Workers : \A side : Lockable(w, side, "sell") = {}
<1>1. \A i \in OrderIds : draft[i].ticket \in Tickets
  BY Typed DEF Row
<1>2. \A w \in Workers, i \in OrderIds : tx[w].batch[i].ticket \in Tickets
  BY Typed DEF Row, TxType
<1>3. \A w \in Workers : \A side : Lockable(w, side, "sell") = {}
  BY <1>1 DEF Lockable, Listed, Buys
<1>. QED
  BY <1>1, <1>2, <1>3

\* The first of a batch of bids offers most.
LEMMA FirstBid ==
    ASSUME NEW batch \in [OrderIds -> Row], Ids(batch) # {},
           \A i \in OrderIds : Buys(batch[i].ticket)
    PROVE  \E r \in OrderIds :
              /\ IsFirst(batch, r)
              /\ \A i \in Ids(batch) : batch[r].ticket.price >= batch[i].ticket.price
<1>1. PICK R : R = {p \in OrderIds \X OrderIds : Precedes(batch, p[1], p[2])}
  OBVIOUS
<1>2. \A i, j \in OrderIds : <<i, j>> \in R <=> Precedes(batch, i, j)
  BY <1>1
<1>3. /\ Ids(batch) \in SUBSET OrderIds /\ IsFiniteSet(Ids(batch))
      /\ \A i \in Ids(batch) : i \in OrderIds /\ i \in Int
  <2>1. IsFiniteSet(OrderIds)
    BY MaxOrdersAssumption, FS_Interval DEF OrderIds
  <2>2. Ids(batch) \in SUBSET OrderIds
    BY DEF Ids
  <2>3. \A i \in OrderIds : i \in Int
    BY MaxOrdersAssumption DEF OrderIds
  <2>. QED
    BY <2>1, <2>2, <2>3, FS_Subset
<1>4. PICK price : price = [i \in OrderIds |-> batch[i].ticket.price]
  OBVIOUS
<1>5. \A i \in OrderIds : price[i] \in Int
  <2> SUFFICES ASSUME NEW i \in OrderIds PROVE price[i] \in Int
    OBVIOUS
  <2>1. PICK t \in Tickets : t = batch[i].ticket
    BY DEF Row
  <2>. QED
    BY <1>4, <2>1, TicketType
<1>6. \A i, j \in OrderIds :
         <<i, j>> \in R <=> (price[i] > price[j] \/ (price[i] = price[j] /\ i < j))
  BY <1>2, <1>4 DEF Precedes, Buys
<1>7. ASSUME NEW x \in Ids(batch), NEW y \in Ids(batch)
      PROVE  x = y \/ <<x, y>> \in R \/ <<y, x>> \in R
  <2>1. x \in OrderIds /\ y \in OrderIds /\ x \in Int /\ y \in Int
    BY <1>3
  <2>2. price[x] \in Int /\ price[y] \in Int
    BY <1>5, <2>1
  <2>. QED
    BY <1>6, <2>1, <2>2
<1>8. ASSUME NEW x \in Ids(batch), NEW y \in Ids(batch), NEW z \in Ids(batch),
             <<x, y>> \in R, <<y, z>> \in R
      PROVE  <<x, z>> \in R
  <2>1. /\ x \in OrderIds /\ y \in OrderIds /\ z \in OrderIds
        /\ x \in Int /\ y \in Int /\ z \in Int
    BY <1>3
  <2>2. price[x] \in Int /\ price[y] \in Int /\ price[z] \in Int
    BY <1>5, <2>1
  <2>. QED
    BY <1>6, <1>8, <2>1, <2>2
<1>9. PICK r \in Ids(batch) : \A j \in Ids(batch) \ {r} : <<r, j>> \in R
  <2>1. PICK S : S = Ids(batch)
    OBVIOUS
  <2>2. IsFiniteSet(S) /\ S # {}
    BY <1>3, <2>1
  <2>3. \A x, y \in S : x = y \/ <<x, y>> \in R \/ <<y, x>> \in R
    BY <1>7, <2>1, Zenon
  <2>4. \A x, y, z \in S : <<x, y>> \in R /\ <<y, z>> \in R => <<x, z>> \in R
    BY <1>8, <2>1
  <2>5. \E x \in S : \A y \in S \ {x} : <<x, y>> \in R
    BY <2>2, <2>3, <2>4, FirstMember, SMTT(30)
  <2>. QED
    BY <2>1, <2>5
<1>10. IsFirst(batch, r)
  BY <1>2, <1>3, <1>9 DEF IsFirst
<1>11. ASSUME NEW i \in Ids(batch) PROVE price[r] >= price[i]
  <2>1. i \in OrderIds /\ r \in OrderIds /\ price[i] \in Int /\ price[r] \in Int
    BY <1>3, <1>5
  <2>2. i = r \/ <<r, i>> \in R
    BY <1>9
  <2>. QED
    BY <1>6, <2>1, <2>2
<1>. QED
  BY <1>3, <1>4, <1>10, <1>11

\* Sums over rows that are all open.
LEMMA OpenRemainders ==
    ASSUME NEW rows \in [OrderIds -> Row], NEW S \in SUBSET OrderIds,
           \A i \in S : Active(rows[i]) /\ RowOK(rows[i])
    PROVE  IsFiniteSet(S) /\ \A i \in S : Remainders(rows)[i] \in Nat \ {0}
<1>1. IsFiniteSet(OrderIds) /\ IsFiniteSet(S)
  <2>1. IsFiniteSet(OrderIds)
    BY MaxOrdersAssumption, FS_Interval DEF OrderIds
  <2>. QED
    BY <2>1, FS_Subset
<1>2. \A i \in S : Unfilled(rows[i]) \in Int /\ Unfilled(rows[i]) > 0
  BY UnfilledType DEF RowOK
<1>. QED
  BY <1>1, <1>2 DEF Remainders

\* The rows of a placement's loop.
LEMMA TakeableRows ==
    ASSUME EngineInv, NEW w \in Workers
    PROVE  /\ tx[w].batch \in [OrderIds -> Row]
           /\ Takeable(w) \in SUBSET OrderIds /\ IsFiniteSet(Takeable(w))
           /\ \A i \in Takeable(w) : Remainders(tx[w].batch)[i] \in Nat \ {0}
<1>1. tx[w].batch \in [OrderIds -> Row]
  BY Typed DEF TxType
<1>2. Takeable(w) \in SUBSET OrderIds
  BY DEF Takeable, Ids
<1>3. \A i \in Takeable(w) : Active(tx[w].batch[i]) /\ RowOK(tx[w].batch[i])
  BY <1>2 DEF Takeable, Ids, EngineInv, WorkersOK, BatchOK
<1>. QED
  BY <1>1, <1>2, <1>3, OpenRemainders

\* A FOK order that the loop has nothing left for is filled.
LEMMA FilledUp ==
    ASSUME EngineInv, \A t \in Tickets : Buys(t), NEW w \in Workers,
           pc[w] = "fill", req[w].ticket.tif = "fok", Supplied(w),
           \A r \in OrderIds : ~Fillable(w, r)
    PROVE  Taken(draft[tx[w].order])
<1>1. req[w].op = "place" /\ tx[w].order \in OrderIds /\ req[w].ticket \in Tickets
  BY Served
<1>2. PICK own \in Row : own = draft[tx[w].order]
  BY <1>1, OwnRow
<1>3. own.ticket = req[w].ticket /\ Unfilled(own) \in Nat /\ own.cancelled = 0
  BY <1>1, <1>2, OwnRow DEF Supplied, Stocked
<1>4. RowOK(own)
  BY <1>1, <1>2 DEF EngineInv, DraftsExtend
<1>5. PICK batch : batch = tx[w].batch
  OBVIOUS
<1>6. Unfilled(own) = 0
  <2> SUFFICES ASSUME Unfilled(own) > 0 PROVE FALSE
    BY <1>3
  <2>1. SumFunctionOnSet(Remainders(batch), Takeable(w)) > 0
    <3>1. SumFunctionOnSet(Remainders(batch), Takeable(w)) >= Unfilled(own)
      BY <1>1, <1>2, <1>5 DEF Supplied, Stocked
    <3>2. SumFunctionOnSet(Remainders(batch), Takeable(w)) \in Int
      BY <1>5, TakeableRows, SumInt
    <3>. QED
      BY <1>3, <3>1, <3>2
  <2>2. PICK i \in Takeable(w) : TRUE
    BY <2>1, SumEmpty
  <2>3. i \in Ids(batch) /\ Compatible(req[w].ticket, batch[i].ticket) /\ i \in OrderIds
    BY <1>5, <2>2 DEF Takeable, Ids
  <2>4. batch \in [OrderIds -> Row] /\ \A j \in OrderIds : Buys(batch[j].ticket)
    BY <1>5, TakeableRows, AllBids
  <2>5. PICK r \in OrderIds :
           /\ IsFirst(batch, r)
           /\ \A j \in Ids(batch) : batch[r].ticket.price >= batch[j].ticket.price
    BY <2>3, <2>4, FirstBid
  <2>6. PICK a \in Tickets : a = batch[i].ticket
    BY <2>3, <2>4 DEF Row
  <2>7. PICK b \in Tickets : b = batch[r].ticket
    BY <2>4, <2>5 DEF Row
  <2>8. PICK t \in Tickets : t = req[w].ticket
    BY <1>1
  <2>9. t.price \in Int /\ a.price \in Int /\ b.price \in Int /\ b.price >= a.price
    BY <2>3, <2>5, <2>6, <2>7, TicketType
  <2>10. Compatible(t, a) => Compatible(t, b)
    BY <2>9 DEF Compatible, PayoutCents
  <2>11. Fillable(w, r)
    BY <1>2, <1>5, <2>3, <2>5, <2>6, <2>7, <2>8, <2>10 DEF Fillable
  <2>. QED
    BY <2>11
<1>7. own.ticket.quantity \in Nat /\ own.filled \in Nat
  BY <1>1, <1>3, TicketType DEF Row
<1>8. own.filled = own.ticket.quantity
  BY <1>3, <1>6, <1>7 DEF Unfilled
<1>9. ~Active(own)
  BY <1>4, <1>6 DEF RowOK
<1>. QED
  BY <1>2, <1>8, <1>9 DEF Taken

\* A row that w leaves as it is.
LEMMA TakenAgain ==
    ASSUME EngineInv, NEW w \in Workers, Start(w) \/ Step(w), ~Rollback(w), ~Commit(w),
           NEW i \in OrderIds, TakenSoFar(i), draft'[i] = draft[i],
           Unfinished(w, i) /\ pc'[w] = "commit" => Taken(draft[i])
    PROVE  TakenSoFar(i)'
<1>1. Taken(orders[i])'
  BY RowMoves DEF OwnRows, TakenSoFar
<1>2. CASE Taken(draft[i])
  BY <1>1, <1>2 DEF TakenSoFar
<1>3. CASE ~Taken(draft[i])
  <2>1. PICK v \in Workers : owner[i] = v /\ Unfinished(v, i)
    BY <1>3 DEF TakenSoFar
  <2>2. owner'[i] = v /\ Unfinished(v, i)'
    BY <1>3, <2>1, UnfinishedKept
  <2>. QED
    BY <1>1, <2>2 DEF TakenSoFar
<1>. QED
  BY <1>2, <1>3

\* The order of w is cancelled, and has been filled only if it is not FOK.
LEMMA DropTaken ==
    ASSUME EngineInv, NEW w \in Workers, Start(w) \/ Step(w), ~Rollback(w), ~Commit(w),
           req[w].op = "place", tx[w].order \in OrderIds, NEW S, DropRemainder(w, S),
           req[w].ticket.tif = "fok" => draft[tx[w].order].filled = 0,
           NEW i \in OrderIds, TakenSoFar(i)
    PROVE  TakenSoFar(i)'
<1>1. PICK k \in OrderIds : k = tx[w].order
  OBVIOUS
<1>2. PICK own \in Row : own = draft[k]
  BY <1>1, OwnRow
<1>3. own.ticket = req[w].ticket /\ Unfilled(own) \in Nat
  BY <1>1, <1>2, OwnRow
<1>4. draft' = [draft EXCEPT ![k] = CancelRemainder(own)]
  BY <1>1, <1>2 DEF DropRemainder
<1>5. draft'[k] = CancelRemainder(own) /\ \A j \in OrderIds \ {k} : draft'[j] = draft[j]
  BY <1>4, Typed
<1>6. Taken(CancelRemainder(own))
  BY <1>1, <1>2, <1>3, RemainderTaken
<1>7. CASE i = k
  BY <1>5, <1>6, <1>7, RowMoves DEF OwnRows, TakenSoFar
<1>8. CASE i # k
  BY <1>1, <1>5, <1>8, TakenAgain DEF Unfinished
<1>. QED
  BY <1>7, <1>8

LEMMA FillLeavesTaken ==
    ASSUME EngineInv, NEW w \in Workers, Start(w) \/ Step(w), ~Rollback(w), ~Commit(w),
           NEW r \in OrderIds, FillOrder(w, r), \A j \in OrderIds : TakenSoFar(j),
           NEW i \in OrderIds
    PROVE  TakenSoFar(i)'
<1>1. PICK k \in OrderIds, q \in Nat, t \in Tickets, own \in Row, resting \in Row :
         /\ k = tx[w].order /\ k # r /\ t = req[w].ticket
         /\ own = draft[k] /\ resting = draft[r] /\ resting = tx[w].batch[r]
         /\ own.ticket = t /\ Exists(own) /\ Exists(resting)
         /\ q = Smaller(Unfilled(own), Unfilled(resting))
         /\ q <= Unfilled(own) /\ q <= Unfilled(resting)
         /\ Unfilled(own) \in Nat \ {0} /\ Unfilled(resting) \in Nat \ {0}
         /\ draft' = [draft EXCEPT ![k] = FillRow(own, q), ![r] = FillRow(resting, q)]
         /\ Compatible(t, resting.ticket)
         /\ owner[k] = w /\ owner[r] = w
  BY FilledRows
<1>2. req[w].op = "place" /\ pc[w] = "fill" /\ pc'[w] # "commit"
  BY Served, Typed, Zenon DEF FillOrder, Goto
<1>3. /\ draft'[k] = FillRow(own, q) /\ draft'[r] = FillRow(resting, q)
      /\ \A j \in OrderIds \ {k, r} : draft'[j] = draft[j]
  BY <1>1, Typed
<1>4. orders' = orders
  BY RowMoves DEF OwnRows
<1>5. CASE i = k
  <2>1. Unfinished(w, k)
    BY <1>1, <1>2 DEF Unfinished
  <2>2. owner'[k] = w /\ Unfinished(w, k)'
    BY <1>1, <1>2, <2>1, UnfinishedKept
  <2>. QED
    BY <1>4, <1>5, <2>2 DEF TakenSoFar
<1>6. CASE i = r
  <2>1. Taken(resting)
    BY <1>1 DEF TakenSoFar, Unfinished
  <2>2. Active(resting)
    BY <1>1, <1>2, LoadedRow
  <2>3. Taken(FillRow(resting, q))
    BY <2>1, <2>2, FillTaken
  <2>. QED
    BY <1>3, <1>4, <1>6, <2>3 DEF TakenSoFar
<1>7. CASE i \notin {k, r}
  BY <1>2, <1>3, <1>7, TakenAgain
<1>. QED
  BY <1>5, <1>6, <1>7

\* The end of the loop.
LEMMA FinishTaken ==
    ASSUME EngineInv, \A t \in Tickets : Buys(t), NEW w \in Workers, FinishPlace(w),
           ~Rollback(w), ~Commit(w), Supplied(w), NEW i \in OrderIds, TakenSoFar(i)
    PROVE  TakenSoFar(i)'
<1>1. req[w].op = "place" /\ tx[w].order \in OrderIds /\ pc[w] = "fill"
  BY Served DEF FinishPlace
<1>2. Start(w) \/ Step(w)
  BY DEF Step, PlaceStep
<1>3. CASE req[w].ticket.tif = "ioc" /\ DropRemainder(w, {})
  BY <1>1, <1>2, <1>3, DropTaken
<1>4. CASE /\ ~(req[w].ticket.tif = "ioc" /\ Unfilled(draft[tx[w].order]) > 0)
           /\ UNCHANGED orderVars
  <2>1. PICK k \in OrderIds : k = tx[w].order
    BY <1>1
  <2>2. PICK own \in Row : own = draft[k]
    BY <1>1, <2>1, OwnRow
  <2>3. PICK t \in Tickets : t = own.ticket
    BY DEF Row
  <2>4. t = req[w].ticket /\ Unfilled(own) \in Nat /\ RowOK(own)
    BY <1>1, <2>1, <2>2, <2>3, OwnRow DEF EngineInv, DraftsExtend
  <2>5. ASSUME t.tif = "fok" PROVE Taken(own)
    <3>1. \A r \in OrderIds : ~Fillable(w, r)
      BY DEF FinishPlace
    <3>2. Taken(draft[tx[w].order])
      BY <1>1, <2>4, <2>5, <3>1, FilledUp
    <3>. QED
      BY <2>1, <2>2, <3>2
  <2>6. ASSUME t.tif = "ioc" PROVE Taken(own)
    <3>1. ~(Unfilled(own) > 0)
      BY <1>4, <2>1, <2>2, <2>4, <2>6
    <3>. QED
      BY <2>3, <2>4, <2>6, <3>1 DEF RowOK, Taken
  <2>7. t.tif \in {"gtc", "ioc", "fok"}
    BY TicketsAssumption DEF Ticket
  <2>8. ASSUME t.tif = "gtc" PROVE Taken(own)
    BY <2>3, <2>8 DEF Taken
  <2>9. Taken(own)
    BY <2>5, <2>6, <2>7, <2>8
  <2>10. draft'[i] = draft[i]
    BY <1>4 DEF orderVars
  <2>. QED
    BY <1>2, <2>1, <2>2, <2>9, <2>10, TakenAgain DEF Unfinished
<1>. QED
  BY <1>1, <1>3, <1>4 DEF FinishPlace

\* A row that is cancelled by someone else than its placement.
LEMMA CancelLeavesTaken ==
    ASSUME EngineInv, NEW w \in Workers, Start(w) \/ Step(w), ~Rollback(w), ~Commit(w),
           req[w].op # "place", NEW j \in OrderIds, OrderFree(w, j), NEW seen,
           draft' = [draft EXCEPT ![j] = CancelRow(@, seen)],
           NEW i \in OrderIds, TakenSoFar(i)
    PROVE  TakenSoFar(i)'
<1>1. PICK row \in Row : row = draft[j]
  BY Typed
<1>2. draft'[j] = CancelRow(row, seen) /\ \A l \in OrderIds \ {j} : draft'[l] = draft[l]
  BY <1>1, Typed
<1>3. CASE i = j
  <2>1. Taken(row)
    BY <1>1, <1>3, FreeTaken DEF Unfinished
  <2>2. Taken(CancelRow(row, seen))
    BY <2>1, CancelTaken
  <2>. QED
    BY <1>2, <1>3, <2>2, RowMoves DEF OwnRows, TakenSoFar
<1>4. CASE i # j
  BY <1>2, <1>4, TakenAgain DEF Unfinished
<1>. QED
  BY <1>3, <1>4

\* A statement that leaves the rows alone and does not end a placement.
LEMMA TakenStays ==
    ASSUME EngineInv, NEW w \in Workers, Start(w) \/ Step(w), ~Rollback(w), ~Commit(w),
           draft' = draft, pc'[w] # "commit" \/ req[w].op # "place",
           NEW i \in OrderIds, TakenSoFar(i)
    PROVE  TakenSoFar(i)'
  BY TakenAgain DEF Unfinished

\* Whatever w does, the rows that are through stay so.
LEMMA TakenStep ==
    ASSUME EngineInv, \A t \in Tickets : Buys(t), NEW w \in Workers, Start(w) \/ Step(w),
           ~Rollback(w), ~Commit(w), Supplied(w), \A j \in OrderIds : TakenSoFar(j),
           NEW i \in OrderIds
    PROVE  TakenSoFar(i)'
<1>1. CASE draft' = draft /\ (pc'[w] # "commit" \/ req[w].op # "place")
  BY <1>1, TakenStays
<1>2. CASE Insert(w)
  <2>1. PICK t \in Tickets : t = req[w].ticket
    BY <1>2, Served DEF Insert
  <2>2. PICK k \in OrderIds :
           /\ IsNextId(k) /\ draft' = [draft EXCEPT ![k] = NewRow(t)]
           /\ LockOrder(w, k) /\ tx' = [tx EXCEPT ![w].order = k]
    BY <1>2, <2>1 DEF Insert
  <2>3. /\ tx'[w].order = k /\ owner'[k] = w /\ \A j \in OrderIds \ {k} : draft'[j] = draft[j]
    BY <2>2, Typed DEF LockOrder, TxType
  <2>4. pc'[w] # "commit" /\ req' = req /\ req[w].op = "place" /\ tx[w] = NoTx
    BY <1>2, Typed, Served DEF Insert, Goto
  <2>5. CASE i = k
    <3>1. Unfinished(w, k)'
      BY <2>3, <2>4 DEF Unfinished
    <3>. QED
      BY <2>3, <2>5, <3>1, RowMoves DEF OwnRows, TakenSoFar
  <2>6. CASE i # k
    BY <2>3, <2>4, <2>6, TakenAgain
  <2>. QED
    BY <2>5, <2>6
<1>3. CASE Cross(w)
  <2>1. req[w].op = "place" /\ tx[w].order \in OrderIds /\ pc[w] = "cross"
    BY <1>3, Served DEF Cross
  <2>2. CASE DropRemainder(w, CrossRows(w)) /\ req[w].ticket.tif = "fok"
    BY <2>1, <2>2, DropTaken DEF Supplied, Untouched
  <2>3. CASE draft' = draft /\ \E s \in {"fill", "scan", "cross"} : Goto(w, s)
    <3>1. pc'[w] # "commit"
      BY <2>3, Typed DEF Goto
    <3>. QED
      BY <1>1, <2>3, <3>1
  <2>. QED
    BY <1>3, <2>2, <2>3 DEF Cross
<1>4. ASSUME NEW r \in OrderIds, FillOrder(w, r) PROVE TakenSoFar(i)'
  BY <1>4, FillLeavesTaken
<1>5. CASE FinishPlace(w)
  BY <1>5, FinishTaken
<1>6. CASE CancelOrder(w)
  <2>1. req[w].op # "place" /\ req[w].order \in OrderIds
    BY <1>6, Served DEF CancelOrder
  <2>2. PICK k \in OrderIds : k = req[w].order
    BY <2>1
  <2>3. PICK seen : seen = draft[k]
    OBVIOUS
  <2>4. OrderFree(w, k) /\ draft' = [draft EXCEPT ![k] = CancelRow(@, seen)]
    BY <1>6, <2>2, <2>3 DEF CancelOrder
  <2>. QED
    BY <2>1, <2>4, CancelLeavesTaken
<1>7. ASSUME NEW k \in OrderIds, SweepOrder(w, k) \/ VoidOrder(w, k) PROVE TakenSoFar(i)'
  <2>1. req[w].op # "place"
    BY <1>7, Served DEF SweepOrder, VoidOrder
  <2>2. PICK seen : seen = tx[w].batch[k]
    OBVIOUS
  <2>3. OrderFree(w, k) /\ draft' = [draft EXCEPT ![k] = CancelRow(@, seen)]
    BY <1>7, <2>2, Zenon DEF SweepOrder, VoidOrder
  <2>. QED
    BY <2>1, <2>3, CancelLeavesTaken
<1>8. CASE Start(w)
  <2>1. draft' = draft
    BY <1>8 DEF Start, StartPlace, StartCancel, StartSettle, StartAnnul, orderVars
  <2>. QED
    BY <1>1, <1>8, <2>1, StartRequest DEF NoRequest
<1>9. CASE ReserveFunds(w) \/ CheckPosition(w) \/ Scan(w) \/ CreditSeller(w) \/ StampMarket(w)
  <2>1. draft' = draft
    BY <1>9 DEF ReserveFunds, CheckPosition, Scan, CreditSeller, StampMarket, orderVars
  <2>2. \E s \in {"scan", "cross", "stamp", "fill"} : Goto(w, s)
    BY <1>9, Zenon DEF ReserveFunds, CheckPosition, Scan, CreditSeller, StampMarket
  <2>3. pc'[w] # "commit"
    BY <2>2, Typed DEF Goto
  <2>. QED
    BY <1>1, <2>1, <2>3
<1>10. CASE draft' = draft /\ (CancelStep(w) \/ SettleStep(w) \/ AnnulStep(w))
  BY <1>1, <1>10, OtherKeepsRequest
<1>11. CASE Unreserve(w) \/ ReleaseSwept(w)
  <2>1. draft' = draft
    BY <1>11, Zenon DEF Unreserve, ReleaseSwept, ReleaseFunds, orderVars
  <2>. QED
    BY <1>10, <1>11, <2>1 DEF CancelStep, SettleStep
<1>12. CASE \/ Snapshot(w) \/ StartPayout(w) \/ FinishSettle(w)
            \/ \E u \in Users : Assess(w, u) \/ PayWinner(w, u)
  <2>1. draft' = draft
    BY <1>12 DEF Snapshot, StartPayout, FinishSettle, Assess, PayWinner, orderVars
  <2>. QED
    BY <1>10, <1>12, <2>1 DEF SettleStep
<1>13. CASE \/ LockForAnnul(w) \/ StartRefund(w) \/ FinishAnnul(w)
            \/ \E k \in OrderIds : LockForVoid(w, k)
            \/ \E u \in Users : Refund(w, u)
  <2>1. draft' = draft
    BY <1>13 DEF LockForAnnul, StartRefund, FinishAnnul, LockForVoid, Refund, orderVars
  <2>. QED
    BY <1>10, <1>13, <2>1 DEF AnnulStep
<1>. QED
  BY <1>2, <1>3, <1>4, <1>5, <1>6, <1>7, <1>8, <1>9, <1>11, <1>12, <1>13
     DEF Step, PlaceStep, CancelStep, SettleStep, AnnulStep

\* The steps of the others leave what w may take.
LEMMA OthersSupplied ==
    ASSUME EngineInv, NEW v \in Workers, RowsLeft(v), pc'[v] = pc[v], req'[v] = req[v],
           tx'[v] = tx[v], Supplied(v)
    PROVE  Supplied(v)'
<1>1. tx[v].order \in OrderIds /\ req[v].op = "place" /\ Untouched(v) => Untouched(v)'
  BY OwnRow DEF Untouched, RowsLeft
<1>2. Promised(v)' = Promised(v) /\ IsFiniteSet(Promised(v))
  <2>1. Promised(v) \in SUBSET OrderIds /\ IsFiniteSet(OrderIds)
    BY MaxOrdersAssumption, FS_Interval DEF Promised, OrderIds
  <2>2. IsFiniteSet(Promised(v))
    BY <2>1, FS_Subset
  <2>3. Promised(v)' = Promised(v)
    BY DEF Promised, RowsLeft
  <2>. QED
    BY <2>2, <2>3
<1>3. Counted(v) => Counted(v)'
  <2>1. PICK S : S = Promised(v)
    OBVIOUS
  <2>2. PICK f : f = Remainders(draft)
    OBVIOUS
  <2>3. PICK g : g = Remainders(draft')
    OBVIOUS
  <2>4. \A i \in S : f[i] = g[i]
    BY <2>1, <2>2, <2>3 DEF Remainders, Promised, RowsLeft
  <2>5. SumFunctionOnSet(f, S) = SumFunctionOnSet(g, S)
    BY <1>2, <2>1, <2>4, SumEqual
  <2>. QED
    BY <1>2, <2>1, <2>2, <2>3, <2>5 DEF Counted
<1>4. tx[v].order \in OrderIds /\ req[v].op = "place" /\ Stocked(v) => Stocked(v)'
  <2>1. Takeable(v)' = Takeable(v)
    BY DEF Takeable
  <2>2. tx[v].order \in OrderIds /\ req[v].op = "place" =>
            draft'[tx[v].order] = draft[tx[v].order]
    BY OwnRow DEF RowsLeft
  <2>. QED
    BY <2>1, <2>2 DEF Stocked
<1>5. pc[v] \in {"reserve", "scan", "cross", "fill", "stamp"} => tx[v].order \in OrderIds
  BY Served
<1>. QED
  BY <1>1, <1>3, <1>4, <1>5 DEF Supplied

\* The statements of a placement up to its query of the book.
LEMMA InsertSupplied ==
    ASSUME EngineInv, \A t \in Tickets : Buys(t), NEW w \in Workers, Insert(w)
    PROVE  Supplied(w)'
<1>1. PICK t \in Tickets : t = req[w].ticket
  BY Served DEF Insert
<1>2. PICK k \in OrderIds :
         draft' = [draft EXCEPT ![k] = NewRow(t)] /\ tx' = [tx EXCEPT ![w].order = k]
  BY <1>1 DEF Insert
<1>3. /\ tx[w] = NoTx /\ pc'[w] = "reserve"
  BY <1>1, Typed, Served DEF Insert, Goto
<1>4. tx'[w].order = k /\ tx'[w].probed = FALSE
  BY <1>2, <1>3, Typed DEF NoTx, TxType
<1>5. draft'[k].filled = 0 /\ draft'[k].cancelled = 0
  BY <1>2, Typed DEF NewRow
<1>6. Untouched(w)'
  BY <1>4, <1>5 DEF Untouched
<1>. QED
  BY <1>3, <1>4, <1>6 DEF Supplied

LEMMA ReserveSupplied ==
    ASSUME EngineInv, NEW w \in Workers, ReserveFunds(w), ~Rollback(w), Supplied(w)
    PROVE  Supplied(w)'
<1>1. pc[w] = "reserve" /\ pc'[w] = "scan" /\ req' = req /\ tx' = tx /\ draft' = draft
  BY Typed DEF ReserveFunds, Goto, orderVars
<1>2. req[w].op = "place"
  BY <1>1, Served
<1>3. Untouched(w)' <=> Untouched(w)
  BY <1>1 DEF Untouched
<1>. QED
  BY <1>1, <1>2, <1>3 DEF Supplied

\* There are no resting sells to be found.
LEMMA ScanSupplied ==
    ASSUME EngineInv, \A t \in Tickets : Buys(t), NEW w \in Workers, Scan(w), Supplied(w)
    PROVE  Supplied(w)'
<1>1. pc[w] = "scan" /\ pc'[w] = "cross" /\ req' = req /\ draft' = draft
  BY Typed DEF Scan, Goto
<1>2. req[w].op = "place"
  BY <1>1, Served
<1>3. Lockable(w, req[w].ticket.side, "sell") = {}
  BY AllBids
<1>4. LockAll(w, {}) /\ tx' = [tx EXCEPT ![w].batch = Loaded(NoBatch, {})]
  BY <1>3 DEF Scan
<1>5. \A i \in OrderIds : owner'[i] = owner[i]
  BY <1>4 DEF LockAll
<1>6. Loaded(NoBatch, {}) = NoBatch
  BY DEF Loaded, NoBatch
<1>7. /\ tx'[w].batch = NoBatch /\ tx'[w].probed = tx[w].probed
      /\ tx'[w].order = tx[w].order
  BY <1>4, <1>6, Typed DEF TxType
<1>8. Promised(w)' = Promised(w)
  BY <1>1, <1>5 DEF Promised
<1>9. Counted(w)' <=> Counted(w)
  BY <1>1, <1>8 DEF Counted
<1>10. Untouched(w)' <=> Untouched(w)
  BY <1>1, <1>7 DEF Untouched
<1>. QED
  BY <1>1, <1>2, <1>7, <1>9, <1>10 DEF Supplied

\* The fee is paid between two fills.
LEMMA StampSupplied ==
    ASSUME EngineInv, NEW w \in Workers, StampMarket(w), ~Rollback(w), Supplied(w)
    PROVE  Supplied(w)'
<1>1. /\ pc[w] = "stamp" /\ pc'[w] = "fill" /\ req' = req /\ draft' = draft
      /\ tx' = [tx EXCEPT ![w].due = 0]
  BY Typed DEF StampMarket, Goto, orderVars
<1>2. req[w].op = "place"
  BY <1>1, Served
<1>3. tx'[w].batch = tx[w].batch /\ tx'[w].order = tx[w].order
  BY <1>1, Typed DEF TxType
<1>4. Takeable(w)' = Takeable(w)
  BY <1>1, <1>3 DEF Takeable
<1>5. Stocked(w)' <=> Stocked(w)
  BY <1>1, <1>3, <1>4 DEF Stocked
<1>. QED
  BY <1>1, <1>2, <1>5 DEF Supplied

\* The first query of a FOK order has counted enough.
LEMMA CountSupplied ==
    ASSUME EngineInv, \A t \in Tickets : Buys(t), NEW w \in Workers, req[w].op = "place",
           tx[w].order \in OrderIds, tx[w].batch = NoBatch,
           Matchable(req[w].ticket, Loaded(NoBatch, CrossRows(w))) >= req[w].ticket.quantity,
           LockAll(w, CrossRows(w)), req' = req, draft' = draft
    PROVE  Counted(w)'
<1>1. PICK t \in Tickets : t = req[w].ticket
  BY RequestType, Typed
<1>2. PICK S : S = CrossRows(w)
  OBVIOUS
<1>3. PICK batch : batch = Loaded(NoBatch, S)
  OBVIOUS
<1>4. S \in SUBSET OrderIds /\ S = Lockable(w, Opposite(t.side), "buy")
  BY <1>1, <1>2, LockableRows DEF CrossRows
<1>5. NoBatch \in [OrderIds -> Row] /\ \A i \in OrderIds : ~Exists(NoBatch[i])
  BY NoRowType DEF NoBatch
<1>6. \A i \in OrderIds : batch[i] = IF i \in S THEN draft[i] ELSE NoBatch[i]
  BY <1>3, <1>4, <1>5, LoadedType
<1>7. PICK R : R = {i \in Ids(batch) : \A j \in Ids(batch) :
                       j = i \/ Precedes(batch, j, i) => Compatible(t, batch[j].ticket)}
  OBVIOUS
<1>8. SumFunctionOnSet(Remainders(batch), R) >= t.quantity
  BY <1>1, <1>2, <1>3, <1>7 DEF Matchable
<1>9. \A i \in R : i \in OrderIds /\ i \in S /\ Compatible(t, batch[i].ticket)
  BY <1>5, <1>6, <1>7 DEF Ids
<1>10. PICK P : P = Promised(w)'
  OBVIOUS
<1>11. \A i \in OrderIds : owner'[i] = IF i \in S THEN w ELSE owner[i]
  BY <1>2 DEF LockAll
<1>12. P = {i \in OrderIds : /\ owner'[i] = w
                             /\ Listed(draft[i], t.market, Opposite(t.side), "buy")
                             /\ Compatible(t, draft[i].ticket)}
  BY <1>1, <1>10 DEF Promised
<1>13. R \in SUBSET P
  BY <1>1, <1>4, <1>6, <1>9, <1>11, <1>12 DEF Lockable
<1>14. draft \in [OrderIds -> Row] /\ P \in SUBSET OrderIds
  BY <1>12, Typed
<1>15. \A i \in P : Active(draft[i]) /\ RowOK(draft[i])
  BY <1>12 DEF Listed, EngineInv, DraftsExtend
<1>16. PICK f : f = Remainders(draft)
  OBVIOUS
<1>17. IsFiniteSet(P) /\ \A i \in P : f[i] \in Nat
  BY <1>14, <1>15, <1>16, OpenRemainders
<1>18. SumFunctionOnSet(f, R) <= SumFunctionOnSet(f, P)
  BY <1>13, <1>17, SumOfMore
<1>19. SumFunctionOnSet(f, R) = SumFunctionOnSet(Remainders(batch), R)
  <2>1. PICK g : g = Remainders(batch)
    OBVIOUS
  <2>2. \A i \in R : f[i] = g[i]
    BY <1>6, <1>9, <1>16, <2>1 DEF Remainders
  <2>3. IsFiniteSet(R)
    BY <1>13, <1>17, FS_Subset
  <2>. QED
    BY <2>1, <2>2, <2>3, SumEqual
<1>20. SumFunctionOnSet(f, R) \in Int /\ SumFunctionOnSet(f, P) \in Int /\ t.quantity \in Int
  <2>1. SumFunctionOnSet(f, R) \in Nat /\ SumFunctionOnSet(f, P) \in Nat
    BY <1>13, <1>17, SumOfMore
  <2>. QED
    BY <2>1, TicketType
<1>21. SumFunctionOnSet(f, P) >= t.quantity
  BY <1>8, <1>18, <1>19, <1>20
<1>. QED
  BY <1>1, <1>10, <1>16, <1>21 DEF Counted

\* The second query meets again what the first has counted.
LEMMA StockSupplied ==
    ASSUME EngineInv, EngineInv', \A t \in Tickets : Buys(t), NEW w \in Workers,
           req[w].op = "place", tx[w].order \in OrderIds, tx[w].batch = NoBatch,
           Untouched(w), Counted(w), tx' = [tx EXCEPT ![w].batch = Loaded(NoBatch, CrossRows(w))],
           req' = req, draft' = draft
    PROVE  Stocked(w)'
<1>1. PICK t \in Tickets : t = req[w].ticket
  BY RequestType, Typed
<1>2. PICK S : S = CrossRows(w)
  OBVIOUS
<1>3. PICK batch : batch = Loaded(NoBatch, S)
  OBVIOUS
<1>4. S \in SUBSET OrderIds /\ S = Lockable(w, Opposite(t.side), "buy")
  BY <1>1, <1>2, LockableRows DEF CrossRows
<1>5. NoBatch \in [OrderIds -> Row]
  BY NoRowType DEF NoBatch
<1>6. \A i \in OrderIds : batch[i] = IF i \in S THEN draft[i] ELSE NoBatch[i]
  BY <1>3, <1>4, <1>5, LoadedType
<1>7. tx'[w].batch = batch /\ tx'[w].order = tx[w].order
  BY <1>2, <1>3, Typed DEF TxType
<1>8. PICK T : T = Takeable(w)'
  OBVIOUS
<1>9. T = {i \in Ids(batch) : Compatible(t, batch[i].ticket)}
  BY <1>1, <1>7, <1>8 DEF Takeable
<1>10. PICK P : P = Promised(w)
  OBVIOUS
<1>11. \A i \in P : /\ i \in OrderIds /\ i \in S /\ Exists(draft[i])
                    /\ Compatible(t, draft[i].ticket)
  BY <1>1, <1>4, <1>10 DEF Promised, Lockable, OrderFree, Listed, Active, Exists, ActiveStatuses
<1>12. P \in SUBSET T
  BY <1>6, <1>9, <1>11 DEF Ids
<1>13. PICK f : f = Remainders(batch)
  OBVIOUS
<1>14. IsFiniteSet(T) /\ \A i \in T : f[i] \in Nat
  <2>1. batch \in [OrderIds -> Row] /\ T \in SUBSET OrderIds
    BY <1>3, <1>4, <1>5, <1>9, LoadedType DEF Ids
  <2>2. BatchOK(w)'
    BY DEF EngineInv, WorkersOK
  <2>3. \A i \in T : Active(batch[i]) /\ RowOK(batch[i])
    BY <1>7, <1>9, <2>2 DEF Ids, BatchOK
  <2>. QED
    BY <1>13, <2>1, <2>3, OpenRemainders
<1>15. SumFunctionOnSet(f, P) <= SumFunctionOnSet(f, T)
  BY <1>12, <1>14, SumOfMore
<1>16. SumFunctionOnSet(f, P) = SumFunctionOnSet(Remainders(draft), P)
  <2>1. PICK g : g = Remainders(draft)
    OBVIOUS
  <2>2. \A i \in P : f[i] = g[i]
    BY <1>6, <1>11, <1>13, <2>1 DEF Remainders
  <2>3. IsFiniteSet(P)
    BY <1>12, <1>14, FS_Subset
  <2>. QED
    BY <2>1, <2>2, <2>3, SumEqual
<1>17. SumFunctionOnSet(Remainders(draft), P) >= t.quantity
  BY <1>1, <1>10 DEF Counted
<1>18. PICK own \in Row : own = draft[tx[w].order]
  BY OwnRow
<1>19. Unfilled(own) = t.quantity /\ own.cancelled = 0
  <2>1. own.ticket = t /\ own.filled = 0 /\ own.cancelled = 0
    BY <1>1, <1>18, OwnRow DEF Untouched
  <2>. QED
    BY <2>1, TicketType DEF Unfilled
<1>20. SumFunctionOnSet(f, P) \in Int /\ SumFunctionOnSet(f, T) \in Int /\ t.quantity \in Int
  BY <1>12, <1>14, SumOfMore, TicketType
<1>21. SumFunctionOnSet(f, T) >= Unfilled(own)
  BY <1>15, <1>16, <1>17, <1>19, <1>20
<1>. QED
  BY <1>7, <1>8, <1>13, <1>18, <1>19, <1>21 DEF Stocked

LEMMA CrossSupplied ==
    ASSUME EngineInv, EngineInv', \A t \in Tickets : Buys(t), NEW w \in Workers, Cross(w),
           ~Rollback(w), Supplied(w)
    PROVE  Supplied(w)'
<1>1. PICK t \in Tickets : t = req[w].ticket
  BY Served DEF Cross
<1>2. /\ req[w].op = "place" /\ tx[w].order \in OrderIds /\ pc[w] = "cross"
      /\ tx[w].batch = NoBatch /\ req' = req
  BY Served DEF Cross, DropRemainder, Supplied
<1>3. CASE DropRemainder(w, CrossRows(w))
  <2>1. pc'[w] = "commit"
    BY <1>3, Typed DEF DropRemainder, Goto
  <2>. QED
    BY <2>1 DEF Supplied
<1>4. CASE /\ ~(t.tif = "fok" /\ ~tx[w].probed)
           /\ tx' = [tx EXCEPT ![w].batch = Loaded(tx[w].batch, CrossRows(w))]
           /\ Goto(w, "fill") /\ draft' = draft
  <2>1. pc'[w] = "fill"
    BY <1>4, Typed DEF Goto
  <2>2. t.tif = "fok" => Untouched(w) /\ Counted(w)
    BY <1>1, <1>2, <1>4 DEF Supplied
  <2>3. t.tif = "fok" => Stocked(w)'
    BY <1>2, <1>4, <2>2, StockSupplied
  <2>. QED
    BY <1>1, <1>2, <2>1, <2>3 DEF Supplied
<1>5. CASE /\ t.tif = "fok" /\ Matchable(t, Loaded(tx[w].batch, CrossRows(w))) >= t.quantity
           /\ LockAll(w, CrossRows(w)) /\ Goto(w, "scan") /\ draft' = draft
           /\ tx' = [tx EXCEPT ![w].batch = NoBatch, ![w].probed = TRUE]
  <2>1. pc'[w] = "scan" /\ tx'[w].batch = NoBatch /\ tx'[w].order = tx[w].order
    BY <1>5, Typed DEF Goto, TxType
  <2>2. Untouched(w)
    BY <1>1, <1>2, <1>5 DEF Supplied
  <2>3. Untouched(w)'
    BY <1>5, <2>1, <2>2 DEF Untouched
  <2>4. Counted(w)'
    BY <1>1, <1>2, <1>5, CountSupplied
  <2>. QED
    BY <2>1, <2>3, <2>4 DEF Supplied
<1>. QED
  BY <1>1, <1>3, <1>4, <1>5 DEF Cross

\* A fill takes no more from what is left than from what is needed.
LEMMA FillSupplied ==
    ASSUME EngineInv, NEW w \in Workers, NEW r \in OrderIds, FillOrder(w, r), ~Rollback(w),
           \A t \in Tickets : Buys(t), Supplied(w)
    PROVE  Supplied(w)'
<1>1. PICK k \in OrderIds, q \in Nat, t \in Tickets, own \in Row, resting \in Row :
         /\ k = tx[w].order /\ k # r /\ t = req[w].ticket
         /\ own = draft[k] /\ resting = draft[r] /\ resting = tx[w].batch[r]
         /\ own.ticket = t /\ Exists(own) /\ Exists(resting)
         /\ q = Smaller(Unfilled(own), Unfilled(resting))
         /\ q <= Unfilled(own) /\ q <= Unfilled(resting)
         /\ Unfilled(own) \in Nat \ {0} /\ Unfilled(resting) \in Nat \ {0}
         /\ draft' = [draft EXCEPT ![k] = FillRow(own, q), ![r] = FillRow(resting, q)]
         /\ Compatible(t, resting.ticket)
         /\ owner[k] = w /\ owner[r] = w
  BY FilledRows
<1>2. /\ pc[w] = "fill" /\ pc'[w] = "stamp" /\ req' = req /\ req[w].op = "place"
  BY <1>1, Typed, Served DEF FillOrder, Goto
<1>3. PICK batch \in [OrderIds -> Row] : batch = tx[w].batch
  BY TakeableRows
<1>4. PICK due : tx' = [tx EXCEPT ![w].batch[r] = NoRow, ![w].due = due]
  BY Zenon DEF FillOrder
<1>5. tx'[w].order = k /\ tx'[w].batch = [batch EXCEPT ![r] = NoRow]
  BY <1>1, <1>3, <1>4, Typed DEF TxType
<1>6. SUFFICES ASSUME Stocked(w) PROVE Stocked(w)'
  BY <1>2 DEF Supplied
<1>7. PICK T : T = Takeable(w)
  OBVIOUS
<1>8. PICK f : f = Remainders(batch)
  OBVIOUS
<1>9. IsFiniteSet(T) /\ T \in SUBSET OrderIds /\ \A i \in T : f[i] \in Nat \ {0}
  BY <1>3, <1>7, <1>8, TakeableRows
<1>10. r \in T /\ f[r] = Unfilled(resting)
  BY <1>1, <1>3, <1>7, <1>8 DEF Takeable, Ids, Remainders
<1>11. SumFunctionOnSet(f, T) = f[r] + SumFunctionOnSet(f, T \ {r})
  BY <1>9, <1>10, SumMember
<1>12. SumFunctionOnSet(f, T) >= Unfilled(own) /\ own.cancelled = 0
  BY <1>1, <1>3, <1>6, <1>7, <1>8 DEF Stocked
<1>13. IsFiniteSet(T \ {r}) /\ \A i \in T \ {r} : f[i] \in Nat
  BY <1>9, FS_Subset
<1>14. PICK rest \in Nat : rest = SumFunctionOnSet(f, T \ {r})
  BY <1>13, SumNat
<1>15. PICK new : new = FillRow(own, q)
  OBVIOUS
<1>16. new.cancelled = 0 /\ Unfilled(new) = Unfilled(own) - q
  <2>1. /\ new.cancelled = own.cancelled /\ new.filled = own.filled + q
        /\ new.ticket = own.ticket
    BY <1>15 DEF FillRow, Row
  <2>2. own.ticket.quantity \in Int /\ own.filled \in Int /\ own.cancelled \in Int
    BY <1>1, TicketType DEF Row
  <2>. QED
    BY <1>12, <2>1, <2>2 DEF Unfilled
<1>17. q = Unfilled(own) \/ q = Unfilled(resting)
  BY <1>1, SmallerType
<1>18. rest >= Unfilled(new)
  BY <1>1, <1>10, <1>11, <1>12, <1>14, <1>16, <1>17
<1>19. Takeable(w)' = T \ {r}
  <2>1. PICK b : b = [batch EXCEPT ![r] = NoRow]
    OBVIOUS
  <2>2. \A i \in OrderIds : b[i] = IF i = r THEN NoRow ELSE batch[i]
    BY <1>3, <2>1
  <2>3. Takeable(w)' = {i \in Ids(b) : Compatible(t, b[i].ticket)}
    BY <1>1, <1>2, <1>5, <2>1 DEF Takeable
  <2>. QED
    BY <1>1, <1>3, <1>7, <2>2, <2>3, NoRowType DEF Takeable, Ids
<1>20. SumFunctionOnSet(Remainders(tx'[w].batch), T \ {r}) = rest
  <2>1. PICK g : g = Remainders(tx'[w].batch)
    OBVIOUS
  <2>2. \A i \in T \ {r} : f[i] = g[i]
    BY <1>3, <1>5, <1>8, <1>9, <2>1 DEF Remainders
  <2>. QED
    BY <1>13, <1>14, <2>1, <2>2, SumEqual
<1>21. draft'[k] = new
  BY <1>1, <1>15, Typed
<1>. QED
  BY <1>5, <1>16, <1>18, <1>19, <1>20, <1>21 DEF Stocked

\* A worker's own step.
LEMMA OwnSupplied ==
    ASSUME EngineInv, EngineInv', \A t \in Tickets : Buys(t), NEW w \in Workers,
           Start(w) \/ Step(w), ~Rollback(w), ~Commit(w), Supplied(w)
    PROVE  Supplied(w)'
<1>1. CASE Start(w)
  <2>1. pc'[w] \in {"insert", "row", "snapshot", "annul"}
    BY <1>1, StartRequest
  <2>. QED
    BY <2>1 DEF Supplied
<1>2. CASE CancelStep(w) \/ SettleStep(w) \/ AnnulStep(w)
  BY <1>2, OtherKeepsRequest DEF Supplied
<1>3. CASE CheckPosition(w) \/ CreditSeller(w)
  <2>1. pc[w] \in {"position", "seller"} /\ req[w].op = "place"
    BY <1>3, Served, Zenon DEF CheckPosition, CreditSeller
  <2>. QED
    BY <2>1 DEF Supplied
<1>4. CASE FinishPlace(w)
  <2>1. pc'[w] = "commit"
    BY <1>4, Typed DEF FinishPlace, DropRemainder, Goto
  <2>. QED
    BY <2>1 DEF Supplied
<1>. QED
  BY <1>1, <1>2, <1>3, <1>4, InsertSupplied, ReserveSupplied, ScanSupplied, CrossSupplied,
     FillSupplied, StampSupplied DEF Step, PlaceStep

LEMMA TakerInit == Init => TakerInv
<1> SUFFICES ASSUME Init PROVE TakerInv
  OBVIOUS
<1>1. RowsInv
  BY RowsInit
<1>2. \A i \in OrderIds : orders[i] = NoRow /\ draft[i] = NoRow
  BY DEF Init, NoBatch
<1>3. \A i \in OrderIds : TakenSoFar(i)
  BY <1>2, NoRowTaken DEF TakenSoFar
<1>4. \A w \in Workers : Supplied(w)
  BY DEF Init, Supplied, NoRequest
<1>. QED
  BY <1>1, <1>3, <1>4 DEF TakerInv

LEMMA TakerNext == (\A t \in Tickets : Buys(t)) /\ TakerInv /\ [Next]_vars => TakerInv'
<1> SUFFICES ASSUME \A t \in Tickets : Buys(t), TakerInv, [Next]_vars PROVE TakerInv'
  OBVIOUS
<1>1. /\ RowsInv /\ RowsInv' /\ EngineInv /\ EngineInv'
      /\ \A i \in OrderIds : TakenSoFar(i)
      /\ \A w \in Workers : Supplied(w)
  BY RowsNext DEF TakerInv, RowsInv
<1>2. ASSUME NEW w \in Workers, OwnRows(w) \/ Rollback(w) \/ Commit(w),
             Start(w) \/ Step(w) \/ Rollback(w) \/ Commit(w), NEW v \in Workers \ {w}
      PROVE  Supplied(v)'
  BY <1>1, <1>2, OthersRows, OthersLocal, OthersSupplied
<1>3. ASSUME NEW w \in Workers, (Start(w) \/ Step(w)) /\ ~Rollback(w) /\ ~Commit(w)
      PROVE  TakerInv'
  <2>1. \A i \in OrderIds : TakenSoFar(i)'
    BY <1>1, <1>3, TakenStep
  <2>2. Supplied(w)'
    BY <1>1, <1>3, OwnSupplied
  <2>3. OwnRows(w)
    BY <1>1, <1>3, RowMoves
  <2>4. \A v \in Workers \ {w} : Supplied(v)'
    BY <1>2, <1>3, <2>3
  <2>. QED
    BY <1>1, <2>1, <2>2, <2>4 DEF TakerInv
<1>4. ASSUME NEW w \in Workers, Rollback(w) \/ Commit(w) PROVE TakerInv'
  <2>1. req'[w] = NoRequest
    BY <1>1, <1>4, Typed DEF Rollback, Commit, EndRequest
  <2>2. Supplied(w)'
    BY <2>1 DEF Supplied, NoRequest
  <2>3. \A v \in Workers \ {w} : Supplied(v)'
    BY <1>2, <1>4
  <2>4. ASSUME NEW i \in OrderIds, owner[i] = w PROVE TakenSoFar(i)'
    <3>1. CASE Rollback(w)
      <4>1. orders'[i] = orders[i] /\ draft'[i] = orders[i]
        BY <2>4, <3>1 DEF Rollback
      <4>. QED
        BY <1>1, <4>1 DEF TakenSoFar
    <3>2. CASE Commit(w)
      <4>1. orders'[i] = draft[i] /\ draft'[i] = draft[i]
        BY <2>4, <3>2 DEF Commit
      <4>2. \A v \in Workers : ~(owner[i] = v /\ Unfinished(v, i))
        BY <2>4, <3>2 DEF Commit, Unfinished
      <4>. QED
        BY <1>1, <4>1, <4>2 DEF TakenSoFar
    <3>. QED
      BY <1>4, <3>1, <3>2
  <2>5. ASSUME NEW i \in OrderIds, owner[i] # w PROVE TakenSoFar(i)'
    <3>1. orders'[i] = orders[i] /\ draft'[i] = draft[i] /\ owner'[i] = owner[i]
      BY <1>4, <2>5 DEF Rollback, Commit, Unlock
    <3>2. CASE Taken(draft[i])
      BY <1>1, <3>1, <3>2 DEF TakenSoFar
    <3>3. ASSUME NEW v \in Workers, owner[i] = v, Unfinished(v, i) PROVE TakenSoFar(i)'
      <4>1. pc'[v] = pc[v] /\ req'[v] = req[v] /\ tx'[v] = tx[v]
        BY <1>1, <1>4, <2>5, <3>3, OthersLocal
      <4>2. Unfinished(v, i)'
        BY <3>3, <4>1 DEF Unfinished
      <4>. QED
        BY <1>1, <3>1, <3>3, <4>2 DEF TakenSoFar
    <3>. QED
      BY <1>1, <3>2, <3>3 DEF TakenSoFar
  <2>. QED
    BY <1>1, <2>2, <2>3, <2>4, <2>5 DEF TakerInv
<1>5. CASE UNCHANGED <<orders, draft, owner, wallets, purse, holder, keeper, pc, req, tx>>
  <2>1. \A i \in OrderIds : TakenSoFar(i)'
    BY <1>1, <1>5 DEF TakenSoFar, Unfinished
  <2>2. ASSUME NEW w \in Workers PROVE Supplied(w)'
    <3>1. RowsLeft(w)
      BY <1>5 DEF RowsLeft
    <3>. QED
      BY <1>1, <1>5, <3>1, OthersSupplied
  <2>. QED
    BY <1>1, <2>1, <2>2 DEF TakerInv
<1>. QED
  BY <1>3, <1>4, <1>5, EngineSteps

\* If users only buy, an IOC or FOK order that has been committed never rests, and a FOK
\* order is filled completely or not at all, however many placements take from one book at
\* the same time and whatever cancellations and settlements run between them.
THEOREM FokIsAllOrNothing ==
    ASSUME \A t \in Tickets : Buys(t)
    PROVE  Spec => []TakersNeverRest
<1>1. TakerInv => TakersNeverRest
  <2> SUFFICES ASSUME TakerInv, NEW i \in Ids(orders)
               PROVE  /\ orders[i].ticket.tif # "gtc" => ~Active(orders[i])
                      /\ orders[i].ticket.tif = "fok" =>
                            orders[i].filled \in {0, orders[i].ticket.quantity}
    BY DEF TakersNeverRest
  <2>1. Taken(orders[i])
    BY DEF TakerInv, TakenSoFar, Ids
  <2>. QED
    BY <2>1 DEF Taken
<1>2. TakerInv /\ [Next]_vars => TakerInv'
  BY TakerNext
<1>. QED
  BY <1>1, <1>2, TakerInit, PTL DEF Spec

=============================================================================

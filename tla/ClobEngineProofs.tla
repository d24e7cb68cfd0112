-------------------------- MODULE ClobEngineProofs --------------------------
(***************************************************************************)
(* Theorems about ClobEngine, for any number of users, markets, orders and *)
(* workers, and any mix of requests: types and locks, what no commit       *)
(* undoes, every wallet in balance with its ledger, and the contracts of   *)
(* every market in YES/NO pairs.                                           *)
(***************************************************************************)
EXTENDS ClobProperties, SumLemmas, TLAPS

----------------------------------------------------------------------------
(***************************************************************************)
(* Rows.                                                                   *)
(***************************************************************************)

\* A ticket is well formed.
LEMMA TicketType ==
    ASSUME NEW t \in Tickets
    PROVE  /\ t.user \in Users /\ t.market \in Markets /\ t.side \in Sides
           /\ t.direction \in {"buy", "sell"} /\ t.price \in Nat /\ t.quantity \in Nat \ {0}
    BY TicketsAssumption DEF Ticket

\* The absent row is a row, and an acceptable one.
LEMMA NoRowType == NoRow \in Row /\ RowOK(NoRow) /\ ~Exists(NoRow) /\ ~Active(NoRow)
    BY TicketsAssumption
       DEF NoRow, Row, RowOK, Exists, Active, ActiveStatuses

\* A new row is a row with its whole quantity unfilled.
LEMMA NewRowType ==
    ASSUME NEW t \in Tickets
    PROVE  /\ NewRow(t) \in Row /\ RowOK(NewRow(t)) /\ Exists(NewRow(t))
           /\ NewRow(t).ticket = t /\ Unfilled(NewRow(t)) >= 0 /\ NewRow(t).filled = 0
    BY TicketType DEF NewRow, Row, RowOK, Exists, Active, ActiveStatuses, Unfilled

\* Quantities and stakes of a row are integers.
LEMMA UnfilledType ==
    ASSUME NEW row \in Row
    PROVE  Unfilled(row) \in Int
    BY TicketType DEF Row, Unfilled

\* The product of a price and a quantity is no less than nothing.
LEMMA StakeType ==
    ASSUME NEW row \in Row, NEW q \in Nat
    PROVE  Stake(row, q) \in Nat
<1>1. row.ticket.price \in Nat
    BY TicketType DEF Row
<1>2. ASSUME NEW a \in Nat, NEW b \in Nat
      PROVE  a * b \in Nat
    BY <1>2
<1> QED
    BY <1>1, <1>2 DEF Stake

\* So is what a row with an unfilled remainder has reserved.
LEMMA ReservedType ==
    ASSUME NEW row \in Row, Unfilled(row) >= 0
    PROVE  Reserved(row) \in Nat
<1>1. Unfilled(row) \in Nat
    BY UnfilledType
<1> QED
    BY <1>1, StakeType DEF Reserved

\* A fill of at most the remainder leaves an acceptable row, with more filled.
LEMMA FillRowType ==
    ASSUME NEW row \in Row, NEW q \in Nat, q <= Unfilled(row)
    PROVE  /\ FillRow(row, q) \in Row /\ RowOK(FillRow(row, q)) /\ Exists(FillRow(row, q))
           /\ FillRow(row, q).filled = row.filled + q
           /\ FillRow(row, q).ticket = row.ticket
           /\ Unfilled(FillRow(row, q)) >= 0
<1> DEFINE new == FillRow(row, q)
<1>1. /\ new \in Row /\ new.ticket = row.ticket /\ new.filled = row.filled + q
      /\ new.cancelled = row.cancelled
      /\ new.status = IF Unfilled(row) = q THEN "filled" ELSE "partial"
    <2> DEFINE status == IF Unfilled(row) = q THEN "filled" ELSE "partial"
    <2>1. status \in {"filled", "partial"}
        OBVIOUS
    <2>2. new = [row EXCEPT !.filled = @ + q, !.status = status]
        BY DEF FillRow
    <2>3. row.filled + q \in Nat
        BY DEF Row
    <2> HIDE DEF status, new
    <2>4. /\ new \in Row /\ new.ticket = row.ticket /\ new.filled = row.filled + q
          /\ new.cancelled = row.cancelled /\ new.status = status
        BY <2>1, <2>2, <2>3 DEF Row, ActiveStatuses
    <2> QED
        BY <2>4 DEF status
<1>2. Unfilled(new) = Unfilled(row) - q
    BY <1>1, TicketType DEF Unfilled, Row
<1>3. Unfilled(row) \in Int
    BY UnfilledType
<1> QED
    BY <1>1, <1>2, <1>3 DEF RowOK, Exists, Active, ActiveStatuses

\* A cancellation takes the row off the book and leaves its fills alone.
LEMMA CancelRowType ==
    ASSUME NEW row \in Row, NEW seen \in Row, Active(seen), RowOK(seen)
    PROVE  /\ CancelRow(row, seen) \in Row /\ RowOK(CancelRow(row, seen))
           /\ Exists(CancelRow(row, seen)) /\ ~Active(CancelRow(row, seen))
           /\ CancelRow(row, seen).filled = row.filled
           /\ CancelRow(row, seen).ticket = row.ticket
<1>1. seen.cancelled + Unfilled(seen) \in Nat
    BY TicketType DEF Row, RowOK, Unfilled
<1> QED
    BY <1>1 DEF CancelRow, Row, RowOK, Exists, Active, ActiveStatuses

\* So does the cancellation of a remainder.
LEMMA CancelRemainderType ==
    ASSUME NEW row \in Row, Unfilled(row) >= 0
    PROVE  /\ CancelRemainder(row) \in Row /\ RowOK(CancelRemainder(row))
           /\ Exists(CancelRemainder(row)) /\ ~Active(CancelRemainder(row))
           /\ CancelRemainder(row).filled = row.filled
           /\ CancelRemainder(row).ticket = row.ticket
           /\ Unfilled(CancelRemainder(row)) >= 0
<1> DEFINE new == CancelRemainder(row)
<1>1. row.cancelled + Unfilled(row) \in Nat
    BY TicketType DEF Row, Unfilled
<1>2. /\ new \in Row /\ new.ticket = row.ticket /\ new.filled = row.filled
      /\ new.cancelled = row.cancelled + Unfilled(row)
      /\ new.status \in {"filled", "cancelled"}
    BY <1>1 DEF CancelRemainder, Row, ActiveStatuses
<1>3. Unfilled(new) = 0
    BY <1>2, TicketType DEF Unfilled, Row
<1> QED
    BY <1>2, <1>3 DEF RowOK, Exists, Active, ActiveStatuses

\* The smaller of two numbers is one of them and no more than either.
LEMMA SmallerType ==
    ASSUME NEW m \in Int, NEW n \in Int
    PROVE  Smaller(m, n) \in {m, n} /\ Smaller(m, n) <= m /\ Smaller(m, n) <= n
    BY DEF Smaller

\* The fee on a stake is a natural number.
LEMMA FeeType ==
    ASSUME NEW stake \in Nat, NEW bps \in Nat
    PROVE  TakerFee(stake, bps) \in Nat
<1>1. bps * stake \in Nat
    OBVIOUS
<1>2. bps * stake + 9999 \in Nat
    BY <1>1
<1>3. ASSUME NEW n \in Nat PROVE n \div 10000 \in Nat
    OBVIOUS
<1> QED
    BY <1>2, <1>3 DEF TakerFee

----------------------------------------------------------------------------
(***************************************************************************)
(* Wallets.                                                                *)
(***************************************************************************)

\* A wallet as it may be before its validations have run.
Drawn ==
    [available : Int, reserved : Int,
     spent : [Markets -> Int], fees : [Markets -> Nat], won : [Markets -> Int]]

\* A wallet that is valid is a wallet again.
LEMMA SolventType ==
    ASSUME NEW p \in Drawn, Solvent(p)
    PROVE  p \in Wallet
    BY DEF Drawn, Wallet, Solvent

\* Every wallet may be drawn on.
LEMMA WalletIsDrawn == Wallet \subseteq Drawn
    BY DEF Drawn, Wallet

\* A release keeps the shape of a wallet, whatever the amount.
LEMMA ReleaseDrawn ==
    ASSUME NEW p \in Drawn, NEW amount \in Int
    PROVE  Release(p, amount) \in Drawn
<1>1. p.available + amount \in Int /\ p.reserved - amount \in Int
    BY DEF Drawn
<1> QED
    BY <1>1 DEF Release, Drawn

\* So does a spending on a market.
LEMMA SpendDrawn ==
    ASSUME NEW p \in Drawn, NEW amount \in Int, NEW m \in Markets
    PROVE  SpendReserved(p, m, amount) \in Drawn
<1>1. p.reserved - amount \in Int
    BY DEF Drawn
<1>2. [p.spent EXCEPT ![m] = @ + amount] \in [Markets -> Int]
    BY DEF Drawn
<1> QED
    BY <1>1, <1>2 DEF SpendReserved, Drawn

\* A reservation that the wallet can pay for.
LEMMA ReserveType ==
    ASSUME NEW p \in Wallet, NEW amount \in Nat, p.available >= amount
    PROVE  Reserve(p, amount) \in Wallet
<1>1. p.available - amount \in Nat /\ p.reserved + amount \in Nat
    BY DEF Wallet
<1> QED
    BY <1>1 DEF Reserve, Wallet

\* A release of no more than is reserved.
LEMMA ReleaseType ==
    ASSUME NEW p \in Wallet, NEW amount \in Nat, amount <= p.reserved
    PROVE  Release(p, amount) \in Wallet
<1>1. p.available + amount \in Nat /\ p.reserved - amount \in Nat
    BY DEF Wallet
<1> QED
    BY <1>1 DEF Release, Wallet

\* A seller is credited.
LEMMA CreditType ==
    ASSUME NEW p \in Wallet, NEW amount \in Nat, NEW m \in Markets
    PROVE  [p EXCEPT !.available = @ + amount, !.spent[m] = @ - amount] \in Wallet
<1>1. p.available + amount \in Nat
    BY DEF Wallet
<1>2. [p.spent EXCEPT ![m] = @ - amount] \in [Markets -> Int]
    BY DEF Wallet
<1> QED
    BY <1>1, <1>2 DEF Wallet

\* A taker pays a fee that the wallet covers.
LEMMA FeePaidType ==
    ASSUME NEW p \in Wallet, NEW fee \in Nat, p.available >= fee, NEW m \in Markets
    PROVE  [p EXCEPT !.available = @ - fee, !.fees[m] = @ + fee] \in Wallet
<1>1. p.available - fee \in Nat
    BY DEF Wallet
<1>2. [p.fees EXCEPT ![m] = @ + fee] \in [Markets -> Nat]
    BY DEF Wallet
<1> QED
    BY <1>1, <1>2 DEF Wallet

\* A payout, a refund, or a clawback of no more than is available.
LEMMA WonType ==
    ASSUME NEW p \in Wallet, NEW amount \in Int, p.available + amount >= 0,
           NEW m \in Markets
    PROVE  [p EXCEPT !.available = @ + amount, !.won[m] = @ + amount] \in Wallet
<1>1. p.available + amount \in Nat
    BY DEF Wallet
<1>2. [p.won EXCEPT ![m] = @ + amount] \in [Markets -> Int]
    BY DEF Wallet
<1> QED
    BY <1>1, <1>2 DEF Wallet

\* What a user has laid out on a market is an integer.
LEMMA OutlayType ==
    ASSUME NEW p \in Wallet, NEW m \in Markets
    PROVE  Outlay(p, m) \in Int
    BY DEF Outlay, Wallet

----------------------------------------------------------------------------
(***************************************************************************)
(* The local variables of a request.                                       *)
(***************************************************************************)

TxType ==
    [order : OrderIds \cup {0}, batch : [OrderIds -> Row],
     payees : SUBSET Users, due : Nat, probed : BOOLEAN]

\* Each of the fields that a statement assigns, alone.
LEMMA TxUpdateType ==
    ASSUME NEW x \in TxType
    PROVE  /\ \A i \in OrderIds \cup {0} :
                 LET y == [x EXCEPT !.order = i]
                 IN  y \in TxType /\ y.order = i /\ y.batch = x.batch
           /\ \A b \in [OrderIds -> Row] :
                 LET y == [x EXCEPT !.batch = b]
                 IN  y \in TxType /\ y.order = x.order /\ y.batch = b
           /\ \A U \in SUBSET Users :
                 LET y == [x EXCEPT !.payees = U]
                 IN  y \in TxType /\ y.order = x.order /\ y.batch = x.batch
           /\ \A due \in Nat :
                 LET y == [x EXCEPT !.due = due]
                 IN  y \in TxType /\ y.order = x.order /\ y.batch = x.batch
           /\ \A probed \in BOOLEAN :
                 LET y == [x EXCEPT !.probed = probed]
                 IN  y \in TxType /\ y.order = x.order /\ y.batch = x.batch
<1>1. \A i \in OrderIds \cup {0} :
          LET y == [x EXCEPT !.order = i]
          IN  y \in TxType /\ y.order = i /\ y.batch = x.batch
    BY DEF TxType
<1>2. \A b \in [OrderIds -> Row] :
          LET y == [x EXCEPT !.batch = b]
          IN  y \in TxType /\ y.order = x.order /\ y.batch = b
    BY DEF TxType
<1>3. \A U \in SUBSET Users :
          LET y == [x EXCEPT !.payees = U]
          IN  y \in TxType /\ y.order = x.order /\ y.batch = x.batch
    BY DEF TxType
<1>4. \A due \in Nat :
          LET y == [x EXCEPT !.due = due]
          IN  y \in TxType /\ y.order = x.order /\ y.batch = x.batch
    BY DEF TxType
<1>5. \A probed \in BOOLEAN :
          LET y == [x EXCEPT !.probed = probed]
          IN  y \in TxType /\ y.order = x.order /\ y.batch = x.batch
    BY DEF TxType
<1> QED
    BY <1>1, <1>2, <1>3, <1>4, <1>5

----------------------------------------------------------------------------
(***************************************************************************)
(* Requests.                                                               *)
(***************************************************************************)

\* The fields of a request are those of its operation.
LEMMA RequestType ==
    ASSUME NEW r \in Request
    PROVE  /\ r.op = "place" => r.ticket \in Tickets
           /\ r.op = "cancel" => r.order \in OrderIds
           /\ r.op \in {"settle", "annul"} => r.market \in Markets
           /\ r.op = "settle" => r.outcome \in Sides
    BY DEF Request

----------------------------------------------------------------------------
(***************************************************************************)
(* The shape of a step.  Every action of a worker other than Rollback and  *)
(* Commit writes only drafts and its own local state, and takes locks that *)
(* nobody else holds.                                                      *)
(***************************************************************************)

\* The rows: each is left alone, or locked and written in an acceptable way.
RowStep(w, i) ==
    \/ draft'[i] = draft[i] /\ owner'[i] = owner[i]
    \/ /\ OrderFree(w, i) /\ owner'[i] = w
       /\ RowOK(draft'[i]) /\ Exists(draft'[i]) /\ Extends(draft'[i], orders[i])

RowsStep(w) ==
    /\ orders' = orders
    /\ draft' \in [OrderIds -> Row]
    /\ owner' \in [OrderIds -> Workers \cup {Nobody}]
    /\ \A i \in OrderIds : RowStep(w, i)

\* The wallets and market rows keep their types.
TypesStep ==
    /\ wallets' \in [Users -> Wallet]
    /\ purse' \in [Users -> Wallet]
    /\ holder' \in [Users -> Workers \cup {Nobody}]
    /\ market' \in [Markets -> MarketStatus]
    /\ keeper' \in [Markets -> Workers \cup {Nobody}]
    /\ expired' \in SUBSET Markets

\* Only w's local state changes.
LocalStep(w) ==
    /\ pc' \in [Workers -> Statement]
    /\ req' \in [Workers -> Request]
    /\ tx' \in [Workers -> TxType]
    /\ \A v \in Workers \ {w} : pc'[v] = pc[v] /\ req'[v] = req[v] /\ tx'[v] = tx[v]

WorkerOK(w) == Serving(w) /\ BatchOK(w) /\ PlacementOK(w)

\* A step of that shape that leaves w well preserves the invariant.
LEMMA ShapedStep ==
    ASSUME EngineInv, NEW w \in Workers,
           RowsStep(w), TypesStep, LocalStep(w), WorkerOK(w)'
    PROVE  EngineInv'
<1>1. TypeOK'
    BY Zenon DEF TypeOK, RowsStep, TypesStep, LocalStep, TxType, EngineInv
<1>2. DraftsExtend'
  <2> SUFFICES ASSUME NEW i \in OrderIds
               PROVE  /\ RowOK(orders[i])' /\ RowOK(draft[i])'
                      /\ Extends(draft[i], orders[i])'
                      /\ owner'[i] # Nobody => Exists(draft[i])'
    BY DEF DraftsExtend
  <2>1. orders' = orders /\ RowStep(w, i)
    BY DEF RowsStep
  <2>2. /\ RowOK(orders[i]) /\ RowOK(draft[i]) /\ Extends(draft[i], orders[i])
        /\ owner[i] # Nobody => Exists(draft[i])
    BY DEF EngineInv, DraftsExtend
  <2> QED
    BY <2>1, <2>2 DEF RowStep
<1>3. ASSUME NEW v \in Workers \ {w}
      PROVE  WorkerOK(v)'
  <2>1. /\ pc'[v] = pc[v] /\ req'[v] = req[v] /\ tx'[v] = tx[v]
        /\ orders' = orders
    BY DEF LocalStep, RowsStep
  <2>2. WorkerOK(v)
    BY DEF EngineInv, WorkersOK, WorkerOK
  <2>3. ASSUME NEW i \in OrderIds, owner[i] = v
        PROVE  draft'[i] = draft[i] /\ owner'[i] = v
    BY <2>3, NobodyAssumption DEF RowsStep, RowStep, OrderFree
  <2>4. Serving(v)'
    BY <2>1, <2>2 DEF WorkerOK, Serving
  <2>5. BatchOK(v)'
    BY <2>1, <2>2 DEF WorkerOK, BatchOK
  <2>6. PlacementOK(v)'
    BY <2>1, <2>2, <2>3 DEF WorkerOK, PlacementOK
  <2> QED
    BY <2>4, <2>5, <2>6 DEF WorkerOK
<1>4. WorkersOK'
    BY <1>3 DEF WorkersOK, WorkerOK
<1> QED
    BY <1>1, <1>2, <1>4 DEF EngineInv

\* The invariant of one worker, and of the types, in the form the steps use it.
LEMMA Typed ==
    ASSUME EngineInv
    PROVE  /\ orders \in [OrderIds -> Row] /\ draft \in [OrderIds -> Row]
           /\ owner \in [OrderIds -> Workers \cup {Nobody}]
           /\ wallets \in [Users -> Wallet] /\ purse \in [Users -> Wallet]
           /\ holder \in [Users -> Workers \cup {Nobody}]
           /\ market \in [Markets -> MarketStatus]
           /\ keeper \in [Markets -> Workers \cup {Nobody}]
           /\ expired \in SUBSET Markets
           /\ pc \in [Workers -> Statement]
           /\ req \in [Workers -> Request]
           /\ tx \in [Workers -> TxType]
    BY Zenon DEF EngineInv, TypeOK, TxType

\* A worker that has gone idle is well.
LEMMA IdleOK ==
    ASSUME NEW w \in Workers, pc'[w] = "idle", req'[w] = NoRequest, tx'[w] = NoTx
    PROVE  WorkerOK(w)'
<1>1. Serving(w)'
    BY DEF Serving, PlacePCs, Placing, CancelPCs, SettlePCs, AnnulPCs
<1>2. BatchOK(w)'
  <2> SUFFICES ASSUME NEW i \in OrderIds
               PROVE  RowOK(NoRow) /\ ~Exists(NoRow) /\ tx'[w].batch[i] = NoRow
    BY DEF BatchOK
  <2> QED
    BY NoRowType DEF NoTx, NoBatch
<1>3. PlacementOK(w)'
    BY DEF PlacementOK, NoRequest
<1> QED
    BY <1>1, <1>2, <1>3 DEF WorkerOK

\* The local state of a worker whose request ends.
LEMMA EndRequestStep ==
    ASSUME EngineInv, NEW w \in Workers, EndRequest(w)
    PROVE  LocalStep(w) /\ WorkerOK(w)'
<1>1. NoTx \in TxType
    BY NoRowType DEF NoTx, NoBatch, TxType
<1>2. NoRequest \in Request
    BY DEF NoRequest, Request
<1>3. LocalStep(w)
    BY <1>1, <1>2, Typed DEF LocalStep, EndRequest, Goto, Statement
<1>4. pc'[w] = "idle" /\ req'[w] = NoRequest /\ tx'[w] = NoTx
    BY Typed DEF EndRequest, Goto
<1> QED
    BY <1>3, <1>4, IdleOK

\* A worker that is left alone while the locks of another are released stays well.
LEMMA BystanderOK ==
    ASSUME EngineInv, NEW w \in Workers, NEW v \in Workers \ {w}, LocalStep(w),
           \A i \in OrderIds : owner[i] = v =>
              orders'[i] = orders[i] /\ draft'[i] = draft[i] /\ owner'[i] = v
    PROVE  WorkerOK(v)'
<1>1. pc'[v] = pc[v] /\ req'[v] = req[v] /\ tx'[v] = tx[v]
    BY DEF LocalStep
<1>2. WorkerOK(v)
    BY DEF EngineInv, WorkersOK, WorkerOK
<1>3. Serving(v)'
    BY <1>1, <1>2 DEF WorkerOK, Serving
<1>4. BatchOK(v)'
    BY <1>1, <1>2 DEF WorkerOK, BatchOK
<1>5. PlacementOK(v)'
    BY <1>1, <1>2 DEF WorkerOK, PlacementOK
<1> QED
    BY <1>3, <1>4, <1>5 DEF WorkerOK

\* The released locks are of the right type.
LEMMA UnlockType ==
    ASSUME EngineInv, NEW w \in Workers, Unlock(w)
    PROVE  /\ owner' \in [OrderIds -> Workers \cup {Nobody}]
           /\ holder' \in [Users -> Workers \cup {Nobody}]
           /\ keeper' \in [Markets -> Workers \cup {Nobody}]
           /\ \A i \in OrderIds : owner'[i] = IF owner[i] = w THEN Nobody ELSE owner[i]
    BY Typed DEF Unlock

\* Whatever a transaction has done, it can be rolled back.
LEMMA RollbackStep ==
    ASSUME EngineInv, NEW w \in Workers, Rollback(w)
    PROVE  EngineInv'
<1>1. LocalStep(w) /\ WorkerOK(w)'
    BY EndRequestStep DEF Rollback
<1>2. /\ owner' \in [OrderIds -> Workers \cup {Nobody}]
      /\ holder' \in [Users -> Workers \cup {Nobody}]
      /\ keeper' \in [Markets -> Workers \cup {Nobody}]
      /\ \A i \in OrderIds : owner'[i] = IF owner[i] = w THEN Nobody ELSE owner[i]
    BY UnlockType DEF Rollback
<1>3. /\ draft' \in [OrderIds -> Row] /\ purse' \in [Users -> Wallet]
      /\ orders' = orders
      /\ \A i \in OrderIds : draft'[i] = IF owner[i] = w THEN orders[i] ELSE draft[i]
    BY Typed DEF Rollback
<1>4. TypeOK'
    BY <1>1, <1>2, <1>3, Typed DEF Rollback, TypeOK, LocalStep, TxType
<1>5. DraftsExtend'
  <2> SUFFICES ASSUME NEW i \in OrderIds
               PROVE  /\ RowOK(orders[i])' /\ RowOK(draft[i])'
                      /\ Extends(draft[i], orders[i])'
                      /\ owner'[i] # Nobody => Exists(draft[i])'
    BY DEF DraftsExtend
  <2>1. /\ RowOK(orders[i]) /\ RowOK(draft[i]) /\ Extends(draft[i], orders[i])
        /\ owner[i] # Nobody => Exists(draft[i])
    BY DEF EngineInv, DraftsExtend
  <2>2. Extends(orders[i], orders[i])
    BY Typed DEF Extends, Row
  <2> QED
    BY <1>2, <1>3, <2>1, <2>2
<1>6. ASSUME NEW v \in Workers \ {w}
      PROVE  WorkerOK(v)'
  <2>1. \A i \in OrderIds : owner[i] = v =>
            orders'[i] = orders[i] /\ draft'[i] = draft[i] /\ owner'[i] = v
    BY <1>2, <1>3
  <2> QED
    BY <1>1, <2>1, BystanderOK
<1>7. WorkersOK'
    BY <1>1, <1>6 DEF WorkersOK, WorkerOK
<1> QED
    BY <1>4, <1>5, <1>7 DEF EngineInv

\* The market statuses that a commit writes.
LEMMA FinalStatusType ==
    ASSUME EngineInv, NEW w \in Workers, NEW m \in Markets
    PROVE  FinalStatus(req[w], m) \in MarketStatus
    BY Typed DEF FinalStatus, MarketStatus

\* A transaction publishes what it has written and drops its locks.
LEMMA CommitStep ==
    ASSUME EngineInv, NEW w \in Workers, Commit(w)
    PROVE  EngineInv'
<1>1. LocalStep(w) /\ WorkerOK(w)'
    BY EndRequestStep DEF Commit
<1>2. /\ owner' \in [OrderIds -> Workers \cup {Nobody}]
      /\ holder' \in [Users -> Workers \cup {Nobody}]
      /\ keeper' \in [Markets -> Workers \cup {Nobody}]
      /\ \A i \in OrderIds : owner'[i] = IF owner[i] = w THEN Nobody ELSE owner[i]
    BY UnlockType DEF Commit
<1>3. /\ orders' \in [OrderIds -> Row] /\ wallets' \in [Users -> Wallet]
      /\ draft' = draft
      /\ \A i \in OrderIds : orders'[i] = IF owner[i] = w THEN draft[i] ELSE orders[i]
    BY Typed DEF Commit
<1>4. market' \in [Markets -> MarketStatus]
    BY FinalStatusType DEF Commit
<1>5. TypeOK'
    BY <1>1, <1>2, <1>3, <1>4, Typed DEF Commit, TypeOK, LocalStep, TxType
<1>6. DraftsExtend'
  <2> SUFFICES ASSUME NEW i \in OrderIds
               PROVE  /\ RowOK(orders[i])' /\ RowOK(draft[i])'
                      /\ Extends(draft[i], orders[i])'
                      /\ owner'[i] # Nobody => Exists(draft[i])'
    BY DEF DraftsExtend
  <2>1. /\ RowOK(orders[i]) /\ RowOK(draft[i]) /\ Extends(draft[i], orders[i])
        /\ owner[i] # Nobody => Exists(draft[i])
    BY DEF EngineInv, DraftsExtend
  <2>2. Extends(draft[i], draft[i])
    BY Typed DEF Extends, Row
  <2> QED
    BY <1>2, <1>3, <2>1, <2>2
<1>7. ASSUME NEW v \in Workers \ {w}
      PROVE  WorkerOK(v)'
  <2>1. \A i \in OrderIds : owner[i] = v =>
            orders'[i] = orders[i] /\ draft'[i] = draft[i] /\ owner'[i] = v
    BY <1>2, <1>3
  <2> QED
    BY <1>1, <2>1, BystanderOK
<1>8. WorkersOK'
    BY <1>1, <1>7 DEF WorkersOK, WorkerOK
<1> QED
    BY <1>5, <1>6, <1>8 DEF EngineInv

\* The services start on an empty book.
LEMMA InitInv == Init => EngineInv
<1> SUFFICES ASSUME Init PROVE EngineInv
    OBVIOUS
<1>1. NoTx \in TxType /\ NoBatch \in [OrderIds -> Row]
    BY NoRowType DEF NoTx, NoBatch, TxType
<1>2. \A u \in Users : NewWallet(InitialFunds[u]) \in Wallet
    BY FundsAssumption DEF NewWallet, Wallet
<1>3. NoRequest \in Request /\ "idle" \in Statement /\ "open" \in MarketStatus
    BY DEF NoRequest, Request, Statement, MarketStatus
<1>4. TypeOK
    BY <1>1, <1>2, <1>3 DEF Init, TypeOK, TxType
<1>5. DraftsExtend
    BY NoRowType DEF Init, NoBatch, DraftsExtend, Extends, NoRow
<1>6. ASSUME NEW w \in Workers
      PROVE  Serving(w) /\ BatchOK(w) /\ PlacementOK(w)
  <2>1. pc[w] = "idle" /\ req[w] = NoRequest /\ tx[w] = NoTx
    BY DEF Init
  <2>2. Serving(w)
    BY <2>1 DEF Serving, PlacePCs, Placing, CancelPCs, SettlePCs, AnnulPCs
  <2>3. BatchOK(w)
    BY <2>1, NoRowType DEF BatchOK, NoTx, NoBatch
  <2>4. PlacementOK(w)
    BY <2>1 DEF PlacementOK, NoRequest
  <2> QED
    BY <2>2, <2>3, <2>4
<1> QED
    BY <1>4, <1>5, <1>6 DEF EngineInv, WorkersOK

----------------------------------------------------------------------------
(***************************************************************************)
(* Steps that leave the order rows alone.                                  *)
(***************************************************************************)

\* What a worker's statement says about its request.
LEMMA Served ==
    ASSUME EngineInv, NEW w \in Workers
    PROVE  /\ pc[w] = "idle" => req[w] = NoRequest /\ tx[w] = NoTx
           /\ pc[w] \in {"insert", "reserve", "position", "scan", "cross", "fill", "seller",
                         "stamp"}
                => req[w].op = "place" /\ req[w].ticket \in Tickets
           /\ pc[w] = "insert" => tx[w] = NoTx
           /\ pc[w] \in {"reserve", "scan"} => Buys(req[w].ticket)
           /\ pc[w] \in {"reserve", "position", "scan", "cross", "fill", "seller", "stamp",
                         "release"}
                => tx[w].order \in OrderIds
           /\ pc[w] \in {"row", "unreserve"}
                => req[w].op = "cancel" /\ req[w].order \in OrderIds
           /\ pc[w] \in {"snapshot", "sweep", "release", "pay", "credit"}
                => req[w].op = "settle" /\ req[w].market \in Markets
                     /\ req[w].outcome \in Sides
           /\ pc[w] \in {"annul", "wallet", "void", "refund"}
                => req[w].op = "annul" /\ req[w].market \in Markets
<1>1. Serving(w)
    BY DEF EngineInv, WorkersOK
<1>2. pc[w] \in Statement /\ req[w] \in Request
    BY Typed
<1> QED
    BY <1>1, <1>2, RequestType DEF Serving, PlacePCs, Placing, CancelPCs, SettlePCs, AnnulPCs

\* The next statement and the new local variables of a worker.
LEMMA LocalUpdate ==
    ASSUME EngineInv, NEW w \in Workers, NEW s \in Statement, Goto(w, s),
           NEW x \in TxType, tx' = [tx EXCEPT ![w] = x], UNCHANGED req
    PROVE  LocalStep(w) /\ pc'[w] = s /\ tx'[w] = x /\ req'[w] = req[w]
    BY Typed DEF LocalStep, Goto

\* The same for a statement that assigns no local variable.
LEMMA PlainUpdate ==
    ASSUME EngineInv, NEW w \in Workers, NEW s \in Statement, Goto(w, s),
           UNCHANGED <<req, tx>>
    PROVE  LocalStep(w) /\ pc'[w] = s /\ tx'[w] = tx[w] /\ req'[w] = req[w]
    BY Typed DEF LocalStep, Goto

\* A wallet that is locked and written.
LEMMA WalletUpdate ==
    ASSUME EngineInv, NEW w \in Workers, NEW u \in Users, NEW p \in Wallet,
           purse' = [purse EXCEPT ![u] = p], LockWallet(w, u) \/ UNCHANGED holder,
           UNCHANGED <<wallets, marketVars>>
    PROVE  TypesStep
    BY Typed DEF TypesStep, LockWallet, marketVars

\* The statements of the code are statements.
LEMMA StatementType ==
    /\ {"reserve", "position", "scan", "cross", "fill", "seller", "stamp"} \subseteq Statement
    /\ {"idle", "insert", "commit", "row", "unreserve"} \subseteq Statement
    /\ {"snapshot", "sweep", "release", "pay", "credit"} \subseteq Statement
    /\ {"annul", "wallet", "void", "refund"} \subseteq Statement
    BY DEF Statement, Placing

\* A step that leaves the rows, and what w has loaded of them, alone.
LEMMA QuietStep ==
    ASSUME EngineInv, NEW w \in Workers, UNCHANGED orderVars, TypesStep, LocalStep(w),
           req'[w] = req[w], tx'[w].batch = tx[w].batch,
           req[w].op = "place" => tx'[w].order = tx[w].order,
           Serving(w)'
    PROVE  EngineInv'
<1>1. orders' = orders /\ draft' = draft /\ owner' = owner
    BY DEF orderVars
<1>2. RowsStep(w)
    BY <1>1, Typed DEF RowsStep, RowStep
<1>3. BatchOK(w) /\ PlacementOK(w)
    BY DEF EngineInv, WorkersOK
<1>4. BatchOK(w)'
    BY <1>3 DEF BatchOK
<1>5. PlacementOK(w)'
    BY <1>1, <1>3 DEF PlacementOK
<1> QED
    BY <1>2, <1>4, <1>5, ShapedStep DEF WorkerOK

\* The first step of a request.
LEMMA StartStep ==
    ASSUME EngineInv, NEW w \in Workers, pc[w] = "idle",
           UNCHANGED <<orderVars, walletVars, marketVars, tx>>,
           NEW r \in Request, req' = [req EXCEPT ![w] = r],
           NEW s \in {"insert", "row", "snapshot", "annul"}, Goto(w, s),
           s = "insert" => r.op = "place",
           s = "row" => r.op = "cancel",
           s = "snapshot" => r.op = "settle",
           s = "annul" => r.op = "annul"
    PROVE  EngineInv'
<1>1. orders' = orders /\ draft' = draft /\ owner' = owner
    BY DEF orderVars
<1>2. RowsStep(w)
    BY <1>1, Typed DEF RowsStep, RowStep
<1>3. TypesStep
    BY Typed DEF TypesStep, walletVars, marketVars
<1>4. LocalStep(w)
    BY Typed DEF LocalStep, Goto, Statement
<1>5. pc'[w] = s /\ req'[w] = r /\ tx'[w] = NoTx
    BY Typed, Served DEF Goto
<1>6. Serving(w)'
    BY <1>5 DEF Serving, PlacePCs, Placing, CancelPCs, SettlePCs, AnnulPCs
<1>7. \A i \in OrderIds : tx'[w].batch[i] = NoRow
    BY <1>5 DEF NoTx, NoBatch
<1>8. BatchOK(w)'
    BY <1>7, NoRowType DEF BatchOK
<1>9. tx'[w].order \notin OrderIds
    BY <1>5, MaxOrdersAssumption DEF NoTx, OrderIds
<1>10. PlacementOK(w)'
    BY <1>7, <1>9, NoRowType DEF PlacementOK
<1> QED
    BY <1>2, <1>3, <1>4, <1>6, <1>8, <1>10, ShapedStep DEF WorkerOK

\* Taking on a request of any kind preserves the invariant.
LEMMA StartInv ==
    ASSUME EngineInv, NEW w \in Workers, Start(w)
    PROVE  EngineInv'
<1>1. ASSUME NEW t \in Tickets, StartPlace(w, t)
      PROVE  EngineInv'
  <2>1. [op |-> "place", ticket |-> t] \in Request
    BY DEF Request
  <2> QED
    BY <1>1, <2>1, StartStep DEF StartPlace
<1>2. ASSUME NEW i \in OrderIds, StartCancel(w, i)
      PROVE  EngineInv'
  <2>1. [op |-> "cancel", order |-> i] \in Request
    BY DEF Request
  <2> QED
    BY <1>2, <2>1, StartStep DEF StartCancel
<1>3. ASSUME NEW m \in Markets, NEW outcome \in Sides, StartSettle(w, m, outcome)
      PROVE  EngineInv'
  <2>1. [op |-> "settle", market |-> m, outcome |-> outcome] \in Request
    BY DEF Request
  <2> QED
    BY <1>3, <2>1, StartStep DEF StartSettle
<1>4. ASSUME NEW m \in Markets, StartAnnul(w, m)
      PROVE  EngineInv'
  <2>1. [op |-> "annul", market |-> m] \in Request
    BY DEF Request
  <2> QED
    BY <1>4, <2>1, StartStep DEF StartAnnul
<1> QED
    BY <1>1, <1>2, <1>3, <1>4 DEF Start

\* reserve_funds! either fails or moves the reservation inside the wallet.
LEMMA ReserveFundsInv ==
    ASSUME EngineInv, NEW w \in Workers, ReserveFunds(w)
    PROVE  EngineInv'
<1> DEFINE u == req[w].ticket.user
           reservation == Reserved(draft[tx[w].order])
<1>1. /\ pc[w] = "reserve" /\ req[w].op = "place" /\ u \in Users
      /\ tx[w].order \in OrderIds /\ Buys(req[w].ticket)
    BY Served, TicketType DEF ReserveFunds
<1>2. CASE Rollback(w)
    BY <1>2, RollbackStep
<1>3. CASE /\ purse[u].available >= reservation
           /\ LockWallet(w, u)
           /\ purse' = [purse EXCEPT ![u] = Reserve(@, reservation)]
           /\ Goto(w, "scan")
           /\ UNCHANGED <<orderVars, wallets, marketVars, req, tx>>
  <2>1. reservation \in Nat
    <3>1. draft[tx[w].order] \in Row /\ Unfilled(draft[tx[w].order]) >= 0
        BY <1>1, Typed DEF EngineInv, WorkersOK, PlacementOK
    <3> QED
        BY <3>1, ReservedType
  <2>2. Reserve(purse[u], reservation) \in Wallet
    BY <1>1, <1>3, <2>1, Typed, ReserveType
  <2>3. TypesStep
    BY <1>1, <1>3, <2>2, Typed, WalletUpdate
  <2>4. LocalStep(w) /\ pc'[w] = "scan" /\ tx'[w] = tx[w] /\ req'[w] = req[w]
    BY <1>3, PlainUpdate, StatementType
  <2>5. Serving(w)'
    BY <1>1, <2>4 DEF Serving, PlacePCs, Placing, CancelPCs, SettlePCs, AnnulPCs
  <2> QED
    BY <1>3, <2>3, <2>4, <2>5, QuietStep
<1> QED
    BY <1>2, <1>3 DEF ReserveFunds

\* validate_sell_position! fails or goes on.
LEMMA CheckPositionInv ==
    ASSUME EngineInv, NEW w \in Workers, CheckPosition(w)
    PROVE  EngineInv'
<1>1. CASE Rollback(w)
    BY <1>1, RollbackStep
<1>2. CASE /\ Goto(w, "cross")
           /\ UNCHANGED <<orderVars, walletVars, marketVars, req, tx>>
  <2>1. pc[w] = "position" /\ req[w].op = "place" /\ tx[w].order \in OrderIds
    BY Served DEF CheckPosition
  <2>2. TypesStep
    BY <1>2, Typed DEF TypesStep, walletVars, marketVars
  <2>3. LocalStep(w) /\ pc'[w] = "cross" /\ tx'[w] = tx[w] /\ req'[w] = req[w]
    BY <1>2, PlainUpdate, StatementType
  <2>4. Serving(w)'
    BY <2>1, <2>3 DEF Serving, PlacePCs, Placing, CancelPCs, SettlePCs, AnnulPCs
  <2> QED
    BY <1>2, <2>2, <2>3, <2>4, QuietStep
<1> QED
    BY <1>1, <1>2 DEF CheckPosition

\* The proceeds of a sell fill are credited.
LEMMA CreditSellerInv ==
    ASSUME EngineInv, NEW w \in Workers, CreditSeller(w)
    PROVE  EngineInv'
<1> DEFINE u == req[w].ticket.user
           m == req[w].ticket.market
           due == tx[w].due
           new == [purse[u] EXCEPT !.available = @ + due, !.spent[m] = @ - due]
           x == [tx[w] EXCEPT !.due = 0]
<1>1. /\ pc[w] = "seller" /\ req[w].op = "place" /\ u \in Users /\ m \in Markets
      /\ tx[w].order \in OrderIds
    BY Served, TicketType, Zenon DEF CreditSeller
<1>2. due \in Nat /\ tx[w] \in TxType /\ purse[u] \in Wallet
    BY <1>1, Typed DEF TxType
<1>3. new \in Wallet
    BY <1>1, <1>2, CreditType, Zenon
<1>4. x \in TxType /\ x.order = tx[w].order /\ x.batch = tx[w].batch
    BY <1>2, TxUpdateType
<1>5. purse' = [purse EXCEPT ![u] = new] /\ tx' = [tx EXCEPT ![w] = x]
    BY DEF CreditSeller
<1> HIDE DEF new, x
<1>6. TypesStep
    BY <1>1, <1>3, <1>5, WalletUpdate, Zenon DEF CreditSeller
<1>7. LocalStep(w) /\ pc'[w] = "stamp" /\ tx'[w] = x /\ req'[w] = req[w]
    BY <1>4, <1>5, LocalUpdate, StatementType DEF CreditSeller
<1>8. Serving(w)'
    BY <1>1, <1>4, <1>7 DEF Serving, PlacePCs, Placing, CancelPCs, SettlePCs, AnnulPCs
<1> QED
    BY <1>4, <1>6, <1>7, <1>8, QuietStep DEF CreditSeller

\* The fee is charged, or the placement fails for want of it.
LEMMA StampMarketInv ==
    ASSUME EngineInv, NEW w \in Workers, StampMarket(w)
    PROVE  EngineInv'
<1> DEFINE u == req[w].ticket.user
           m == req[w].ticket.market
           fee == tx[w].due
           new == [purse[u] EXCEPT !.available = @ - fee, !.fees[m] = @ + fee]
           x == [tx[w] EXCEPT !.due = 0]
<1>1. /\ pc[w] = "stamp" /\ req[w].op = "place" /\ u \in Users /\ m \in Markets
      /\ tx[w].order \in OrderIds
    BY Served, TicketType, Zenon DEF StampMarket
<1>2. fee \in Nat /\ tx[w] \in TxType /\ purse[u] \in Wallet
    BY <1>1, Typed DEF TxType
<1>3. CASE Rollback(w)
    BY <1>3, RollbackStep
<1>4. CASE /\ purse[u].available >= fee
           /\ LockMarket(w, m)
           /\ purse' = [purse EXCEPT ![u] = new]
           /\ tx' = [tx EXCEPT ![w] = x]
           /\ Goto(w, "fill")
           /\ UNCHANGED <<orderVars, wallets, holder, market, expired, req>>
  <2>1. new \in Wallet
    BY <1>1, <1>2, <1>4, FeePaidType, Zenon
  <2>2. x \in TxType /\ x.order = tx[w].order /\ x.batch = tx[w].batch
    BY <1>2, TxUpdateType
  <2> HIDE DEF new, x
  <2>3. TypesStep
    BY <1>1, <1>4, <2>1, Typed DEF TypesStep, LockMarket
  <2>4. LocalStep(w) /\ pc'[w] = "fill" /\ tx'[w] = x /\ req'[w] = req[w]
    BY <1>4, <2>2, LocalUpdate, StatementType
  <2>5. Serving(w)'
    BY <1>1, <2>2, <2>4 DEF Serving, PlacePCs, Placing, CancelPCs, SettlePCs, AnnulPCs
  <2> QED
    BY <1>4, <2>2, <2>3, <2>4, <2>5, QuietStep
<1> QED
    BY <1>3, <1>4 DEF StampMarket

\* The wallet update of a cancellation fails or goes on.
LEMMA ReleaseFundsInv ==
    ASSUME EngineInv, NEW w \in Workers, NEW i \in OrderIds,
           NEW next \in {"commit", "sweep"}, ReleaseFunds(w, i, next),
           req[w].op # "place", next = "sweep" => req[w].op = "settle"
    PROVE  EngineInv'
<1> DEFINE u == draft[i].ticket.user
           p == Release(purse[u], tx[w].due)
           x == [[tx[w] EXCEPT !.due = 0] EXCEPT !.order = 0]
<1>1. u \in Users
    BY Typed, TicketType DEF Row
<1>2. tx[w] \in TxType /\ tx[w].due \in Nat /\ purse[u] \in Wallet
    BY <1>1, Typed DEF TxType
<1>3. CASE Rollback(w)
    BY <1>3, RollbackStep
<1>4. CASE /\ Solvent(p)
           /\ LockWallet(w, u)
           /\ purse' = [purse EXCEPT ![u] = p]
           /\ tx' = [tx EXCEPT ![w] = x]
           /\ Goto(w, next)
           /\ UNCHANGED <<orderVars, wallets, marketVars, req>>
  <2>1. p \in Drawn
    BY <1>2, WalletIsDrawn, ReleaseDrawn
  <2>2. p \in Wallet
    BY <1>4, <2>1, SolventType
  <2>3. x \in TxType /\ x.batch = tx[w].batch
    <3> DEFINE y == [tx[w] EXCEPT !.due = 0]
    <3>1. y \in TxType /\ y.batch = tx[w].batch
        BY <1>2, TxUpdateType
    <3> HIDE DEF y
    <3>2. [y EXCEPT !.order = 0] \in TxType /\ [y EXCEPT !.order = 0].batch = y.batch
        BY <3>1, TxUpdateType
    <3> QED
        BY <3>1, <3>2 DEF y
  <2> HIDE DEF x, p
  <2>4. TypesStep
    BY <1>1, <1>4, <2>2, WalletUpdate
  <2>5. LocalStep(w) /\ pc'[w] = next /\ tx'[w] = x /\ req'[w] = req[w]
    <3>1. next \in Statement
        BY StatementType
    <3>2. Goto(w, next) /\ tx' = [tx EXCEPT ![w] = x] /\ req' = req
        BY <1>4
    <3> QED
        BY <2>3, <3>1, <3>2, LocalUpdate
  <2>6. Serving(w)'
    BY <2>5 DEF Serving, PlacePCs, Placing, CancelPCs, SettlePCs, AnnulPCs
  <2> QED
    BY <1>4, <2>3, <2>4, <2>5, <2>6, QuietStep
<1> QED
    BY <1>3, <1>4 DEF ReleaseFunds

\* It does in both services that release funds so.
LEMMA ReleasesInv ==
    ASSUME EngineInv, NEW w \in Workers, Unreserve(w) \/ ReleaseSwept(w)
    PROVE  EngineInv'
<1>1. CASE Unreserve(w)
  <2>1. req[w].op = "cancel" /\ req[w].order \in OrderIds
    BY <1>1, Served DEF Unreserve
  <2> QED
    BY <1>1, <2>1, ReleaseFundsInv DEF Unreserve
<1>2. CASE ReleaseSwept(w)
  <2>1. req[w].op = "settle" /\ tx[w].order \in OrderIds
    BY <1>2, Served DEF ReleaseSwept
  <2> QED
    BY <1>2, <2>1, ReleaseFundsInv DEF ReleaseSwept
<1> QED
    BY <1>1, <1>2

\* The rows that a settlement or a cancellation loads are active.
LEMMA ActiveRowsType ==
    ASSUME EngineInv, NEW w \in Workers, NEW m \in Markets
    PROVE  /\ ActiveRows(w, m) \in [OrderIds -> Row]
           /\ \A i \in OrderIds :
                 /\ RowOK(ActiveRows(w, m)[i])
                 /\ Exists(ActiveRows(w, m)[i]) => Active(ActiveRows(w, m)[i])
<1>1. ASSUME NEW i \in OrderIds
      PROVE  LET row == ActiveRows(w, m)[i]
             IN  row \in Row /\ RowOK(row) /\ (Exists(row) => Active(row))
  <2>1. OrdersSeenBy(w)[i] \in Row /\ RowOK(OrdersSeenBy(w)[i])
    BY Typed DEF OrdersSeenBy, EngineInv, DraftsExtend
  <2>2. \/ ActiveRows(w, m)[i] = NoRow
        \/ ActiveRows(w, m)[i] = OrdersSeenBy(w)[i] /\ Active(OrdersSeenBy(w)[i])
    BY DEF ActiveRows
  <2> QED
    BY <2>1, <2>2, NoRowType
<1>2. ActiveRows(w, m) \in [OrderIds -> Row]
    BY <1>1 DEF ActiveRows
<1> QED
    BY <1>1, <1>2

\* A settlement or a cancellation loads its batch.
LEMMA LoadStep ==
    ASSUME EngineInv, NEW w \in Workers, NEW m \in Markets,
           UNCHANGED orderVars, TypesStep, UNCHANGED req,
           tx' = [tx EXCEPT ![w].batch = ActiveRows(w, m)],
           NEW s \in {"sweep", "wallet"}, Goto(w, s),
           s = "sweep" => req[w].op = "settle",
           s = "wallet" => req[w].op = "annul"
    PROVE  EngineInv'
<1> DEFINE x == [tx[w] EXCEPT !.batch = ActiveRows(w, m)]
<1>1. x \in TxType /\ x.batch = ActiveRows(w, m)
    BY Typed, TxUpdateType, ActiveRowsType
<1>2. tx' = [tx EXCEPT ![w] = x]
    OBVIOUS
<1> HIDE DEF x
<1>3. LocalStep(w) /\ pc'[w] = s /\ tx'[w] = x /\ req'[w] = req[w]
  <2>1. s \in Statement
    BY StatementType
  <2> QED
    BY <1>1, <1>2, <2>1, LocalUpdate
<1>4. Serving(w)'
    BY <1>3 DEF Serving, PlacePCs, Placing, CancelPCs, SettlePCs, AnnulPCs
<1>5. BatchOK(w)'
    BY <1>1, <1>3, ActiveRowsType DEF BatchOK
<1>6. PlacementOK(w)'
    BY <1>3 DEF PlacementOK
<1>7. RowsStep(w)
    BY Typed DEF RowsStep, RowStep, orderVars
<1> QED
    BY <1>3, <1>4, <1>5, <1>6, <1>7, ShapedStep DEF WorkerOK

\* find_each of the settlement.
LEMMA SnapshotInv ==
    ASSUME EngineInv, NEW w \in Workers, Snapshot(w)
    PROVE  EngineInv'
<1>1. req[w].op = "settle" /\ req[w].market \in Markets
    BY Served DEF Snapshot
<1>2. TypesStep
    BY Typed DEF TypesStep, Snapshot, walletVars, marketVars
<1> QED
    BY <1>1, <1>2, LoadStep DEF Snapshot

\* A cancellation locks the market, or finds that it is closed for good.
LEMMA LockForAnnulInv ==
    ASSUME EngineInv, NEW w \in Workers, LockForAnnul(w)
    PROVE  EngineInv'
<1> DEFINE m == req[w].market
<1>1. req[w].op = "annul" /\ m \in Markets
    BY Served DEF LockForAnnul
<1>2. CASE Rollback(w)
    BY <1>2, RollbackStep
<1>3. CASE /\ LockMarket(w, m)
           /\ tx' = [tx EXCEPT ![w].batch = ActiveRows(w, m)]
           /\ Goto(w, "wallet")
           /\ UNCHANGED <<orderVars, walletVars, market, expired, req>>
  <2>1. TypesStep
    BY <1>1, <1>3, Typed DEF TypesStep, LockMarket, walletVars
  <2> QED
    BY <1>1, <1>3, <2>1, LoadStep
<1> QED
    BY <1>2, <1>3 DEF LockForAnnul

\* A request that is no placement goes on without looking at the rows.
LEMMA PlainStep ==
    ASSUME EngineInv, NEW w \in Workers, UNCHANGED <<orderVars, req>>, TypesStep,
           NEW s \in {"pay", "credit", "refund", "void", "commit"}, Goto(w, s),
           s \in {"pay", "credit"} => req[w].op = "settle",
           s \in {"refund", "void"} => req[w].op = "annul",
           NEW x \in TxType, tx' = [tx EXCEPT ![w] = x], x.batch = tx[w].batch,
           x.order = tx[w].order
    PROVE  EngineInv'
<1>1. s \in Statement
    BY StatementType
<1>2. LocalStep(w) /\ pc'[w] = s /\ tx'[w] = x /\ req'[w] = req[w]
    BY <1>1, LocalUpdate
<1>3. Serving(w)'
    BY <1>2 DEF Serving, PlacePCs, Placing, CancelPCs, SettlePCs, AnnulPCs
<1> QED
    BY <1>2, <1>3, QuietStep

\* The same for a step that changes pc alone.
LEMMA SkipStep ==
    ASSUME EngineInv, NEW w \in Workers, UNCHANGED <<orderVars, req, tx>>, TypesStep,
           NEW s \in {"pay", "credit", "refund", "void", "commit"}, Goto(w, s),
           s \in {"pay", "credit"} => req[w].op = "settle",
           s \in {"refund", "void"} => req[w].op = "annul"
    PROVE  EngineInv'
<1>1. tx[w] \in TxType /\ tx' = [tx EXCEPT ![w] = tx[w]]
    BY Typed
<1> QED
    BY <1>1, PlainStep

\* Pass 2 of a settlement: the payees, each position, and each payment.
LEMMA PayoutInv ==
    ASSUME EngineInv, NEW w \in Workers,
           \/ StartPayout(w)
           \/ \E u \in Users : Assess(w, u) \/ PayWinner(w, u)
           \/ FinishSettle(w)
    PROVE  EngineInv'
<1>1. tx[w] \in TxType
    BY Typed
<1>2. CASE StartPayout(w)
  <2> DEFINE x == [tx[w] EXCEPT !.payees = Winners(w)]
  <2>1. req[w].op = "settle" /\ TypesStep
    BY <1>2, Typed, Served DEF StartPayout, TypesStep, walletVars, marketVars
  <2>2. x \in TxType /\ x.batch = tx[w].batch /\ x.order = tx[w].order
    BY <1>1, TxUpdateType DEF Winners
  <2>3. tx' = [tx EXCEPT ![w] = x]
    BY <1>2 DEF StartPayout
  <2> HIDE DEF x
  <2> QED
    BY <1>2, <2>1, <2>2, <2>3, PlainStep DEF StartPayout
<1>3. ASSUME NEW u \in Users, Assess(w, u)
      PROVE  EngineInv'
  <2> DEFINE net == NetPosition(OrdersSeenBy(w), u, req[w].market, req[w].outcome)
  <2>1. req[w].op = "settle" /\ TypesStep /\ pc[w] = "pay" /\ UNCHANGED <<orderVars, req>>
    BY <1>3, Typed, Served DEF Assess, TypesStep, walletVars, marketVars
  <2>2. CASE net \in Nat \ {0} /\ tx' = [tx EXCEPT ![w].due = PayoutCents * net]
                /\ Goto(w, "credit")
    <3> DEFINE x == [tx[w] EXCEPT !.due = PayoutCents * net]
    <3>1. PayoutCents * net \in Nat
      <4>1. \A n \in Nat : PayoutCents * n \in Nat
        BY DEF PayoutCents
      <4> QED
        BY <2>2, <4>1
    <3>2. x \in TxType /\ x.batch = tx[w].batch /\ x.order = tx[w].order
      BY <1>1, <3>1, TxUpdateType
    <3>3. tx' = [tx EXCEPT ![w] = x]
      BY <2>2
    <3> HIDE DEF x
    <3> QED
      BY <2>1, <2>2, <3>2, <3>3, PlainStep
  <2>3. CASE tx' = [tx EXCEPT ![w].payees = @ \ {u}] /\ UNCHANGED pc
    <3> DEFINE x == [tx[w] EXCEPT !.payees = @ \ {u}]
    <3>1. tx[w].payees \ {u} \in SUBSET Users
      BY <1>1 DEF TxType
    <3>2. x \in TxType /\ x.batch = tx[w].batch /\ x.order = tx[w].order
      BY <1>1, <3>1, TxUpdateType
    <3>3. tx' = [tx EXCEPT ![w] = x]
      BY <2>3
    <3>4. Goto(w, "pay")
      BY <2>1, <2>3, Typed DEF Goto
    <3> HIDE DEF x
    <3> QED
      BY <2>1, <3>2, <3>3, <3>4, PlainStep
  <2> QED
    BY <1>3, <2>2, <2>3 DEF Assess
<1>4. ASSUME NEW u \in Users, PayWinner(w, u)
      PROVE  EngineInv'
  <2> DEFINE m == req[w].market
             due == tx[w].due
             p == [purse[u] EXCEPT !.available = @ + due, !.won[m] = @ + due]
             y == [tx[w] EXCEPT !.due = 0]
             x == [y EXCEPT !.payees = @ \ {u}]
  <2>1. req[w].op = "settle" /\ m \in Markets
    BY <1>4, Served DEF PayWinner
  <2>2. due \in Nat /\ tx[w].payees \ {u} \in SUBSET Users
    BY <1>1 DEF TxType
  <2>3. p \in Wallet
    <3>1. purse[u] \in Wallet
      BY Typed
    <3>2. due \in Int /\ purse[u].available + due >= 0
      BY <2>2, <3>1 DEF Wallet
    <3> QED
      BY <2>1, <2>2, <3>1, <3>2, WonType, Zenon
  <2>4. y \in TxType /\ y.batch = tx[w].batch /\ y.order = tx[w].order
    BY <1>1, TxUpdateType
  <2>5. purse' = [purse EXCEPT ![u] = p] /\ tx' = [tx EXCEPT ![w] = x]
    BY <1>4, Zenon DEF PayWinner
  <2>6. x \in TxType /\ x.batch = tx[w].batch /\ x.order = tx[w].order
    <3> HIDE DEF y
    <3>1. y.payees \ {u} \in SUBSET Users
      BY <2>4 DEF TxType
    <3> QED
      BY <2>4, <3>1, TxUpdateType
  <2> HIDE DEF p, x
  <2>7. TypesStep
    BY <1>4, <2>3, <2>5, WalletUpdate DEF PayWinner
  <2> QED
    BY <1>4, <2>1, <2>5, <2>6, <2>7, PlainStep, Zenon DEF PayWinner
<1>5. CASE FinishSettle(w)
  <2>1. req[w].op = "settle" /\ req[w].market \in Markets
    BY <1>5, Served DEF FinishSettle
  <2>2. TypesStep
    BY <1>5, <2>1, Typed DEF FinishSettle, TypesStep, LockMarket, walletVars
  <2> QED
    BY <1>5, <2>2, SkipStep DEF FinishSettle
<1> QED
    BY <1>2, <1>3, <1>4, <1>5

\* The refunds of a cancellation.
LEMMA RefundsInv ==
    ASSUME EngineInv, NEW w \in Workers,
           \/ StartRefund(w)
           \/ \E u \in Users : Refund(w, u)
           \/ FinishAnnul(w)
           \/ \E i \in OrderIds : LockForVoid(w, i)
    PROVE  EngineInv'
<1>1. tx[w] \in TxType
    BY Typed
<1>2. CASE StartRefund(w)
  <2> DEFINE U == {u \in Users : Outlay(WalletSeenBy(w, u), req[w].market) # 0}
             x == [tx[w] EXCEPT !.payees = U]
  <2>1. req[w].op = "annul" /\ TypesStep
    BY <1>2, Typed, Served DEF StartRefund, TypesStep, walletVars, marketVars
  <2>2. tx' = [tx EXCEPT ![w] = x]
    BY <1>2 DEF StartRefund
  <2>3. U \in SUBSET Users
    OBVIOUS
  <2> HIDE DEF U
  <2>4. x \in TxType /\ x.batch = tx[w].batch /\ x.order = tx[w].order
    BY <1>1, <2>3, TxUpdateType
  <2> HIDE DEF x
  <2> QED
    BY <1>2, <2>1, <2>2, <2>4, PlainStep DEF StartRefund
<1>3. ASSUME NEW u \in Users, Refund(w, u)
      PROVE  EngineInv'
  <2> DEFINE m == req[w].market
             outlay == Outlay(purse[u], m)
             amount == IF outlay > 0 THEN outlay ELSE -Smaller(-outlay, purse[u].available)
             p == [purse[u] EXCEPT !.available = @ + amount, !.won[m] = @ + amount]
             x == [tx[w] EXCEPT !.payees = @ \ {u}]
  <2>1. req[w].op = "annul" /\ m \in Markets /\ pc[w] = "refund"
    BY <1>3, Served DEF Refund
  <2>2. CASE Rollback(w)
    BY <2>2, RollbackStep
  <2>3. CASE /\ LockWallet(w, u)
             /\ purse' = [purse EXCEPT ![u] = p]
             /\ tx' = [tx EXCEPT ![w] = x]
             /\ UNCHANGED <<orderVars, wallets, marketVars, pc, req>>
    <3>1. purse[u] \in Wallet /\ outlay \in Int
      BY <2>1, Typed, OutlayType
    <3>2. amount \in Int /\ purse[u].available + amount >= 0
      <4>1. purse[u].available \in Nat
        BY <3>1 DEF Wallet
      <4> QED
        BY <3>1, <4>1 DEF Smaller
    <3> HIDE DEF amount
    <3>3. p \in Wallet
      BY <2>1, <3>1, <3>2, WonType, Zenon
    <3>4. tx[w].payees \ {u} \in SUBSET Users
      BY <1>1 DEF TxType
    <3>5. x \in TxType /\ x.batch = tx[w].batch /\ x.order = tx[w].order
      BY <1>1, <3>4, TxUpdateType
    <3>6. Goto(w, "refund")
      BY <2>1, <2>3, Typed DEF Goto
    <3> HIDE DEF p, x
    <3>7. TypesStep
      BY <2>3, <3>3, WalletUpdate
    <3> QED
      BY <2>1, <2>3, <3>5, <3>6, <3>7, PlainStep
  <2> QED
    BY <1>3, <2>2, <2>3 DEF Refund
<1>4. CASE FinishAnnul(w)
  <2>1. TypesStep
    BY <1>4, Typed DEF FinishAnnul, TypesStep, walletVars, marketVars
  <2> QED
    BY <1>4, <2>1, SkipStep DEF FinishAnnul
<1>5. ASSUME NEW i \in OrderIds, LockForVoid(w, i)
      PROVE  EngineInv'
  <2> DEFINE u == tx[w].batch[i].ticket.user
  <2>1. req[w].op = "annul" /\ u \in Users
    BY <1>1, <1>5, Served, TicketType DEF LockForVoid, TxType, Row
  <2>2. TypesStep
    BY <1>5, <2>1, Typed, Zenon DEF LockForVoid, TypesStep, LockWallet, marketVars
  <2> QED
    BY <1>5, <2>1, <2>2, SkipStep DEF LockForVoid
<1> QED
    BY <1>2, <1>3, <1>4, <1>5

\* The close job and the clock do not touch the rows.
LEMMA ClosingInv ==
    ASSUME EngineInv, NEW m \in Markets, Expire(m) \/ CloseExpired(m)
    PROVE  EngineInv'
<1>1. /\ UNCHANGED <<orders, draft, owner, wallets, purse, holder, keeper, pc, req, tx>>
      /\ market' \in [Markets -> MarketStatus] /\ expired' \in SUBSET Markets
    BY Typed DEF Expire, CloseExpired, orderVars, walletVars, MarketStatus
<1>2. TypeOK'
    BY <1>1, Typed DEF TypeOK, TxType
<1>3. DraftsExtend'
    BY <1>1 DEF EngineInv, DraftsExtend
<1>4. WorkersOK'
  <2> SUFFICES ASSUME NEW w \in Workers
               PROVE  (Serving(w) /\ BatchOK(w) /\ PlacementOK(w))'
    BY DEF WorkersOK
  <2>1. Serving(w) /\ BatchOK(w) /\ PlacementOK(w)
    BY DEF EngineInv, WorkersOK
  <2>2. Serving(w)'
    BY <1>1, <2>1 DEF Serving
  <2>3. BatchOK(w)'
    BY <1>1, <2>1 DEF BatchOK
  <2>4. PlacementOK(w)'
    BY <1>1, <2>1 DEF PlacementOK
  <2> QED
    BY <2>2, <2>3, <2>4
<1> QED
    BY <1>2, <1>3, <1>4 DEF EngineInv

\* A stuttering step changes nothing that the invariant speaks of.
LEMMA StutterInv == EngineInv /\ UNCHANGED vars => EngineInv'
<1> SUFFICES ASSUME EngineInv, UNCHANGED vars PROVE EngineInv'
    OBVIOUS
<1>1. TypeOK'
    BY Typed DEF TypeOK, vars, TxType
<1>2. DraftsExtend'
    BY DEF EngineInv, DraftsExtend, vars
<1>3. WorkersOK'
  <2> SUFFICES ASSUME NEW w \in Workers
               PROVE  (Serving(w) /\ BatchOK(w) /\ PlacementOK(w))'
    BY DEF WorkersOK
  <2>1. Serving(w) /\ BatchOK(w) /\ PlacementOK(w)
    BY DEF EngineInv, WorkersOK
  <2>2. Serving(w)'
    BY <2>1 DEF Serving, vars
  <2>3. BatchOK(w)'
    BY <2>1 DEF BatchOK, vars
  <2>4. PlacementOK(w)'
    BY <2>1 DEF PlacementOK, vars
  <2> QED
    BY <2>2, <2>3, <2>4
<1> QED
    BY <1>1, <1>2, <1>3 DEF EngineInv

----------------------------------------------------------------------------
(***************************************************************************)
(* Steps of a placement that write or lock order rows.                     *)
(***************************************************************************)

\* The placement's own row, which no other transaction can see.
LEMMA OwnRow ==
    ASSUME EngineInv, NEW w \in Workers, req[w].op = "place", tx[w].order \in OrderIds
    PROVE  LET i == tx[w].order
           IN  /\ draft[i] \in Row /\ draft[i].ticket = req[w].ticket /\ owner[i] = w
               /\ ~Exists(orders[i]) /\ orders[i].filled = 0 /\ ~Active(orders[i])
               /\ Exists(draft[i]) /\ Unfilled(draft[i]) \in Nat
               /\ ~Exists(tx[w].batch[i])
<1> DEFINE i == tx[w].order
<1>1. /\ owner[i] = w /\ ~Exists(orders[i]) /\ ~Exists(tx[w].batch[i])
      /\ draft[i].ticket = req[w].ticket /\ Unfilled(draft[i]) >= 0
    BY DEF EngineInv, WorkersOK, PlacementOK
<1>2. draft[i] \in Row /\ Unfilled(draft[i]) \in Int
    BY Typed, UnfilledType
<1>3. orders[i] = NoRow /\ Exists(draft[i])
    BY <1>1, NobodyAssumption DEF EngineInv, DraftsExtend, RowOK
<1>4. NoRow.filled = 0
    BY DEF NoRow
<1> QED
    BY <1>1, <1>2, <1>3, <1>4, NoRowType

\* The resting rows that a placement has loaded are locked, active and current.
LEMMA LoadedRow ==
    ASSUME EngineInv, NEW w \in Workers, req[w].op = "place",
           NEW j \in OrderIds, Exists(tx[w].batch[j])
    PROVE  /\ owner[j] = w /\ draft[j] = tx[w].batch[j] /\ draft[j] \in Row
           /\ Active(draft[j]) /\ Unfilled(draft[j]) \in Nat \ {0}
           /\ ~(Exists(orders[j]) /\ ~Active(orders[j]))
<1>1. owner[j] = w /\ draft[j] = tx[w].batch[j]
    BY DEF EngineInv, WorkersOK, PlacementOK
<1>2. Active(tx[w].batch[j])
    BY DEF EngineInv, WorkersOK, BatchOK
<1>3. draft[j] \in Row /\ Unfilled(draft[j]) \in Int
    BY Typed, UnfilledType
<1>4. RowOK(draft[j]) /\ Extends(draft[j], orders[j])
    BY DEF EngineInv, DraftsExtend
<1> QED
    BY <1>1, <1>2, <1>3, <1>4 DEF RowOK, Extends

\* A row that a query of resting_for locked may be left as it is.
LEMMA LockedRowStep ==
    ASSUME EngineInv, NEW w \in Workers, NEW i \in OrderIds,
           OrderFree(w, i), Active(draft[i]), draft'[i] = draft[i], owner'[i] = w
    PROVE  RowStep(w, i)
<1>1. RowOK(draft[i]) /\ Extends(draft[i], orders[i])
    BY DEF EngineInv, DraftsExtend
<1> QED
    BY <1>1 DEF RowStep, Exists, Active, ActiveStatuses

\* The INSERT.
LEMMA InsertInv ==
    ASSUME EngineInv, NEW w \in Workers, Insert(w)
    PROVE  EngineInv'
<1> DEFINE t == req[w].ticket
<1>1. pc[w] = "insert" /\ req[w].op = "place" /\ t \in Tickets /\ tx[w] = NoTx
    BY Served DEF Insert
<1>2. PICK i \in OrderIds :
         /\ IsNextId(i)
         /\ draft' = [draft EXCEPT ![i] = NewRow(t)]
         /\ LockOrder(w, i)
         /\ tx' = [tx EXCEPT ![w].order = i]
    BY DEF Insert
<1>3. /\ ~Exists(orders[i]) /\ owner[i] = Nobody /\ orders[i].filled = 0
  <2>1. ~Exists(draft[i])
    BY <1>2 DEF IsNextId
  <2>2. ~Exists(orders[i]) /\ owner[i] = Nobody /\ orders[i] = NoRow
    BY <2>1 DEF EngineInv, DraftsExtend, Extends, RowOK
  <2> QED
    BY <2>2 DEF NoRow
<1>4. /\ NewRow(t) \in Row /\ RowOK(NewRow(t)) /\ Exists(NewRow(t))
      /\ NewRow(t).ticket = t /\ Unfilled(NewRow(t)) >= 0 /\ NewRow(t).filled = 0
    BY <1>1, NewRowType
<1>5. Extends(NewRow(t), orders[i])
    BY <1>3, <1>4 DEF Extends
<1>6. /\ orders' = orders /\ draft'[i] = NewRow(t) /\ owner'[i] = w
      /\ \A j \in OrderIds \ {i} : draft'[j] = draft[j] /\ owner'[j] = owner[j]
    BY <1>2, Typed DEF Insert, LockOrder
<1>7. RowsStep(w)
  <2>1. RowStep(w, i)
    BY <1>3, <1>4, <1>5, <1>6 DEF RowStep, OrderFree
  <2>2. \A j \in OrderIds \ {i} : RowStep(w, j)
    BY <1>6 DEF RowStep
  <2> QED
    BY <1>2, <1>4, <1>6, <2>1, <2>2, Typed DEF RowsStep, LockOrder
<1>8. TypesStep
    BY Typed DEF TypesStep, Insert, walletVars, marketVars
<1> DEFINE x == [tx[w] EXCEPT !.order = i]
           s == IF Buys(t) THEN "reserve" ELSE "position"
<1>9. x \in TxType /\ x.order = i /\ x.batch = tx[w].batch
    BY Typed, TxUpdateType
<1>10. tx' = [tx EXCEPT ![w] = x] /\ Goto(w, s) /\ s \in Statement
    BY <1>2, StatementType DEF Insert
<1> HIDE DEF x
<1>11. LocalStep(w) /\ pc'[w] = s /\ tx'[w] = x /\ req'[w] = req[w]
    BY <1>9, <1>10, LocalUpdate DEF Insert
<1>12. Serving(w)'
    BY <1>1, <1>9, <1>11 DEF Serving, PlacePCs, Placing, CancelPCs, SettlePCs, AnnulPCs
<1>13. \A j \in OrderIds : tx'[w].batch[j] = NoRow
    BY <1>1, <1>9, <1>11 DEF NoTx, NoBatch
<1>14. BatchOK(w)'
    BY <1>13, NoRowType DEF BatchOK
<1>15. PlacementOK(w)'
    BY <1>3, <1>4, <1>6, <1>9, <1>11, <1>13, NoRowType DEF PlacementOK
<1> QED
    BY <1>7, <1>8, <1>11, <1>12, <1>14, <1>15, ShapedStep DEF WorkerOK

\* What FOR UPDATE SKIP LOCKED returns.
LEMMA LockableRows ==
    ASSUME EngineInv, NEW w \in Workers, NEW side, NEW direction
    PROVE  /\ Lockable(w, side, direction) \in SUBSET OrderIds
           /\ \A i \in Lockable(w, side, direction) :
                 /\ OrderFree(w, i) /\ Active(draft[i])
                 /\ draft[i].ticket.side = side /\ draft[i].ticket.direction = direction
    BY DEF Lockable, Listed

\* A batch after a query.
LEMMA LoadedType ==
    ASSUME EngineInv, NEW batch \in [OrderIds -> Row], NEW S \in SUBSET OrderIds
    PROVE  /\ Loaded(batch, S) \in [OrderIds -> Row]
           /\ \A i \in OrderIds :
                 Loaded(batch, S)[i] = IF i \in S THEN draft[i] ELSE batch[i]
    BY Typed DEF Loaded

\* A query of a placement locks the rows it returns and loads them.
LEMMA QueryStep ==
    ASSUME EngineInv, NEW w \in Workers, req[w].op = "place", tx[w].order \in OrderIds,
           NEW S \in SUBSET OrderIds, tx[w].order \notin S,
           \A i \in S : OrderFree(w, i) /\ Active(draft[i]),
           LockAll(w, S), UNCHANGED <<orders, draft, walletVars, marketVars, req>>,
           NEW x \in TxType, tx' = [tx EXCEPT ![w] = x], x.order = tx[w].order,
           x.batch \in {NoBatch, Loaded(NoBatch, S), Loaded(tx[w].batch, S)},
           NEW s \in {"scan", "cross", "fill"}, Goto(w, s),
           s = "scan" => Buys(req[w].ticket)
    PROVE  EngineInv'
<1>1. /\ orders' = orders /\ draft' = draft
      /\ \A i \in OrderIds : owner'[i] = IF i \in S THEN w ELSE owner[i]
    BY DEF LockAll
<1>2. RowsStep(w)
  <2>1. ASSUME NEW i \in OrderIds
        PROVE  RowStep(w, i)
    <3>1. CASE i \in S
      BY <1>1, <3>1, LockedRowStep
    <3>2. CASE i \notin S
      BY <1>1, <3>2 DEF RowStep
    <3> QED
      BY <3>1, <3>2
  <2> QED
    BY <1>1, <2>1, Typed DEF RowsStep, LockAll
<1>3. TypesStep
    BY Typed DEF TypesStep, walletVars, marketVars
<1>4. s \in Statement
    BY StatementType
<1>5. LocalStep(w) /\ pc'[w] = s /\ tx'[w] = x /\ req'[w] = req[w]
    BY <1>4, LocalUpdate
<1>6. Serving(w)'
    BY <1>5 DEF Serving, PlacePCs, Placing, CancelPCs, SettlePCs, AnnulPCs
<1>7. ASSUME NEW i \in OrderIds
      PROVE  \/ x.batch[i] = NoRow
             \/ x.batch[i] = tx[w].batch[i]
             \/ i \in S /\ x.batch[i] = draft[i]
  <2>1. NoBatch \in [OrderIds -> Row] /\ tx[w].batch \in [OrderIds -> Row] /\ NoBatch[i] = NoRow
    BY Typed, NoRowType DEF NoBatch, TxType
  <2>2. /\ Loaded(NoBatch, S)[i] = IF i \in S THEN draft[i] ELSE NoBatch[i]
        /\ Loaded(tx[w].batch, S)[i] = IF i \in S THEN draft[i] ELSE tx[w].batch[i]
    BY <2>1, LoadedType
  <2> QED
    BY <2>1, <2>2
<1>8. ASSUME NEW i \in OrderIds
      PROVE  RowOK(x.batch[i]) /\ (Exists(x.batch[i]) => Active(x.batch[i]))
  <2>1. RowOK(tx[w].batch[i]) /\ (Exists(tx[w].batch[i]) => Active(tx[w].batch[i]))
    BY DEF EngineInv, WorkersOK, BatchOK
  <2>2. RowOK(draft[i])
    BY DEF EngineInv, DraftsExtend
  <2> QED
    BY <1>7, <2>1, <2>2, NoRowType
<1>9. BatchOK(w)'
    BY <1>5, <1>8 DEF BatchOK
<1>10. PlacementOK(w)'
  <2> DEFINE i == tx[w].order
  <2>1. /\ owner[i] = w /\ ~Exists(orders[i]) /\ ~Exists(tx[w].batch[i])
        /\ draft[i].ticket = req[w].ticket /\ Unfilled(draft[i]) >= 0
    BY DEF EngineInv, WorkersOK, PlacementOK
  <2>2. ~Exists(x.batch[i])
    BY <1>7, <2>1, NoRowType
  <2>3. ASSUME NEW j \in OrderIds, Exists(x.batch[j])
        PROVE  owner'[j] = w /\ draft'[j] = x.batch[j]
    <3>1. Exists(tx[w].batch[j]) => owner[j] = w /\ draft[j] = tx[w].batch[j]
      BY LoadedRow
    <3> QED
      BY <1>1, <1>7, <2>3, <3>1, NoRowType
  <2> QED
    BY <1>1, <1>5, <2>1, <2>2, <2>3 DEF PlacementOK
<1> QED
    BY <1>2, <1>3, <1>5, <1>6, <1>9, <1>10, ShapedStep DEF WorkerOK

\* The first query of a buy order.
LEMMA ScanInv ==
    ASSUME EngineInv, NEW w \in Workers, Scan(w)
    PROVE  EngineInv'
<1> DEFINE S == Lockable(w, req[w].ticket.side, "sell")
           x == [tx[w] EXCEPT !.batch = Loaded(NoBatch, S)]
<1>1. req[w].op = "place" /\ tx[w].order \in OrderIds /\ Buys(req[w].ticket)
    BY Served DEF Scan
<1>2. S \in SUBSET OrderIds /\ \A i \in S : OrderFree(w, i) /\ Active(draft[i])
    BY LockableRows
<1>3. tx[w].order \notin S
    BY <1>1, LockableRows, OwnRow DEF Buys
<1>4. NoBatch \in [OrderIds -> Row]
    BY NoRowType DEF NoBatch
<1>5. x \in TxType /\ x.order = tx[w].order /\ x.batch = Loaded(NoBatch, S)
    BY <1>2, <1>4, Typed, LoadedType, TxUpdateType
<1>6. tx' = [tx EXCEPT ![w] = x] /\ LockAll(w, S)
    BY DEF Scan
<1> HIDE DEF x, S
<1> QED
    BY <1>1, <1>2, <1>3, <1>5, <1>6, QueryStep DEF Scan

\* The rest of an IOC or FOK order is cancelled, or the placement fails.
LEMMA DropRemainderInv ==
    ASSUME EngineInv, NEW w \in Workers, req[w].op = "place", tx[w].order \in OrderIds,
           NEW S \in SUBSET OrderIds, \A i \in S : OrderFree(w, i) /\ Active(draft[i]),
           DropRemainder(w, S)
    PROVE  EngineInv'
<1> DEFINE i == tx[w].order
           u == req[w].ticket.user
           p == Release(purse[u], Reserved(draft[i]))
           row == CancelRemainder(draft[i])
<1>1. CASE Rollback(w)
    BY <1>1, RollbackStep
<1>2. CASE /\ Solvent(p)
           /\ draft' = [draft EXCEPT ![i] = row]
           /\ purse' = [purse EXCEPT ![u] = p]
           /\ LockAll(w, S)
           /\ Goto(w, "commit")
           /\ UNCHANGED <<orders, wallets, holder, marketVars, req, tx>>
  <2>1. /\ draft[i] \in Row /\ draft[i].ticket = req[w].ticket /\ owner[i] = w
        /\ ~Exists(orders[i]) /\ orders[i].filled = 0 /\ ~Active(orders[i])
        /\ Exists(draft[i]) /\ Unfilled(draft[i]) \in Nat
        /\ ~Exists(tx[w].batch[i])
    BY OwnRow
  <2>2. /\ row \in Row /\ RowOK(row) /\ Exists(row) /\ row.ticket = req[w].ticket
        /\ Unfilled(row) >= 0 /\ row.filled \in Nat
    BY <2>1, CancelRemainderType DEF Row
  <2>3. Extends(row, orders[i])
    BY <2>1, <2>2 DEF Extends
  <2>4. /\ orders' = orders /\ draft'[i] = row /\ owner'[i] = w
        /\ \A j \in OrderIds \ {i} : draft'[j] = draft[j]
        /\ \A j \in OrderIds : owner'[j] = IF j \in S THEN w ELSE owner[j]
    BY <1>2, <2>1, Typed DEF LockAll
  <2>5. RowsStep(w)
    <3>1. ASSUME NEW j \in OrderIds
          PROVE  RowStep(w, j)
      <4>1. CASE j = i
        BY <2>1, <2>2, <2>3, <2>4, <4>1 DEF RowStep, OrderFree
      <4>2. CASE j # i /\ j \in S
        BY <2>4, <4>2, LockedRowStep
      <4>3. CASE j # i /\ j \notin S
        BY <2>4, <4>3 DEF RowStep
      <4> QED
        BY <4>1, <4>2, <4>3
    <3> QED
      BY <1>2, <2>2, <2>4, <3>1, Typed DEF RowsStep, LockAll
  <2>6. TypesStep
    <3>1. u \in Users /\ Reserved(draft[i]) \in Int
      BY <2>1, ReservedType, RequestType, TicketType, Typed
    <3>2. p \in Wallet
      BY <1>2, <3>1, Typed, WalletIsDrawn, ReleaseDrawn, SolventType
    <3> HIDE DEF p
    <3> QED
      BY <1>2, <3>1, <3>2, WalletUpdate
  <2>7. LocalStep(w) /\ pc'[w] = "commit" /\ tx'[w] = tx[w] /\ req'[w] = req[w]
    BY <1>2, PlainUpdate, StatementType
  <2>8. Serving(w)'
    BY <2>7 DEF Serving, PlacePCs, Placing, CancelPCs, SettlePCs, AnnulPCs
  <2>9. BatchOK(w)'
    BY <2>7 DEF EngineInv, WorkersOK, BatchOK
  <2>10. PlacementOK(w)'
    <3>1. ASSUME NEW j \in OrderIds, Exists(tx[w].batch[j])
          PROVE  owner'[j] = w /\ draft'[j] = tx[w].batch[j]
      BY <2>1, <2>4, <3>1, LoadedRow
    <3> QED
      BY <2>1, <2>2, <2>4, <2>7, <3>1 DEF PlacementOK
  <2> QED
    BY <2>5, <2>6, <2>7, <2>8, <2>9, <2>10, ShapedStep DEF WorkerOK
<1> QED
    BY <1>1, <1>2 DEF DropRemainder

\* The last query of a placement, with the FOK probe.
LEMMA CrossInv ==
    ASSUME EngineInv, NEW w \in Workers, Cross(w)
    PROVE  EngineInv'
<1> DEFINE t == req[w].ticket
           S == CrossRows(w)
           batch == Loaded(tx[w].batch, S)
           probing == t.tif = "fok" /\ ~tx[w].probed
<1>1. req[w].op = "place" /\ tx[w].order \in OrderIds /\ t \in Tickets
    BY Served DEF Cross
<1>2. S \in SUBSET OrderIds /\ \A i \in S : OrderFree(w, i) /\ Active(draft[i])
    BY LockableRows DEF CrossRows
<1>3. tx[w].order \notin S
  <2>1. /\ \A i \in S : /\ draft[i].ticket.direction = "buy"
                        /\ draft[i].ticket.side = IF Buys(t) THEN Opposite(t.side) ELSE t.side
    BY LockableRows DEF CrossRows
  <2>2. draft[tx[w].order].ticket = t
    BY <1>1, OwnRow
  <2>3. Opposite(t.side) # t.side
    BY <1>1, TicketType DEF Opposite, Sides
  <2> QED
    BY <2>1, <2>2, <2>3 DEF Buys
<1>4. tx[w] \in TxType /\ tx[w].batch \in [OrderIds -> Row] /\ NoBatch \in [OrderIds -> Row]
    BY Typed, NoRowType DEF NoBatch, TxType
<1>5. batch \in [OrderIds -> Row]
    BY <1>2, <1>4, LoadedType
<1>6. CASE /\ LockAll(w, S)
           /\ tx' = [tx EXCEPT ![w].batch = batch]
           /\ Goto(w, "fill")
           /\ UNCHANGED <<orders, draft, walletVars, marketVars, req>>
  <2> DEFINE x == [tx[w] EXCEPT !.batch = batch]
  <2>1. x \in TxType /\ x.order = tx[w].order /\ x.batch = batch
    BY <1>4, <1>5, TxUpdateType
  <2>2. tx' = [tx EXCEPT ![w] = x]
    BY <1>6
  <2> HIDE DEF x, S
  <2> QED
    BY <1>1, <1>2, <1>3, <1>6, <2>1, <2>2, QueryStep
<1>7. CASE /\ LockAll(w, S)
           /\ tx' = [tx EXCEPT ![w].batch = NoBatch, ![w].probed = TRUE]
           /\ Goto(w, IF Buys(t) THEN "scan" ELSE "cross")
           /\ UNCHANGED <<orders, draft, walletVars, marketVars, req>>
  <2> DEFINE y == [tx[w] EXCEPT !.batch = NoBatch]
             x == [y EXCEPT !.probed = TRUE]
             s == IF Buys(t) THEN "scan" ELSE "cross"
  <2>1. y \in TxType /\ y.order = tx[w].order /\ y.batch = NoBatch
    BY <1>4, TxUpdateType
  <2>2. tx' = [tx EXCEPT ![w] = x]
    BY <1>7
  <2>3. x \in TxType /\ x.order = tx[w].order /\ x.batch = NoBatch
    <3> HIDE DEF y
    <3> QED
      BY <2>1, TxUpdateType
  <2>4. Goto(w, s) /\ s \in {"scan", "cross", "fill"} /\ (s = "scan" => Buys(t))
    BY <1>7
  <2> HIDE DEF x, S, s
  <2> QED
    BY <1>1, <1>2, <1>3, <1>7, <2>2, <2>3, <2>4, QueryStep
<1>8. CASE DropRemainder(w, S)
    BY <1>1, <1>2, <1>8, DropRemainderInv
<1> QED
    BY <1>6, <1>7, <1>8 DEF Cross

\* The end of the matching loop.
LEMMA FinishPlaceInv ==
    ASSUME EngineInv, NEW w \in Workers, FinishPlace(w)
    PROVE  EngineInv'
<1>1. req[w].op = "place" /\ tx[w].order \in OrderIds
    BY Served DEF FinishPlace
<1>2. CASE DropRemainder(w, {})
    BY <1>1, <1>2, DropRemainderInv
<1>3. CASE /\ Goto(w, "commit")
           /\ UNCHANGED <<orderVars, walletVars, marketVars, req, tx>>
  <2>1. TypesStep
    BY <1>3, Typed DEF TypesStep, walletVars, marketVars
  <2>2. LocalStep(w) /\ pc'[w] = "commit" /\ tx'[w] = tx[w] /\ req'[w] = req[w]
    BY <1>3, PlainUpdate, StatementType
  <2>3. Serving(w)'
    BY <2>2 DEF Serving, PlacePCs, Placing, CancelPCs, SettlePCs, AnnulPCs
  <2> QED
    BY <1>3, <2>1, <2>2, <2>3, QuietStep
<1> QED
    BY <1>2, <1>3 DEF FinishPlace

\* The wallets that a fill has drawn on.
LEMMA AfterFillType ==
    ASSUME EngineInv, NEW w \in Workers, req[w].op = "place", tx[w].order \in OrderIds,
           NEW r \in OrderIds, NEW q \in Nat,
           Solvent(AfterFill(w, r, q)[tx[w].batch[r].ticket.user]),
           Solvent(AfterFill(w, r, q)[req[w].ticket.user])
    PROVE  AfterFill(w, r, q) \in [Users -> Wallet]
<1> DEFINE t == req[w].ticket
           resting == tx[w].batch[r]
           u == resting.ticket.user
           m == t.market
           stake == Stake(resting, q)
           own == Stake(draft[tx[w].order], q)
           p == [purse EXCEPT ![u] = SpendReserved(@, m, stake)]
<1>1. t \in Tickets /\ t.user \in Users /\ m \in Markets
    BY Typed, RequestType, TicketType
<1>2. resting \in Row /\ u \in Users
    BY Typed, TicketType DEF TxType, Row
<1>3. stake \in Int /\ own \in Int
    BY <1>2, Typed, StakeType
<1>4. purse \in [Users -> Wallet] /\ purse \in [Users -> Drawn]
    BY Typed, WalletIsDrawn
<1>5. SpendReserved(purse[u], m, stake) \in Drawn
    BY <1>1, <1>2, <1>3, <1>4, SpendDrawn
<1> HIDE DEF stake, own
<1>6. p \in [Users -> Drawn] /\ \A v \in Users \ {u} : p[v] = purse[v]
    BY <1>2, <1>4, <1>5
<1>7. SpendReserved(p[t.user], m, own) \in Drawn
    BY <1>1, <1>3, <1>6, SpendDrawn, Zenon
<1>8. AfterFill(w, r, q) = IF Buys(t)
                           THEN [p EXCEPT ![t.user] = SpendReserved(@, m, own)]
                           ELSE p
    BY DEF AfterFill, stake, own
<1> HIDE DEF p
<1>9. /\ AfterFill(w, r, q) \in [Users -> Drawn]
      /\ \A v \in Users \ {u, t.user} : AfterFill(w, r, q)[v] = purse[v]
    BY <1>1, <1>6, <1>7, <1>8, Zenon
<1>10. ASSUME NEW v \in Users
       PROVE  AfterFill(w, r, q)[v] \in Wallet
    BY <1>4, <1>9, SolventType
<1> QED
    BY <1>9, <1>10

\* A fill keeps both rows well formed, or fails.
LEMMA FillOrderInv ==
    ASSUME EngineInv, NEW w \in Workers, NEW r \in OrderIds, FillOrder(w, r)
    PROVE  EngineInv'
<1> DEFINE t == req[w].ticket
           i == tx[w].order
           resting == tx[w].batch[r]
           u == resting.ticket.user
           q == Smaller(Unfilled(draft[i]), Unfilled(resting))
           p == AfterFill(w, r, q)
           due == IF Buys(t) THEN TakerFee(Stake(draft[i], q), TakerFeeBps[t.market])
                  ELSE Stake(resting, q)
           y == [tx[w] EXCEPT !.batch = [@ EXCEPT ![r] = NoRow]]
           x == [y EXCEPT !.due = due]
           s == IF Buys(t) THEN "stamp" ELSE "seller"
           own == FillRow(draft[i], q)
           other == FillRow(resting, q)
<1>1. req[w].op = "place" /\ i \in OrderIds /\ t \in Tickets
    BY Served, Zenon DEF FillOrder
<1>2. Exists(resting)
    BY Zenon DEF FillOrder, Fillable, IsFirst, Ids
<1>3. /\ draft[i] \in Row /\ draft[i].ticket = req[w].ticket /\ owner[i] = w
      /\ ~Exists(orders[i]) /\ orders[i].filled = 0 /\ ~Active(orders[i])
      /\ Exists(draft[i]) /\ Unfilled(draft[i]) \in Nat
      /\ ~Exists(tx[w].batch[i])
    BY <1>1, OwnRow
<1>4. /\ owner[r] = w /\ draft[r] = resting /\ resting \in Row
      /\ Active(resting) /\ Unfilled(resting) \in Nat \ {0}
      /\ ~(Exists(orders[r]) /\ ~Active(orders[r]))
    BY <1>1, <1>2, LoadedRow
<1>5. i # r
    BY <1>2, <1>3
<1>6. q \in Nat /\ q <= Unfilled(draft[i]) /\ q <= Unfilled(resting)
    BY <1>3, <1>4, SmallerType
<1>7. CASE Rollback(w)
    BY <1>7, RollbackStep
<1>8. CASE /\ Solvent(p[u]) /\ Solvent(p[t.user])
           /\ draft' = [draft EXCEPT ![i] = own, ![r] = other]
           /\ LockWallet(w, u)
           /\ purse' = p
           /\ tx' = [tx EXCEPT ![w] = x]
           /\ Goto(w, s)
           /\ UNCHANGED <<orders, owner, wallets, marketVars, req>>
  <2> HIDE DEF q
  <2>1. /\ own \in Row /\ RowOK(own) /\ Exists(own) /\ own.ticket = t
        /\ own.filled = draft[i].filled + q /\ Unfilled(own) >= 0
    BY <1>3, <1>6, FillRowType
  <2>2. /\ other \in Row /\ RowOK(other) /\ Exists(other)
        /\ other.filled = resting.filled + q
    BY <1>4, <1>6, FillRowType
  <2> HIDE DEF own, other
  <2>3. /\ draft' \in [OrderIds -> Row]
        /\ orders' = orders /\ owner' = owner
        /\ draft'[i] = own /\ draft'[r] = other
        /\ \A j \in OrderIds \ {i, r} : draft'[j] = draft[j]
    BY <1>1, <1>5, <1>8, <2>1, <2>2, Typed
  <2>4. Extends(own, orders[i])
    BY <1>3, <1>6, <2>1 DEF Extends, Row
  <2>5. Extends(other, orders[r])
    <3>1. Extends(resting, orders[r])
      BY <1>4 DEF EngineInv, DraftsExtend
    <3>2. orders[r].filled \in Nat /\ resting.filled \in Nat
      BY <1>4, Typed DEF Row
    <3> QED
      BY <1>4, <1>6, <2>2, <3>1, <3>2 DEF Extends
  <2>6. RowsStep(w)
    <3>1. RowStep(w, i)
      BY <1>3, <2>1, <2>3, <2>4 DEF RowStep, OrderFree
    <3>2. RowStep(w, r)
      BY <1>4, <2>2, <2>3, <2>5 DEF RowStep, OrderFree
    <3>3. \A j \in OrderIds \ {i, r} : RowStep(w, j)
      BY <2>3 DEF RowStep
    <3> QED
      BY <2>3, <3>1, <3>2, <3>3, Typed DEF RowsStep
  <2>7. TypesStep
    <3>1. p \in [Users -> Wallet]
      BY <1>1, <1>6, <1>8, AfterFillType, Zenon
    <3>2. u \in Users
      BY <1>4, TicketType DEF Row
    <3> HIDE DEF p, u
    <3> QED
      BY <1>8, <3>1, <3>2, Typed DEF TypesStep, LockWallet, marketVars
  <2>8. due \in Nat
    <3>1. TakerFeeBps[t.market] \in Nat
      BY <1>1, TicketType, FeesAssumption
    <3> QED
      BY <1>3, <1>4, <1>6, <3>1, StakeType, FeeType
  <2> HIDE DEF due
  <2>9. /\ x \in TxType /\ x.order = i
        /\ x.batch[r] = NoRow
        /\ \A j \in OrderIds \ {r} : x.batch[j] = tx[w].batch[j]
    <3> DEFINE b == [tx[w].batch EXCEPT ![r] = NoRow]
    <3>1. /\ b \in [OrderIds -> Row] /\ b[r] = NoRow
          /\ \A j \in OrderIds \ {r} : b[j] = tx[w].batch[j]
      BY Typed, NoRowType DEF TxType
    <3>2. y = [tx[w] EXCEPT !.batch = b]
      OBVIOUS
    <3> HIDE DEF b, y
    <3>3. y \in TxType /\ y.order = i /\ y.batch = b
      <4>1. tx[w] \in TxType
        BY Typed
      <4> DEFINE z == [tx[w] EXCEPT !.batch = b]
      <4>2. z \in TxType /\ z.order = i /\ z.batch = b
        BY <3>1, <4>1, TxUpdateType
      <4> QED
        BY <3>2, <4>2
    <3>4. x \in TxType /\ x.order = y.order /\ x.batch = y.batch
      BY <2>8, <3>3, TxUpdateType
    <3> QED
      BY <3>1, <3>3, <3>4
  <2>10. s \in Statement
    BY StatementType
  <2> HIDE DEF x
  <2>11. LocalStep(w) /\ pc'[w] = s /\ tx'[w] = x /\ req'[w] = req[w]
    BY <1>8, <2>9, <2>10, LocalUpdate, Zenon
  <2>12. Serving(w)'
    BY <1>1, <2>9, <2>11 DEF Serving, PlacePCs, Placing, CancelPCs, SettlePCs, AnnulPCs
  <2>13. BatchOK(w)'
    <3>1. \A j \in OrderIds : RowOK(tx[w].batch[j])
                                /\ (Exists(tx[w].batch[j]) => Active(tx[w].batch[j]))
      BY DEF EngineInv, WorkersOK, BatchOK
    <3> QED
      BY <2>9, <2>11, <3>1, NoRowType DEF BatchOK
  <2>14. PlacementOK(w)'
    <3>1. ~Exists(x.batch[i])
      BY <1>1, <1>3, <1>5, <2>9
    <3>2. ASSUME NEW j \in OrderIds, Exists(x.batch[j])
          PROVE  owner'[j] = w /\ draft'[j] = x.batch[j]
      <4>1. j # r /\ j # i
        BY <2>9, <3>1, <3>2, NoRowType
      <4> QED
        BY <1>1, <2>3, <2>9, <3>2, <4>1, LoadedRow
    <3> QED
      BY <1>3, <2>1, <2>3, <2>9, <2>11, <3>1, <3>2 DEF PlacementOK
  <2> QED
    BY <2>6, <2>7, <2>11, <2>12, <2>13, <2>14, ShapedStep DEF WorkerOK
<1> QED
    BY <1>7, <1>8 DEF FillOrder

----------------------------------------------------------------------------
(***************************************************************************)
(* Steps that cancel a resting order.                                      *)
(***************************************************************************)

\* A request that is no placement locks row i and writes a cancellation into it.
LEMMA CancelRowStep ==
    ASSUME EngineInv, NEW w \in Workers, req[w].op # "place",
           NEW i \in OrderIds, OrderFree(w, i),
           NEW seen \in Row, Active(seen), RowOK(seen),
           draft' = [draft EXCEPT ![i] = CancelRow(@, seen)], LockOrder(w, i),
           UNCHANGED <<orders, req>>, TypesStep,
           NEW x \in TxType, tx' = [tx EXCEPT ![w] = x],
           \A j \in OrderIds : x.batch[j] \in {NoRow, tx[w].batch[j]},
           NEW s \in {"unreserve", "sweep", "release", "wallet"}, Goto(w, s),
           s = "unreserve" => req[w].op = "cancel",
           s \in {"sweep", "release"} => req[w].op = "settle" /\ x.order \in OrderIds,
           s = "wallet" => req[w].op = "annul"
    PROVE  EngineInv'
<1> DEFINE row == CancelRow(draft[i], seen)
<1>1. /\ row \in Row /\ RowOK(row) /\ Exists(row) /\ ~Active(row)
      /\ row.filled = draft[i].filled
    BY Typed, CancelRowType
<1> HIDE DEF row
<1>2. draft' = [draft EXCEPT ![i] = row]
    BY DEF row
<1>3. Extends(row, orders[i])
  <2>1. Extends(draft[i], orders[i])
    BY DEF EngineInv, DraftsExtend
  <2> QED
    BY <1>1, <2>1 DEF Extends
<1>4. RowsStep(w)
  <2>1. RowStep(w, i)
    BY <1>1, <1>2, <1>3, Typed DEF RowStep, LockOrder
  <2>2. \A j \in OrderIds \ {i} : RowStep(w, j)
    BY <1>2, Typed DEF RowStep, LockOrder
  <2> QED
    BY <1>1, <1>2, <2>1, <2>2, Typed DEF RowsStep, LockOrder
<1>5. s \in Statement
    BY StatementType
<1>6. LocalStep(w) /\ pc'[w] = s /\ tx'[w] = x /\ req'[w] = req[w]
    BY <1>5, LocalUpdate
<1>7. Serving(w)'
    BY <1>6 DEF Serving, PlacePCs, Placing, CancelPCs, SettlePCs, AnnulPCs
<1>8. BatchOK(w)'
  <2>1. \A j \in OrderIds : RowOK(tx[w].batch[j])
                              /\ (Exists(tx[w].batch[j]) => Active(tx[w].batch[j]))
    BY DEF EngineInv, WorkersOK, BatchOK
  <2>2. \A j \in OrderIds : x.batch[j] = NoRow \/ x.batch[j] = tx[w].batch[j]
    OBVIOUS
  <2> QED
    BY <1>6, <2>1, <2>2, NoRowType DEF BatchOK
<1>9. PlacementOK(w)'
    BY <1>6 DEF PlacementOK
<1> QED
    BY <1>4, <1>6, <1>7, <1>8, <1>9, ShapedStep DEF WorkerOK

\* Clob::OrderCancellationService refuses, or cancels the row it has locked.
LEMMA CancelOrderInv ==
    ASSUME EngineInv, NEW w \in Workers, CancelOrder(w)
    PROVE  EngineInv'
<1> DEFINE i == req[w].order
           due == Reserved(draft[i])
           x == [tx[w] EXCEPT !.due = due]
<1>1. req[w].op = "cancel" /\ i \in OrderIds
    BY Served DEF CancelOrder
<1>2. CASE Rollback(w)
    BY <1>2, RollbackStep
<1>3. CASE /\ Active(draft[i])
           /\ LockOrder(w, i)
           /\ draft' = [draft EXCEPT ![i] = CancelRow(@, @)]
           /\ tx' = [tx EXCEPT ![w] = x]
           /\ Goto(w, "unreserve")
           /\ UNCHANGED <<orders, walletVars, marketVars, req>>
  <2>1. draft[i] \in Row /\ RowOK(draft[i])
    BY <1>1, Typed DEF EngineInv, DraftsExtend
  <2>2. due \in Nat
    BY <1>3, <2>1, UnfilledType, ReservedType DEF RowOK
  <2> HIDE DEF due
  <2>3. x \in TxType /\ x.batch = tx[w].batch
    BY <2>2, Typed, TxUpdateType
  <2> HIDE DEF x
  <2>4. \A j \in OrderIds : x.batch[j] \in {NoRow, tx[w].batch[j]}
    BY <2>3
  <2>5. TypesStep
    BY <1>3, Typed DEF TypesStep, walletVars, marketVars
  <2>6. OrderFree(w, i)
    BY DEF CancelOrder
  <2> QED
    BY <1>1, <1>3, <2>1, <2>3, <2>4, <2>5, <2>6, CancelRowStep
<1> QED
    BY <1>2, <1>3 DEF CancelOrder

\* The row that a settlement or a cancellation visits next.
LEMMA NextRow ==
    ASSUME EngineInv, NEW w \in Workers, NEW i \in OrderIds, IsNext(tx[w].batch, i)
    PROVE  LET seen == tx[w].batch[i]
           IN  seen \in Row /\ Active(seen) /\ RowOK(seen) /\ Reserved(seen) \in Nat
                 /\ seen.ticket.user \in Users
<1> DEFINE seen == tx[w].batch[i]
<1>1. seen \in Row
    BY Typed DEF TxType
<1>2. Active(seen) /\ RowOK(seen)
    BY DEF EngineInv, WorkersOK, BatchOK, IsNext, Ids
<1>3. Reserved(seen) \in Nat
    BY <1>1, <1>2, UnfilledType, ReservedType DEF RowOK
<1> QED
    BY <1>1, <1>2, <1>3, TicketType DEF Row

\* The batch without the row that has been visited.
LEMMA VisitedBatch ==
    ASSUME EngineInv, NEW w \in Workers, NEW i \in OrderIds
    PROVE  LET b == [tx[w].batch EXCEPT ![i] = NoRow]
               y == [tx[w] EXCEPT !.batch = b]
           IN  /\ y \in TxType
               /\ \A j \in OrderIds : y.batch[j] \in {NoRow, tx[w].batch[j]}
<1> DEFINE b == [tx[w].batch EXCEPT ![i] = NoRow]
           y == [tx[w] EXCEPT !.batch = b]
<1>1. tx[w] \in TxType
    BY Typed
<1>2. /\ b \in [OrderIds -> Row]
      /\ \A j \in OrderIds : b[j] \in {NoRow, tx[w].batch[j]}
    BY <1>1, NoRowType DEF TxType
<1> HIDE DEF b
<1>3. y \in TxType /\ y.batch = b
    BY <1>1, <1>2, TxUpdateType
<1> HIDE DEF y
<1>4. y \in TxType /\ \A j \in OrderIds : y.batch[j] \in {NoRow, tx[w].batch[j]}
    BY <1>2, <1>3
<1> QED
    BY <1>4 DEF y, b

\* Pass 1 of a settlement.
LEMMA SweepOrderInv ==
    ASSUME EngineInv, NEW w \in Workers, NEW i \in OrderIds, SweepOrder(w, i)
    PROVE  EngineInv'
<1> DEFINE seen == tx[w].batch[i]
           due == Reserved(seen)
           y == [tx[w] EXCEPT !.batch = [tx[w].batch EXCEPT ![i] = NoRow]]
           z == [y EXCEPT !.order = i]
           x == [z EXCEPT !.due = due]
           s == IF due = 0 THEN "sweep" ELSE "release"
<1>1. req[w].op = "settle"
    BY Served DEF SweepOrder
<1>2. seen \in Row /\ Active(seen) /\ RowOK(seen) /\ due \in Nat
    BY NextRow DEF SweepOrder
<1>3. /\ OrderFree(w, i) /\ LockOrder(w, i) /\ Goto(w, s)
      /\ draft' = [draft EXCEPT ![i] = CancelRow(@, seen)]
      /\ UNCHANGED <<orders, walletVars, marketVars, req>>
      /\ tx' = [tx EXCEPT ![w] = x]
    BY DEF SweepOrder
<1> HIDE DEF due
<1>4. y \in TxType /\ \A j \in OrderIds : y.batch[j] \in {NoRow, tx[w].batch[j]}
    BY VisitedBatch
<1> HIDE DEF y
<1>5. z \in TxType /\ z.order = i /\ z.batch = y.batch
    BY <1>4, TxUpdateType
<1> HIDE DEF z
<1>6. x \in TxType /\ x.order = i /\ x.batch = y.batch
    BY <1>2, <1>5, TxUpdateType
<1> HIDE DEF x
<1>7. TypesStep
    BY <1>3, Typed DEF TypesStep, walletVars, marketVars
<1>8. s \in {"sweep", "release"}
    OBVIOUS
<1> HIDE DEF s, seen
<1> QED
    BY <1>1, <1>2, <1>3, <1>4, <1>6, <1>7, <1>8, CancelRowStep

\* The orders of a cancelled market.
LEMMA VoidOrderInv ==
    ASSUME EngineInv, NEW w \in Workers, NEW i \in OrderIds, VoidOrder(w, i)
    PROVE  EngineInv'
<1> DEFINE seen == tx[w].batch[i]
           u == seen.ticket.user
           amount == Smaller(Reserved(seen), purse[u].reserved)
           p == Release(purse[u], amount)
           x == [tx[w] EXCEPT !.batch = [tx[w].batch EXCEPT ![i] = NoRow]]
<1>1. req[w].op = "annul"
    BY Served DEF VoidOrder
<1>2. /\ seen \in Row /\ Active(seen) /\ RowOK(seen) /\ Reserved(seen) \in Nat
      /\ u \in Users
    BY NextRow DEF VoidOrder
<1>3. /\ OrderFree(w, i) /\ LockOrder(w, i) /\ Goto(w, "wallet")
      /\ draft' = [draft EXCEPT ![i] = CancelRow(@, seen)]
      /\ purse' = [purse EXCEPT ![u] = p]
      /\ UNCHANGED <<orders, wallets, holder, marketVars, req>>
      /\ tx' = [tx EXCEPT ![w] = x]
    BY DEF VoidOrder
<1>4. purse[u] \in Wallet /\ purse[u].reserved \in Nat
    BY <1>2, Typed DEF Wallet
<1>5. amount \in Nat /\ amount <= purse[u].reserved
    BY <1>2, <1>4, SmallerType
<1> HIDE DEF amount
<1>6. p \in Wallet
    BY <1>4, <1>5, ReleaseType
<1> HIDE DEF p
<1>7. TypesStep
    BY <1>2, <1>3, <1>6, WalletUpdate
<1>8. x \in TxType /\ \A j \in OrderIds : x.batch[j] \in {NoRow, tx[w].batch[j]}
    BY VisitedBatch
<1> HIDE DEF x, seen
<1> QED
    BY <1>1, <1>2, <1>3, <1>7, <1>8, CancelRowStep

----------------------------------------------------------------------------
(***************************************************************************)
(* The theorems.                                                           *)
(***************************************************************************)

\* Every statement of every service preserves the invariant.
LEMMA StepInv ==
    ASSUME EngineInv, NEW w \in Workers, Step(w)
    PROVE  EngineInv'
<1>1. CASE PlaceStep(w)
    BY <1>1, InsertInv, ReserveFundsInv, CheckPositionInv, ScanInv, CrossInv, FillOrderInv,
       CreditSellerInv, StampMarketInv, FinishPlaceInv DEF PlaceStep
<1>2. CASE CancelStep(w)
    BY <1>2, CancelOrderInv, ReleasesInv DEF CancelStep
<1>3. CASE SettleStep(w)
    BY <1>3, SnapshotInv, SweepOrderInv, ReleasesInv, PayoutInv DEF SettleStep
<1>4. CASE AnnulStep(w)
    BY <1>4, LockForAnnulInv, VoidOrderInv, RefundsInv DEF AnnulStep
<1>5. CASE Commit(w)
    BY <1>5, CommitStep
<1> QED
    BY <1>1, <1>2, <1>3, <1>4, <1>5 DEF Step

\* The invariant is inductive.
LEMMA NextInv == EngineInv /\ [Next]_vars => EngineInv'
<1> SUFFICES ASSUME EngineInv, [Next]_vars PROVE EngineInv'
    OBVIOUS
<1>1. ASSUME NEW w \in Workers, Start(w) \/ Step(w) \/ Crash(w) \/ DeadlockVictim(w)
      PROVE  EngineInv'
    BY <1>1, StartInv, StepInv, RollbackStep DEF Crash, DeadlockVictim
<1>2. ASSUME NEW m \in Markets, Expire(m) \/ CloseExpired(m)
      PROVE  EngineInv'
    BY <1>2, ClosingInv
<1>3. CASE UNCHANGED vars
    BY <1>3, StutterInv
<1> QED
    BY <1>1, <1>2, <1>3 DEF Next

\* Whatever requests run concurrently, crash or deadlock: rows stay well formed,
\* balances stay non-negative, a placement works on current copies of the rows it has
\* locked, and what any transaction may still publish only adds to what is committed.
THEOREM EngineIsSound == Spec => []EngineInv
<1>1. Init => EngineInv
    BY InitInv
<1>2. EngineInv /\ [Next]_vars => EngineInv'
    BY NextInv
<1> QED
    BY <1>1, <1>2, PTL DEF Spec

\* Every variable always has its type; the columns of wallets are never negative.
THEOREM TypeCorrectness == Spec => []TypeOK
<1>1. EngineInv => TypeOK
    BY DEF EngineInv
<1> QED
    BY <1>1, EngineIsSound, PTL

\* The services that write order rows publish them only in Commit, and each only
\* extends the committed row.
LEMMA FillsStep ==
    ASSUME EngineInv, [Next]_vars, NEW i \in OrderIds
    PROVE  Extends(orders'[i], orders[i])
<1>1. Extends(draft[i], orders[i]) /\ Extends(orders[i], orders[i])
    BY Typed DEF EngineInv, DraftsExtend, Extends, Row
<1>2. ASSUME NEW w \in Workers, Commit(w)
      PROVE  orders'[i] \in {draft[i], orders[i]}
    BY <1>2 DEF Commit
<1>3. ASSUME NEW w \in Workers, Start(w)
      PROVE  orders' = orders
    BY <1>3 DEF Start, StartPlace, StartCancel, StartSettle, StartAnnul, orderVars
<1>4. ASSUME NEW w \in Workers, PlaceStep(w)
      PROVE  orders' = orders
    BY <1>4 DEF PlaceStep, Insert, ReserveFunds, CheckPosition, Scan, Cross, FillOrder,
       CreditSeller, StampMarket, FinishPlace, DropRemainder, Rollback, orderVars
<1>5. ASSUME NEW w \in Workers, CancelStep(w) \/ SettleStep(w)
      PROVE  orders' = orders
    BY <1>5, Zenon DEF CancelStep, SettleStep, CancelOrder, Unreserve, ReleaseFunds, Snapshot,
       SweepOrder, ReleaseSwept, StartPayout, Assess, PayWinner, FinishSettle, Rollback,
       orderVars
<1>6. ASSUME NEW w \in Workers, AnnulStep(w)
      PROVE  orders' = orders
    BY <1>6, Zenon DEF AnnulStep, LockForAnnul, LockForVoid, VoidOrder, StartRefund, Refund,
       FinishAnnul, Rollback, orderVars
<1>7. ASSUME NEW w \in Workers, Crash(w) \/ DeadlockVictim(w)
      PROVE  orders' = orders
    BY <1>7 DEF Crash, DeadlockVictim, Rollback
<1>8. ASSUME NEW m \in Markets, Expire(m) \/ CloseExpired(m)
      PROVE  orders' = orders
    BY <1>8 DEF Expire, CloseExpired, orderVars
<1>9. orders' = orders \/ orders'[i] \in {draft[i], orders[i]}
    BY <1>2, <1>3, <1>4, <1>5, <1>6, <1>7, <1>8 DEF Next, Step, vars
<1> QED
    BY <1>1, <1>9

\* No interleaving of placements, cancellations, settlements and market cancellations,
\* crashes included, overwrites a committed fill from an older copy of the row, or
\* puts an order that has left the book back into it.
THEOREM FillsAreNeverLost == Spec => FillsAreKept
<1>1. EngineInv /\ [Next]_vars
        => [\A i \in OrderIds :
              /\ orders'[i].filled >= orders[i].filled
              /\ Exists(orders[i]) /\ ~Active(orders[i]) => ~Active(orders'[i])]_orders
    BY FillsStep DEF Extends
<1> QED
    BY <1>1, EngineIsSound, PTL DEF Spec, FillsAreKept
----------------------------------------------------------------------------
(***************************************************************************)
(* Wallets and their ledger.  Every write to a wallet moves a balance and  *)
(* its ledger sums together.                                               *)
(***************************************************************************)

\* What the ledger says a user has gained on each market.
Gained(wallet) == [m \in Markets |-> wallet.won[m] - Outlay(wallet, m)]

\* The wallet of a user who was granted `funds` can be derived from the ledger.
Explained(wallet, funds) ==
    Total(wallet) = funds + SumFunctionOnSet(Gained(wallet), Markets)

LedgerInv ==
    /\ EngineInv
    /\ \A u \in Users : /\ Explained(wallets[u], InitialFunds[u])
                        /\ Explained(purse[u], InitialFunds[u])

\* The sums of a wallet are integers.
LEMMA GainedType ==
    ASSUME NEW p \in Drawn
    PROVE  /\ p.available \in Int /\ p.reserved \in Int
           /\ \A m \in Markets : p.spent[m] \in Int /\ p.fees[m] \in Int /\ p.won[m] \in Int
           /\ \A m \in Markets : Gained(p)[m] = p.won[m] - (p.spent[m] + p.fees[m])
           /\ \A m \in Markets : Gained(p)[m] \in Int
<1>1. /\ p.available \in Int /\ p.reserved \in Int
      /\ \A m \in Markets : p.spent[m] \in Int /\ p.fees[m] \in Int /\ p.won[m] \in Int
  BY DEF Drawn
<1>2. \A m \in Markets : Gained(p)[m] = p.won[m] - (p.spent[m] + p.fees[m])
  BY DEF Gained, Outlay
<1>. QED
  BY <1>1, <1>2

\* A wallet whose balance and whose gain on one market move by the same amount.
LEMMA ExplainedMove ==
    ASSUME NEW p \in Drawn, NEW q \in Drawn, NEW funds \in Int, NEW m \in Markets,
           NEW d \in Int, Explained(p, funds),
           Total(q) = Total(p) + d, Gained(q)[m] = Gained(p)[m] + d,
           \A n \in Markets \ {m} : Gained(q)[n] = Gained(p)[n]
    PROVE  Explained(q, funds)
<1>1. \A n \in Markets : Gained(p)[n] \in Int
  BY GainedType
<1>2. Gained(q)[m] \in Int
  BY GainedType
<1>3. IsFiniteSet(Markets)
  BY FiniteAssumption
<1> DEFINE a == SumFunctionOnSet(Gained(p), Markets)
           b == SumFunctionOnSet(Gained(q), Markets)
           x == Gained(p)[m]
           y == Gained(q)[m]
<1>4. b = a + (y - x)
  BY <1>1, <1>2, <1>3, SumChanged
<1>5. a \in Int /\ x \in Int /\ y = x + d
  BY <1>1, <1>3, SumInt
<1>6. Total(p) = funds + a
  BY DEF Explained
<1> HIDE DEF a, b, x, y
<1>7. Total(q) = funds + b
  BY <1>4, <1>5, <1>6
<1>. QED
  BY <1>7 DEF Explained, b

\* A wallet whose columns change places, with no ledger entry.
LEMMA ExplainedSame ==
    ASSUME NEW p \in Drawn, NEW q \in Drawn, NEW funds \in Int, Explained(p, funds),
           Total(q) = Total(p), q.spent = p.spent, q.fees = p.fees, q.won = p.won
    PROVE  Explained(q, funds)
<1>1. Gained(q) = Gained(p)
  BY DEF Gained, Outlay
<1>. QED
  BY <1>1 DEF Explained

\* The moves of money inside a wallet.
LEMMA MovesExplained ==
    ASSUME NEW p \in Drawn, NEW funds \in Int, Explained(p, funds), NEW a \in Int
    PROVE  Explained(Reserve(p, a), funds) /\ Explained(Release(p, a), funds)
<1>1. p.available \in Int /\ p.reserved \in Int
  BY GainedType
<1>2. /\ p.available - a \in Int /\ p.reserved + a \in Int
      /\ p.available + a \in Int /\ p.reserved - a \in Int
  BY <1>1
<1>3. Reserve(p, a) \in Drawn /\ Release(p, a) \in Drawn
  BY <1>2 DEF Reserve, Release, Drawn
<1>4. /\ Reserve(p, a).available = p.available - a /\ Reserve(p, a).reserved = p.reserved + a
      /\ Release(p, a).available = p.available + a /\ Release(p, a).reserved = p.reserved - a
      /\ Reserve(p, a).spent = p.spent /\ Reserve(p, a).fees = p.fees
      /\ Reserve(p, a).won = p.won
      /\ Release(p, a).spent = p.spent /\ Release(p, a).fees = p.fees
      /\ Release(p, a).won = p.won
  BY DEF Reserve, Release, Drawn
<1>5. Total(Reserve(p, a)) = Total(p) /\ Total(Release(p, a)) = Total(p)
  BY <1>1, <1>4 DEF Total
<1>6. Explained(Reserve(p, a), funds)
  BY <1>3, <1>4, <1>5, ExplainedSame
<1>7. Explained(Release(p, a), funds)
  BY <1>3, <1>4, <1>5, ExplainedSame
<1>. QED
  BY <1>6, <1>7

\* A fill takes the stake out of the reservation and books it.
LEMMA SpendExplained ==
    ASSUME NEW p \in Drawn, NEW funds \in Int, Explained(p, funds), NEW a \in Int,
           NEW m \in Markets
    PROVE  SpendReserved(p, m, a) \in Drawn /\ Explained(SpendReserved(p, m, a), funds)
<1> DEFINE q == SpendReserved(p, m, a)
<1>1. q \in Drawn
  BY SpendDrawn
<1>2. /\ p.available \in Int /\ p.reserved \in Int
      /\ \A n \in Markets : p.spent[n] \in Int /\ p.fees[n] \in Int /\ p.won[n] \in Int
  BY GainedType
<1>3. /\ q.available = p.available /\ q.reserved = p.reserved - a
      /\ q.spent = [p.spent EXCEPT ![m] = @ + a] /\ q.fees = p.fees /\ q.won = p.won
  BY DEF SpendReserved, Drawn
<1>4. /\ q.spent[m] = p.spent[m] + a
      /\ \A n \in Markets \ {m} : q.spent[n] = p.spent[n]
  BY <1>3 DEF Drawn
<1> HIDE DEF q
<1>5. Total(q) = Total(p) + (-a)
  BY <1>2, <1>3 DEF Total
<1>6. Gained(q)[m] = Gained(p)[m] + (-a)
  BY <1>2, <1>3, <1>4 DEF Gained, Outlay
<1>7. \A n \in Markets \ {m} : Gained(q)[n] = Gained(p)[n]
  BY <1>3, <1>4 DEF Gained, Outlay
<1>8. -a \in Int
  OBVIOUS
<1>9. Explained(q, funds)
  BY <1>1, <1>5, <1>6, <1>7, <1>8, ExplainedMove
<1>. QED
  BY <1>1, <1>9 DEF q

\* The proceeds of a sale, a fee, and a payout or refund come with their entries.
LEMMA CreditExplained ==
    ASSUME NEW p \in Wallet, NEW funds \in Int, Explained(p, funds), NEW a \in Nat,
           NEW m \in Markets
    PROVE  Explained([p EXCEPT !.available = @ + a, !.spent[m] = @ - a], funds)
<1> DEFINE q == [p EXCEPT !.available = @ + a, !.spent[m] = @ - a]
<1>1. p \in Drawn /\ q \in Drawn
  BY CreditType, WalletIsDrawn, Zenon
<1>2. /\ p.available \in Int /\ p.reserved \in Int
      /\ \A n \in Markets : p.spent[n] \in Int /\ p.fees[n] \in Int /\ p.won[n] \in Int
  BY <1>1, GainedType
<1>3. /\ q.available = p.available + a /\ q.reserved = p.reserved
      /\ q.spent = [p.spent EXCEPT ![m] = @ - a] /\ q.fees = p.fees /\ q.won = p.won
  BY DEF Wallet
<1>4. /\ q.spent[m] = p.spent[m] - a
      /\ \A n \in Markets \ {m} : q.spent[n] = p.spent[n]
  BY <1>3 DEF Wallet
<1> HIDE DEF q
<1>5. Total(q) = Total(p) + a
  BY <1>2, <1>3 DEF Total
<1>6. Gained(q)[m] = Gained(p)[m] + a
  BY <1>2, <1>3, <1>4 DEF Gained, Outlay
<1>7. \A n \in Markets \ {m} : Gained(q)[n] = Gained(p)[n]
  BY <1>3, <1>4 DEF Gained, Outlay
<1>8. Explained(q, funds)
  BY <1>1, <1>5, <1>6, <1>7, ExplainedMove
<1>. QED
  BY <1>8 DEF q

LEMMA FeeExplained ==
    ASSUME NEW p \in Wallet, NEW funds \in Int, Explained(p, funds), NEW a \in Nat,
           p.available >= a, NEW m \in Markets
    PROVE  Explained([p EXCEPT !.available = @ - a, !.fees[m] = @ + a], funds)
<1> DEFINE q == [p EXCEPT !.available = @ - a, !.fees[m] = @ + a]
<1>1. p \in Drawn /\ q \in Drawn
  BY FeePaidType, WalletIsDrawn, Zenon
<1>2. /\ p.available \in Int /\ p.reserved \in Int
      /\ \A n \in Markets : p.spent[n] \in Int /\ p.fees[n] \in Int /\ p.won[n] \in Int
  BY <1>1, GainedType
<1>3. /\ q.available = p.available - a /\ q.reserved = p.reserved
      /\ q.fees = [p.fees EXCEPT ![m] = @ + a] /\ q.spent = p.spent /\ q.won = p.won
  BY DEF Wallet
<1>4. /\ q.fees[m] = p.fees[m] + a
      /\ \A n \in Markets \ {m} : q.fees[n] = p.fees[n]
  BY <1>3 DEF Wallet
<1> HIDE DEF q
<1>5. Total(q) = Total(p) + (-a)
  BY <1>2, <1>3 DEF Total
<1>6. Gained(q)[m] = Gained(p)[m] + (-a)
  BY <1>2, <1>3, <1>4 DEF Gained, Outlay
<1>7. \A n \in Markets \ {m} : Gained(q)[n] = Gained(p)[n]
  BY <1>3, <1>4 DEF Gained, Outlay
<1>8. -a \in Int
  OBVIOUS
<1>9. Explained(q, funds)
  BY <1>1, <1>5, <1>6, <1>7, <1>8, ExplainedMove
<1>. QED
  BY <1>9 DEF q

LEMMA WonExplained ==
    ASSUME NEW p \in Wallet, NEW funds \in Int, Explained(p, funds), NEW a \in Int,
           p.available + a >= 0, NEW m \in Markets
    PROVE  Explained([p EXCEPT !.available = @ + a, !.won[m] = @ + a], funds)
<1> DEFINE q == [p EXCEPT !.available = @ + a, !.won[m] = @ + a]
<1>1. p \in Drawn /\ q \in Drawn
  BY WonType, WalletIsDrawn, Zenon
<1>2. /\ p.available \in Int /\ p.reserved \in Int
      /\ \A n \in Markets : p.spent[n] \in Int /\ p.fees[n] \in Int /\ p.won[n] \in Int
  BY <1>1, GainedType
<1>3. /\ q.available = p.available + a /\ q.reserved = p.reserved
      /\ q.won = [p.won EXCEPT ![m] = @ + a] /\ q.spent = p.spent /\ q.fees = p.fees
  BY DEF Wallet
<1>4. /\ q.won[m] = p.won[m] + a
      /\ \A n \in Markets \ {m} : q.won[n] = p.won[n]
  BY <1>3 DEF Wallet
<1> HIDE DEF q
<1>5. Total(q) = Total(p) + a
  BY <1>2, <1>3 DEF Total
<1>6. Gained(q)[m] = Gained(p)[m] + a
  BY <1>2, <1>3, <1>4 DEF Gained, Outlay
<1>7. \A n \in Markets \ {m} : Gained(q)[n] = Gained(p)[n]
  BY <1>3, <1>4 DEF Gained, Outlay
<1>8. Explained(q, funds)
  BY <1>1, <1>5, <1>6, <1>7, ExplainedMove
<1>. QED
  BY <1>8 DEF q

----------------------------------------------------------------------------
(***************************************************************************)
(* The statements that write wallets.                                      *)
(***************************************************************************)

\* What w would publish is explained.
PurseExplained == \A u \in Users : Explained(purse[u], InitialFunds[u])

\* A statement that writes the wallet of u alone.
LEMMA OnePurse ==
    ASSUME EngineInv, PurseExplained, NEW u \in Users, NEW p,
           Explained(p, InitialFunds[u]), purse' = [purse EXCEPT ![u] = p]
    PROVE  PurseExplained'
<1>1. purse \in [Users -> Wallet]
  BY Typed
<1>2. \A v \in Users : purse'[v] = IF v = u THEN p ELSE purse[v]
  BY <1>1
<1>3. \A v \in Users : Explained(purse'[v], InitialFunds[v])
  BY <1>2 DEF PurseExplained
<1>. QED
  BY <1>3 DEF PurseExplained

\* The facts about the wallet of one user.
LEMMA PurseOf ==
    ASSUME EngineInv, PurseExplained, NEW u \in Users
    PROVE  /\ purse[u] \in Wallet /\ purse[u] \in Drawn /\ InitialFunds[u] \in Int
           /\ Explained(purse[u], InitialFunds[u])
  BY Typed, WalletIsDrawn, FundsAssumption DEF PurseExplained

LEMMA PlacementExplained ==
    ASSUME EngineInv, PurseExplained, NEW w \in Workers, ~Rollback(w),
           ReserveFunds(w) \/ CreditSeller(w) \/ StampMarket(w)
    PROVE  PurseExplained'
<1> DEFINE u == req[w].ticket.user
           m == req[w].ticket.market
<1>1. u \in Users /\ m \in Markets /\ tx[w].due \in Nat
  BY Served, Typed, TicketType, Zenon DEF ReserveFunds, CreditSeller, StampMarket, TxType
<1>2. PICK user \in Users : user = u
  BY <1>1
<1>3. PICK mkt \in Markets : mkt = m
  BY <1>1
<1>4. PICK due \in Nat : due = tx[w].due
  BY <1>1
<1>5. PICK p \in Wallet : p = purse[user]
  BY PurseOf
<1>6. p \in Drawn /\ InitialFunds[user] \in Int /\ Explained(p, InitialFunds[user])
  BY <1>5, PurseOf
<1>7. CASE ReserveFunds(w)
  <2>1. tx[w].order \in OrderIds /\ req[w].op = "place"
    BY <1>7, Served DEF ReserveFunds
  <2>2. Reserved(draft[tx[w].order]) \in Nat
    BY <2>1, OwnRow, ReservedType
  <2>3. PICK a \in Int : a = Reserved(draft[tx[w].order])
    BY <2>2
  <2>4. purse' = [purse EXCEPT ![user] = Reserve(p, a)]
    BY <1>2, <1>5, <1>7, <2>3 DEF ReserveFunds
  <2>5. Explained(Reserve(p, a), InitialFunds[user])
    BY <1>6, MovesExplained
  <2>. QED
    BY <2>4, <2>5, OnePurse
<1>8. CASE CreditSeller(w)
  <2>1. purse' = [purse EXCEPT ![user] = [p EXCEPT !.available = @ + due, !.spent[mkt] = @ - due]]
    BY <1>2, <1>3, <1>4, <1>5, <1>8 DEF CreditSeller
  <2>2. Explained([p EXCEPT !.available = @ + due, !.spent[mkt] = @ - due], InitialFunds[user])
    BY <1>6, CreditExplained, Zenon
  <2>. QED
    BY <2>1, <2>2, OnePurse
<1>9. CASE StampMarket(w)
  <2>1. /\ p.available >= due
        /\ purse' = [purse EXCEPT ![user] = [p EXCEPT !.available = @ - due, !.fees[mkt] = @ + due]]
    BY <1>2, <1>3, <1>4, <1>5, <1>9 DEF StampMarket
  <2>2. Explained([p EXCEPT !.available = @ - due, !.fees[mkt] = @ + due], InitialFunds[user])
    BY <1>6, <2>1, FeeExplained, Zenon
  <2>. QED
    BY <2>1, <2>2, OnePurse
<1>. QED
  BY <1>7, <1>8, <1>9

\* What is left of an order is given back, with no entry.
LEMMA DropExplained ==
    ASSUME EngineInv, PurseExplained, NEW w \in Workers, ~Rollback(w), NEW S,
           req[w].op = "place", tx[w].order \in OrderIds, DropRemainder(w, S)
    PROVE  PurseExplained'
<1>1. req[w].ticket \in Tickets
  BY Typed, RequestType
<1>2. PICK user \in Users : user = req[w].ticket.user
  BY <1>1, TicketType
<1>3. Reserved(draft[tx[w].order]) \in Nat
  BY OwnRow, ReservedType
<1>4. PICK a \in Int : a = Reserved(draft[tx[w].order])
  BY <1>3
<1>5. purse' = [purse EXCEPT ![user] = Release(purse[user], a)]
  BY <1>2, <1>4 DEF DropRemainder
<1>6. Explained(Release(purse[user], a), InitialFunds[user])
  BY PurseOf, MovesExplained
<1>. QED
  BY <1>5, <1>6, OnePurse

\* A fill books the stakes that it takes.
LEMMA FillExplained ==
    ASSUME EngineInv, PurseExplained, NEW w \in Workers, ~Rollback(w),
           NEW r \in OrderIds, FillOrder(w, r)
    PROVE  PurseExplained'
<1>1. /\ req[w].op = "place" /\ tx[w].order \in OrderIds /\ req[w].ticket \in Tickets
      /\ Exists(tx[w].batch[r])
  BY Served, Zenon DEF FillOrder, Fillable, IsFirst, Ids
<1>2. /\ draft[tx[w].order] \in Row /\ Unfilled(draft[tx[w].order]) \in Nat
      /\ tx[w].batch[r] \in Row /\ Unfilled(tx[w].batch[r]) \in Nat
  BY <1>1, OwnRow, LoadedRow
<1>3. PICK own \in Row : own = draft[tx[w].order]
  BY <1>2
<1>4. PICK resting \in Row : resting = tx[w].batch[r]
  BY <1>2
<1>5. PICK q \in Nat : q = Smaller(Unfilled(own), Unfilled(resting))
  BY <1>2, <1>3, <1>4, SmallerType
<1>6. PICK t \in Tickets : t = req[w].ticket
  BY <1>1
<1>7. /\ t.user \in Users /\ t.market \in Markets /\ resting.ticket.user \in Users
      /\ Stake(own, q) \in Int /\ Stake(resting, q) \in Int
  BY TicketType, StakeType DEF Row
<1>8. PICK user \in Users, maker \in Users, m \in Markets :
         user = t.user /\ maker = resting.ticket.user /\ m = t.market
  BY <1>7
<1>9. PICK a \in Int, b \in Int : a = Stake(resting, q) /\ b = Stake(own, q)
  BY <1>7
<1> DEFINE paid == [purse EXCEPT ![maker] = SpendReserved(@, m, a)]
<1>10. purse' = IF Buys(t) THEN [paid EXCEPT ![user] = SpendReserved(@, m, b)] ELSE paid
  BY <1>3, <1>4, <1>5, <1>6, <1>8, <1>9, Zenon DEF FillOrder, AfterFill
<1>11. \A v \in Users : paid[v] \in Drawn /\ Explained(paid[v], InitialFunds[v])
  <2>1. /\ SpendReserved(purse[maker], m, a) \in Drawn
        /\ Explained(SpendReserved(purse[maker], m, a), InitialFunds[maker])
    BY PurseOf, SpendExplained
  <2>2. purse \in [Users -> Wallet]
    BY Typed
  <2>3. \A v \in Users : paid[v] = IF v = maker THEN SpendReserved(purse[maker], m, a)
                                   ELSE purse[v]
    BY <2>2
  <2>. QED
    BY <2>1, <2>3, PurseOf
<1>12. paid = [v \in Users |-> paid[v]]
  BY Typed
<1> HIDE DEF paid
<1>13. Explained(SpendReserved(paid[user], m, b), InitialFunds[user])
  BY <1>11, SpendExplained, FundsAssumption
<1>14. \A v \in Users : purse'[v] \in {paid[v]} \cup (IF v = user THEN {SpendReserved(paid[user], m, b)} ELSE {})
  BY <1>10, <1>12
<1>15. \A v \in Users : Explained(purse'[v], InitialFunds[v])
  BY <1>11, <1>13, <1>14
<1>. QED
  BY <1>15 DEF PurseExplained

\* The two services that cancel an order and then release its funds.
LEMMA ReleaseExplained ==
    ASSUME EngineInv, PurseExplained, NEW w \in Workers, ~Rollback(w),
           Unreserve(w) \/ ReleaseSwept(w)
    PROVE  PurseExplained'
<1>1. PICK i \in OrderIds, next \in {"commit", "sweep"} : ReleaseFunds(w, i, next)
  BY Served DEF Unreserve, ReleaseSwept
<1>2. draft[i].ticket.user \in Users /\ tx[w].due \in Nat
  BY Typed, TicketType DEF Row, TxType
<1>3. PICK user \in Users : user = draft[i].ticket.user
  BY <1>2
<1>4. PICK a \in Int : a = tx[w].due
  BY <1>2
<1>5. purse' = [purse EXCEPT ![user] = Release(purse[user], a)]
  BY <1>1, <1>3, <1>4 DEF ReleaseFunds
<1>6. Explained(Release(purse[user], a), InitialFunds[user])
  BY PurseOf, MovesExplained
<1>. QED
  BY <1>5, <1>6, OnePurse

\* Payouts, voided orders and refunds.
LEMMA FinalsExplained ==
    ASSUME EngineInv, PurseExplained, NEW w \in Workers, ~Rollback(w),
           \/ \E u \in Users : PayWinner(w, u)
           \/ \E i \in OrderIds : VoidOrder(w, i)
           \/ \E u \in Users : Refund(w, u)
    PROVE  PurseExplained'
<1>1. ASSUME NEW u \in Users, PayWinner(w, u) PROVE PurseExplained'
  <2>1. req[w].market \in Markets /\ tx[w].due \in Nat
    BY <1>1, Served, Typed, Zenon DEF PayWinner, TxType
  <2>2. PICK m \in Markets : m = req[w].market
    BY <2>1
  <2>3. PICK a \in Nat : a = tx[w].due
    BY <2>1
  <2>4. PICK p \in Wallet : p = purse[u]
    BY PurseOf
  <2>5. purse' = [purse EXCEPT ![u] = [p EXCEPT !.available = @ + a, !.won[m] = @ + a]]
    BY <1>1, <2>2, <2>3, <2>4 DEF PayWinner
  <2>6. a \in Int /\ p.available + a >= 0
    BY DEF Wallet
  <2>7. Explained([p EXCEPT !.available = @ + a, !.won[m] = @ + a], InitialFunds[u])
    BY <2>4, <2>6, PurseOf, WonExplained, Zenon
  <2>. QED
    BY <2>5, <2>7, OnePurse
<1>2. ASSUME NEW i \in OrderIds, VoidOrder(w, i) PROVE PurseExplained'
  <2>1. /\ tx[w].batch[i].ticket.user \in Users /\ Reserved(tx[w].batch[i]) \in Nat
    BY <1>2, NextRow, Zenon DEF VoidOrder
  <2>2. PICK user \in Users : user = tx[w].batch[i].ticket.user
    BY <2>1
  <2>3. purse[user] \in Wallet
    BY PurseOf
  <2>4. Smaller(Reserved(tx[w].batch[i]), purse[user].reserved) \in Int
    BY <2>1, <2>3, SmallerType DEF Wallet
  <2>5. PICK a \in Int : a = Smaller(Reserved(tx[w].batch[i]), purse[user].reserved)
    BY <2>4
  <2>6. purse' = [purse EXCEPT ![user] = Release(purse[user], a)]
    BY <1>2, <2>2, <2>5, Zenon DEF VoidOrder
  <2>7. Explained(Release(purse[user], a), InitialFunds[user])
    BY PurseOf, MovesExplained
  <2>. QED
    BY <2>6, <2>7, OnePurse
<1>3. ASSUME NEW u \in Users, Refund(w, u) PROVE PurseExplained'
  <2>1. req[w].market \in Markets
    BY <1>3, Served, Zenon DEF Refund
  <2>2. PICK m \in Markets : m = req[w].market
    BY <2>1
  <2>3. PICK p \in Wallet : p = purse[u]
    BY PurseOf
  <2>4. Outlay(p, m) \in Int /\ p.available \in Nat
    BY OutlayType DEF Wallet
  <2> DEFINE outlay == Outlay(p, m)
             amount == IF outlay > 0 THEN outlay ELSE -Smaller(-outlay, p.available)
  <2>5. amount \in Int /\ p.available + amount >= 0
    BY <2>4 DEF Smaller
  <2>6. purse' = [purse EXCEPT ![u] = [p EXCEPT !.available = @ + amount, !.won[m] = @ + amount]]
    <3>1. purse' = [purse EXCEPT ![u].available = @ + amount, ![u].won[m] = @ + amount]
      BY <1>3, <2>2, <2>3 DEF Refund
    <3> HIDE DEF amount
    <3>2. purse \in [Users -> Wallet]
      BY Typed
    <3>3. PICK first : first = [purse EXCEPT ![u].available = @ + amount]
      OBVIOUS
    <3>4. first = [purse EXCEPT ![u] = [p EXCEPT !.available = @ + amount]]
      BY <2>3, <3>3
    <3>5. purse' = [first EXCEPT ![u].won[m] = @ + amount]
      BY <3>1, <3>3
    <3> QED
      BY <2>3, <3>2, <3>4, <3>5
  <2> HIDE DEF amount
  <2>7. PICK a \in Int : a = amount
    BY <2>5
  <2>8. Explained([p EXCEPT !.available = @ + a, !.won[m] = @ + a], InitialFunds[u])
    BY <2>3, <2>5, <2>7, PurseOf, WonExplained, Zenon
  <2>. QED
    BY <2>6, <2>7, <2>8, OnePurse
<1>. QED
  BY <1>1, <1>2, <1>3

\* The other statements write no wallet.
LEMMA PurseWriters ==
    ASSUME NEW w \in Workers, Start(w) \/ Step(w), ~Rollback(w), ~Commit(w)
    PROVE  /\ wallets' = wallets
           /\ \/ purse' = purse
              \/ ReserveFunds(w) \/ CreditSeller(w) \/ StampMarket(w)
              \/ /\ pc[w] \in {"cross", "fill"}
                 /\ \E S : DropRemainder(w, S)
              \/ \E r \in OrderIds : FillOrder(w, r)
              \/ Unreserve(w) \/ ReleaseSwept(w)
              \/ \E u \in Users : PayWinner(w, u)
              \/ \E i \in OrderIds : VoidOrder(w, i)
              \/ \E u \in Users : Refund(w, u)
<1>1. CASE Start(w)
  BY <1>1 DEF Start, StartPlace, StartCancel, StartSettle, StartAnnul, walletVars
<1>2. CASE PlaceStep(w)
  <2>1. CASE Insert(w) \/ CheckPosition(w) \/ Scan(w)
    BY <2>1 DEF Insert, CheckPosition, Scan, walletVars
  <2>2. CASE ReserveFunds(w) \/ CreditSeller(w) \/ StampMarket(w)
    BY <2>2 DEF ReserveFunds, CreditSeller, StampMarket
  <2>3. CASE Cross(w)
    BY <2>3 DEF Cross, DropRemainder, walletVars
  <2>4. CASE FinishPlace(w)
    BY <2>4 DEF FinishPlace, DropRemainder, walletVars
  <2>5. ASSUME NEW r \in OrderIds, FillOrder(w, r)
        PROVE  wallets' = wallets
    BY <2>5 DEF FillOrder
  <2>. QED
    BY <1>2, <2>1, <2>2, <2>3, <2>4, <2>5 DEF PlaceStep
<1>3. CASE CancelStep(w)
  BY <1>3, Zenon DEF CancelStep, CancelOrder, Unreserve, ReleaseFunds, walletVars
<1>4. CASE SettleStep(w)
  BY <1>4 DEF SettleStep, Snapshot, SweepOrder, ReleaseSwept, ReleaseFunds, StartPayout,
              Assess, PayWinner, FinishSettle, walletVars
<1>5. CASE AnnulStep(w)
  BY <1>5, Zenon DEF AnnulStep, LockForAnnul, LockForVoid, VoidOrder, StartRefund, Refund,
              FinishAnnul, walletVars
<1>. QED
  BY <1>1, <1>2, <1>3, <1>4, <1>5 DEF Step

LEMMA LedgerStep ==
    ASSUME EngineInv, PurseExplained, NEW w \in Workers, Start(w) \/ Step(w),
           ~Rollback(w), ~Commit(w)
    PROVE  wallets' = wallets /\ PurseExplained'
<1>1. CASE purse' = purse
  BY <1>1, PurseWriters DEF PurseExplained
<1>2. CASE pc[w] \in {"cross", "fill"} /\ \E S : DropRemainder(w, S)
  <2>1. req[w].op = "place" /\ tx[w].order \in OrderIds
    BY <1>2, Served
  <2>2. PICK S : DropRemainder(w, S)
    BY <1>2
  <2>. QED
    BY <2>1, <2>2, DropExplained, PurseWriters
<1>. QED
  BY <1>1, <1>2, PurseWriters, PlacementExplained, FillExplained, ReleaseExplained,
     FinalsExplained

\* The kinds of steps of the engine.
LEMMA EngineSteps ==
    ASSUME [Next]_vars
    PROVE  \/ \E w \in Workers : (Start(w) \/ Step(w)) /\ ~Rollback(w) /\ ~Commit(w)
           \/ \E w \in Workers : Rollback(w)
           \/ \E w \in Workers : Commit(w)
           \/ UNCHANGED <<orders, draft, owner, wallets, purse, holder, keeper, pc, req, tx>>
<1>1. ASSUME NEW w \in Workers, Start(w) \/ Step(w) \/ Crash(w) \/ DeadlockVictim(w)
      PROVE  \/ (Start(w) \/ Step(w)) /\ ~Rollback(w) /\ ~Commit(w)
             \/ Rollback(w)
             \/ Commit(w)
  BY <1>1 DEF Crash, DeadlockVictim
<1>2. ASSUME NEW m \in Markets, Expire(m) \/ CloseExpired(m)
      PROVE  UNCHANGED <<orders, draft, owner, wallets, purse, holder, keeper, pc, req, tx>>
  BY <1>2 DEF Expire, CloseExpired, orderVars, walletVars
<1>3. CASE UNCHANGED vars
  BY <1>3 DEF vars
<1>. QED
  BY <1>1, <1>2, <1>3 DEF Next

LEMMA LedgerInit == Init => LedgerInv
<1> SUFFICES ASSUME Init PROVE LedgerInv
  OBVIOUS
<1>1. EngineInv
  BY InitInv
<1>2. ASSUME NEW u \in Users
      PROVE  Explained(wallets[u], InitialFunds[u]) /\ Explained(purse[u], InitialFunds[u])
  <2>1. /\ wallets[u] = NewWallet(InitialFunds[u]) /\ purse[u] = wallets[u]
        /\ InitialFunds[u] \in Nat
    BY FundsAssumption DEF Init
  <2>2. \A m \in Markets : Gained(wallets[u])[m] = 0
    BY <2>1 DEF Gained, Outlay, NewWallet
  <2>3. SumFunctionOnSet(Gained(wallets[u]), Markets) = 0
    BY <2>2, SumZero, FiniteAssumption
  <2>4. Total(wallets[u]) = InitialFunds[u]
    BY <2>1 DEF Total, NewWallet
  <2>. QED
    BY <2>1, <2>3, <2>4 DEF Explained
<1>. QED
  BY <1>1, <1>2 DEF LedgerInv

LEMMA LedgerNext == LedgerInv /\ [Next]_vars => LedgerInv'
<1> SUFFICES ASSUME LedgerInv, [Next]_vars PROVE LedgerInv'
  OBVIOUS
<1>1. EngineInv /\ EngineInv'
  BY NextInv DEF LedgerInv
<1>2. \A u \in Users : /\ Explained(wallets[u], InitialFunds[u])
                       /\ Explained(purse[u], InitialFunds[u])
  BY DEF LedgerInv
<1>3. PurseExplained
  BY <1>2 DEF PurseExplained
<1>4. ASSUME NEW w \in Workers, (Start(w) \/ Step(w)) /\ ~Rollback(w) /\ ~Commit(w)
      PROVE  LedgerInv'
  <2>1. wallets' = wallets /\ PurseExplained'
    BY <1>1, <1>3, <1>4, LedgerStep
  <2>. QED
    BY <1>1, <1>2, <2>1 DEF LedgerInv, PurseExplained
<1>5. ASSUME NEW w \in Workers, Rollback(w)
      PROVE  LedgerInv'
  <2>1. \A u \in Users : purse'[u] \in {purse[u], wallets[u]} /\ wallets' = wallets
    BY <1>5 DEF Rollback
  <2>. QED
    BY <1>1, <1>2, <2>1 DEF LedgerInv
<1>6. ASSUME NEW w \in Workers, Commit(w)
      PROVE  LedgerInv'
  <2>1. \A u \in Users : wallets'[u] \in {purse[u], wallets[u]} /\ purse' = purse
    BY <1>6 DEF Commit
  <2>. QED
    BY <1>1, <1>2, <2>1 DEF LedgerInv
<1>7. CASE UNCHANGED <<orders, draft, owner, wallets, purse, holder, keeper, pc, req, tx>>
  BY <1>1, <1>2, <1>7 DEF LedgerInv
<1>. QED
  BY <1>4, <1>5, <1>6, <1>7, EngineSteps

\* Every wallet can be derived from the ledger at every moment, whatever placements,
\* cancellations, settlements and market cancellations run concurrently, fail or crash:
\* no service moves a balance without its entry or books an entry without moving it.
\* The entries are told apart by type, ORDER_FILL_CREDIT being money that its maker pays;
\* by the directions that the entries carry, the wallets do not come out.
THEOREM ClobLedgerExplains == Spec => []LedgerExplainsWallets
<1>1. LedgerInv => LedgerExplainsWallets
  BY DEF LedgerInv, LedgerExplainsWallets, Explained, Gained, SumFunction
<1>. QED
  BY <1>1, LedgerInit, LedgerNext, PTL DEF Spec

----------------------------------------------------------------------------
(***************************************************************************)
(* Rows and who may write them.                                            *)
(***************************************************************************)

\* A row that nobody has locked has one version.
RowsClean == \A i \in OrderIds : owner[i] = Nobody => draft[i] = orders[i]

\* A step of w writes drafts of rows that it has locked by the end of the step, and
\* that nobody else has.
OwnRows(w) ==
    /\ orders' = orders
    /\ \A i \in OrderIds :
          \/ draft'[i] = draft[i] /\ owner'[i] = owner[i]
          \/ OrderFree(w, i) /\ owner'[i] = w

\* And it leaves the fills of rows alone.
FillsKept ==
    \A i \in OrderIds : /\ draft'[i].filled = draft[i].filled
                        /\ Exists(draft[i]) => draft'[i].ticket = draft[i].ticket

\* A query locks rows, and changes none of them.
LEMMA LockedRows ==
    ASSUME EngineInv, NEW w \in Workers, NEW S, \A i \in S \cap OrderIds : OrderFree(w, i),
           LockAll(w, S), draft' = draft, orders' = orders
    PROVE  OwnRows(w) /\ FillsKept
  BY DEF LockAll, OwnRows, FillsKept

\* A statement that leaves the rows alone.
LEMMA UntouchedRows ==
    ASSUME NEW w \in Workers, UNCHANGED orderVars
    PROVE  OwnRows(w) /\ FillsKept
  BY DEF orderVars, OwnRows, FillsKept

\* A statement that locks one row and writes it, and not its fills.
LEMMA OneRow ==
    ASSUME EngineInv, NEW w \in Workers, NEW i \in OrderIds, OrderFree(w, i), NEW row,
           draft' = [draft EXCEPT ![i] = row], LockOrder(w, i), orders' = orders,
           row.filled = draft[i].filled, Exists(draft[i]) => row.ticket = draft[i].ticket
    PROVE  OwnRows(w) /\ FillsKept
<1>1. /\ draft'[i] = row /\ owner'[i] = w
      /\ \A j \in OrderIds \ {i} : draft'[j] = draft[j] /\ owner'[j] = owner[j]
  BY Typed DEF LockOrder
<1>. QED
  BY <1>1 DEF OwnRows, FillsKept

\* What is left of a placement's own order is cancelled.
LEMMA DroppedRow ==
    ASSUME EngineInv, NEW w \in Workers, req[w].op = "place", tx[w].order \in OrderIds,
           NEW S, \A i \in S \cap OrderIds : OrderFree(w, i), DropRemainder(w, S),
           ~Rollback(w)
    PROVE  OwnRows(w) /\ FillsKept
<1>1. PICK k \in OrderIds : k = tx[w].order
  OBVIOUS
<1>2. draft[k] \in Row /\ owner[k] = w /\ Unfilled(draft[k]) \in Nat
  BY <1>1, OwnRow
<1>3. PICK old \in Row : old = draft[k]
  BY <1>2
<1>4. CancelRemainder(old).filled = old.filled /\ CancelRemainder(old).ticket = old.ticket
  BY <1>2, <1>3, CancelRemainderType
<1>5. PICK row : row = CancelRemainder(old)
  OBVIOUS
<1>6. /\ draft' = [draft EXCEPT ![k] = row] /\ LockAll(w, S) /\ orders' = orders
  BY <1>1, <1>3, <1>5 DEF DropRemainder
<1>7. /\ draft'[k] = row /\ \A j \in OrderIds \ {k} : draft'[j] = draft[j]
      /\ \A j \in OrderIds : owner'[j] = IF j \in S THEN w ELSE owner[j]
  BY <1>6, Typed DEF LockAll
<1>8. OrderFree(w, k) /\ owner'[k] = w
  BY <1>2, <1>7 DEF OrderFree
<1>. QED
  BY <1>3, <1>4, <1>5, <1>6, <1>7, <1>8 DEF OwnRows, FillsKept

\* Of the statements that write rows, only those of fills change what is filled.
LEMMA PlacementRows ==
    ASSUME EngineInv, NEW w \in Workers, PlaceStep(w), ~Rollback(w)
    PROVE  OwnRows(w) /\ (FillsKept \/ \E r \in OrderIds : FillOrder(w, r))
<1>1. CASE Insert(w)
  <2>1. PICK i \in OrderIds :
           /\ IsNextId(i)
           /\ draft' = [draft EXCEPT ![i] = NewRow(req[w].ticket)]
           /\ LockOrder(w, i)
    BY <1>1 DEF Insert
  <2>2. ~Exists(draft[i])
    BY <2>1 DEF IsNextId
  <2>3. draft[i] = NoRow /\ owner[i] = Nobody
    BY <2>2, Typed DEF EngineInv, DraftsExtend, RowOK
  <2>4. NewRow(req[w].ticket).filled = draft[i].filled
    BY <2>3 DEF NewRow, NoRow
  <2>5. OrderFree(w, i)
    BY <2>3 DEF OrderFree
  <2>6. orders' = orders
    BY <1>1 DEF Insert
  <2>7. PICK row : row = NewRow(req[w].ticket)
    OBVIOUS
  <2>. QED
    BY <2>1, <2>2, <2>4, <2>5, <2>6, <2>7, OneRow
<1>2. CASE ReserveFunds(w) \/ CheckPosition(w) \/ CreditSeller(w) \/ StampMarket(w)
  BY <1>2, UntouchedRows, Zenon DEF ReserveFunds, CheckPosition, CreditSeller, StampMarket
<1>3. ASSUME NEW side, NEW direction
      PROVE  \A i \in Lockable(w, side, direction) \cap OrderIds : OrderFree(w, i)
  BY DEF Lockable
<1>4. CASE Scan(w)
  BY <1>3, <1>4, LockedRows DEF Scan
<1>5. CASE Cross(w)
  <2>1. \A i \in CrossRows(w) \cap OrderIds : OrderFree(w, i)
    BY <1>3 DEF CrossRows
  <2>2. req[w].op = "place" /\ tx[w].order \in OrderIds
    BY <1>5, Served DEF Cross
  <2>3. CASE DropRemainder(w, CrossRows(w))
    BY <2>1, <2>2, <2>3, DroppedRow
  <2>4. CASE LockAll(w, CrossRows(w)) /\ UNCHANGED <<orders, draft>>
    BY <2>1, <2>4, LockedRows
  <2>. QED
    BY <1>5, <2>3, <2>4 DEF Cross
<1>6. ASSUME NEW r \in OrderIds, FillOrder(w, r)
      PROVE  OwnRows(w)
  <2>1. req[w].op = "place" /\ tx[w].order \in OrderIds /\ Exists(tx[w].batch[r])
    BY <1>6, Served DEF FillOrder, Fillable, IsFirst, Ids
  <2>2. owner[tx[w].order] = w /\ owner[r] = w
    BY <2>1, OwnRow, LoadedRow
  <2>3. /\ orders' = orders /\ owner' = owner
        /\ \A j \in OrderIds \ {tx[w].order, r} : draft'[j] = draft[j]
    BY <1>6, Typed, Zenon DEF FillOrder
  <2>. QED
    BY <2>2, <2>3 DEF OwnRows, OrderFree
<1>7. CASE FinishPlace(w)
  <2>1. req[w].op = "place" /\ tx[w].order \in OrderIds
    BY <1>7, Served DEF FinishPlace
  <2>2. CASE DropRemainder(w, {})
    BY <2>1, <2>2, DroppedRow
  <2>3. CASE UNCHANGED orderVars
    BY <2>3, UntouchedRows
  <2>. QED
    BY <1>7, <2>2, <2>3 DEF FinishPlace
<1>. QED
  BY <1>1, <1>2, <1>4, <1>5, <1>6, <1>7 DEF PlaceStep

\* A cancellation of a row keeps its fills.
LEMMA CancelledRow ==
    ASSUME EngineInv, NEW w \in Workers, NEW i \in OrderIds, OrderFree(w, i), NEW seen,
           draft' = [draft EXCEPT ![i] = CancelRow(@, seen)], LockOrder(w, i),
           orders' = orders
    PROVE  OwnRows(w) /\ FillsKept
<1>1. PICK old \in Row : old = draft[i]
  BY Typed
<1>2. PICK row : row = CancelRow(old, seen)
  OBVIOUS
<1>3. row.filled = old.filled /\ row.ticket = old.ticket
  BY <1>2 DEF CancelRow, Row
<1>4. draft' = [draft EXCEPT ![i] = row]
  BY <1>1, <1>2
<1>. QED
  BY <1>1, <1>3, <1>4, OneRow

LEMMA RowMoves ==
    ASSUME EngineInv, NEW w \in Workers, Start(w) \/ Step(w), ~Rollback(w), ~Commit(w)
    PROVE  OwnRows(w) /\ (FillsKept \/ \E r \in OrderIds : FillOrder(w, r))
<1>1. CASE Start(w)
  BY <1>1, UntouchedRows DEF Start, StartPlace, StartCancel, StartSettle, StartAnnul
<1>2. CASE PlaceStep(w)
  BY <1>2, PlacementRows
<1>3. CASE CancelOrder(w)
  <2>1. req[w].order \in OrderIds
    BY <1>3, Served DEF CancelOrder
  <2>2. PICK i \in OrderIds : i = req[w].order
    BY <2>1
  <2>3. PICK seen : seen = draft[i]
    OBVIOUS
  <2>4. /\ OrderFree(w, i) /\ LockOrder(w, i) /\ orders' = orders
        /\ draft' = [draft EXCEPT ![i] = CancelRow(@, seen)]
    BY <1>3, <2>2, <2>3 DEF CancelOrder
  <2>. QED
    BY <2>4, CancelledRow
<1>4. CASE Unreserve(w) \/ ReleaseSwept(w)
  BY <1>4, UntouchedRows, Zenon DEF Unreserve, ReleaseSwept, ReleaseFunds
<1>5. ASSUME NEW i \in OrderIds, SweepOrder(w, i) \/ VoidOrder(w, i)
      PROVE  OwnRows(w) /\ FillsKept
  <2>1. PICK seen : seen = tx[w].batch[i]
    OBVIOUS
  <2>2. /\ OrderFree(w, i) /\ LockOrder(w, i) /\ orders' = orders
        /\ draft' = [draft EXCEPT ![i] = CancelRow(@, seen)]
    BY <1>5, <2>1, Zenon DEF SweepOrder, VoidOrder
  <2>. QED
    BY <2>2, CancelledRow
<1>6. CASE \/ Snapshot(w) \/ StartPayout(w) \/ FinishSettle(w)
           \/ \E u \in Users : Assess(w, u) \/ PayWinner(w, u)
  BY <1>6, UntouchedRows DEF Snapshot, StartPayout, FinishSettle, Assess, PayWinner
<1>7. CASE \/ LockForAnnul(w) \/ StartRefund(w) \/ FinishAnnul(w)
           \/ \E i \in OrderIds : LockForVoid(w, i)
           \/ \E u \in Users : Refund(w, u)
  BY <1>7, UntouchedRows DEF LockForAnnul, StartRefund, FinishAnnul, LockForVoid, Refund
<1>. QED
  BY <1>1, <1>2, <1>3, <1>4, <1>5, <1>6, <1>7
     DEF Step, CancelStep, SettleStep, AnnulStep

----------------------------------------------------------------------------
(***************************************************************************)
(* Sums over rows: what is committed, and what a transaction would add.    *)
(* f gives every row its part in the sum.                                  *)
(***************************************************************************)

Booked(f) == SumFunctionOnSet([i \in OrderIds |-> f[orders[i]]], OrderIds)

Change(f, w) == [i \in OrderIds |-> IF owner[i] = w THEN f[draft[i]] - f[orders[i]] ELSE 0]

Pending(f, w) == SumFunctionOnSet(Change(f, w), OrderIds)

\* The sums are integers.
LEMMA RowSums ==
    ASSUME EngineInv, NEW f \in [Row -> Int]
    PROVE  /\ IsFiniteSet(OrderIds)
           /\ \A i \in OrderIds : f[orders[i]] \in Int /\ f[draft[i]] \in Int
           /\ \A w \in Workers, i \in OrderIds : Change(f, w)[i] \in Int
           /\ Booked(f) \in Int
           /\ \A w \in Workers : Pending(f, w) \in Int
<1>1. IsFiniteSet(OrderIds)
  BY MaxOrdersAssumption, FS_Interval DEF OrderIds
<1>2. \A i \in OrderIds : f[orders[i]] \in Int /\ f[draft[i]] \in Int
  BY Typed
<1>3. \A w \in Workers, i \in OrderIds : Change(f, w)[i] \in Int
  BY <1>2 DEF Change
<1>4. Booked(f) \in Int
  <2> DEFINE g == [i \in OrderIds |-> f[orders[i]]]
  <2>1. \A i \in OrderIds : g[i] \in Int
    BY <1>2
  <2> HIDE DEF g
  <2>2. SumFunctionOnSet(g, OrderIds) \in Int
    BY <1>1, <2>1, SumInt
  <2>. QED
    BY <2>2 DEF Booked, g
<1>5. \A w \in Workers : Pending(f, w) \in Int
  BY <1>1, <1>3, SumInt DEF Pending
<1>. QED
  BY <1>1, <1>2, <1>3, <1>4, <1>5

\* The rows of a worker that others' steps leave alone.
RowsLeft(v) ==
    \A i \in OrderIds : /\ owner'[i] = v <=> owner[i] = v
                        /\ owner[i] = v => draft'[i] = draft[i] /\ orders'[i] = orders[i]

LEMMA BystanderPending ==
    ASSUME EngineInv, EngineInv', NEW v \in Workers, RowsLeft(v), NEW f \in [Row -> Int]
    PROVE  Pending(f, v)' = Pending(f, v)
<1>1. PICK a : a = Change(f, v)
  OBVIOUS
<1>2. PICK b : b = Change(f, v)'
  OBVIOUS
<1>3. \A i \in OrderIds : a[i] = b[i]
  BY <1>1, <1>2 DEF Change, RowsLeft
<1>4. IsFiniteSet(OrderIds)
  BY RowSums
<1>5. SumFunctionOnSet(a, OrderIds) = SumFunctionOnSet(b, OrderIds)
  BY <1>3, <1>4, SumEqual
<1>. QED
  BY <1>1, <1>2, <1>5 DEF Pending

\* A worker that holds no row adds nothing.
LEMMA IdlePending ==
    ASSUME EngineInv', NEW v \in Workers, \A i \in OrderIds : owner'[i] # v,
           NEW f \in [Row -> Int]
    PROVE  Pending(f, v)' = 0
<1>1. PICK b : b = Change(f, v)'
  OBVIOUS
<1>2. \A i \in OrderIds : b[i] = 0
  BY <1>1 DEF Change
<1>3. IsFiniteSet(OrderIds)
  BY MaxOrdersAssumption, FS_Interval DEF OrderIds
<1>4. SumFunctionOnSet(b, OrderIds) = 0
  BY <1>2, <1>3, SumZero
<1>. QED
  BY <1>1, <1>4 DEF Pending

\* A commit adds what was pending to what is committed.
LEMMA CommitBooks ==
    ASSUME EngineInv, NEW w \in Workers, Commit(w), NEW f \in [Row -> Int]
    PROVE  Booked(f)' = Booked(f) + Pending(f, w)
<1>1. PICK a : a = [i \in OrderIds |-> f[orders[i]]]
  OBVIOUS
<1>2. PICK b : b = Change(f, w)
  OBVIOUS
<1>3. PICK c : c = [i \in OrderIds |-> f[orders'[i]]]
  OBVIOUS
<1>4. \A i \in OrderIds : a[i] \in Int /\ b[i] \in Int
  BY <1>1, <1>2, RowSums
<1>5. \A i \in OrderIds : c[i] = a[i] + b[i]
  <2> SUFFICES ASSUME NEW i \in OrderIds PROVE c[i] = a[i] + b[i]
    OBVIOUS
  <2>1. orders'[i] = IF owner[i] = w THEN draft[i] ELSE orders[i]
    BY DEF Commit
  <2>2. f[draft[i]] \in Int /\ f[orders[i]] \in Int
    BY RowSums
  <2>3. c[i] = f[orders'[i]] /\ a[i] = f[orders[i]]
    BY <1>1, <1>3
  <2>4. b[i] = IF owner[i] = w THEN f[draft[i]] - f[orders[i]] ELSE 0
    BY <1>2 DEF Change
  <2>. QED
    BY <2>1, <2>2, <2>3, <2>4
<1>6. IsFiniteSet(OrderIds)
  BY RowSums
<1>7. SumFunctionOnSet(c, OrderIds) = SumFunctionOnSet(a, OrderIds) + SumFunctionOnSet(b, OrderIds)
  BY <1>4, <1>5, <1>6, SumPlus
<1>. QED
  BY <1>1, <1>2, <1>3, <1>7 DEF Booked, Pending

\* What w's own step adds at one row is what it changes there.
LEMMA OwnChange ==
    ASSUME EngineInv, EngineInv', RowsClean, NEW w \in Workers, OwnRows(w),
           NEW f \in [Row -> Int], NEW i \in OrderIds
    PROVE  Change(f, w)'[i] = Change(f, w)[i] + (f[draft'[i]] - f[draft[i]])
<1>1. f[draft[i]] \in Int /\ f[orders[i]] \in Int /\ f[draft'[i]] \in Int
  <2>1. draft'[i] \in Row
    BY DEF EngineInv, TypeOK
  <2>. QED
    BY <2>1, RowSums
<1>2. orders'[i] = orders[i]
  BY DEF OwnRows
<1>3. Change(f, w)[i] = IF owner[i] = w THEN f[draft[i]] - f[orders[i]] ELSE 0
  BY DEF Change
<1>4. Change(f, w)'[i] = IF owner'[i] = w THEN f[draft'[i]] - f[orders'[i]] ELSE 0
  BY DEF Change
<1>5. CASE draft'[i] = draft[i] /\ owner'[i] = owner[i]
  BY <1>1, <1>2, <1>3, <1>4, <1>5
<1>6. CASE owner[i] = w /\ owner'[i] = w
  BY <1>1, <1>2, <1>3, <1>4, <1>6
<1>7. CASE owner[i] = Nobody /\ owner'[i] = w
  <2>1. owner[i] # w /\ draft[i] = orders[i]
    BY <1>7, NobodyAssumption DEF RowsClean
  <2>. QED
    BY <1>1, <1>2, <1>3, <1>4, <1>7, <2>1
<1>. QED
  BY <1>5, <1>6, <1>7 DEF OwnRows, OrderFree

\* A step that changes f at no row adds nothing.
LEMMA SamePending ==
    ASSUME EngineInv, EngineInv', RowsClean, NEW w \in Workers, OwnRows(w),
           NEW f \in [Row -> Int], \A i \in OrderIds : f[draft'[i]] = f[draft[i]]
    PROVE  Pending(f, w)' = Pending(f, w)
<1>1. PICK a : a = Change(f, w)
  OBVIOUS
<1>2. PICK b : b = Change(f, w)'
  OBVIOUS
<1>3. \A i \in OrderIds : a[i] = b[i]
  <2> SUFFICES ASSUME NEW i \in OrderIds PROVE a[i] = b[i]
    OBVIOUS
  <2>1. b[i] = a[i] + (f[draft'[i]] - f[draft[i]])
    BY <1>1, <1>2, OwnChange
  <2>2. f[draft[i]] \in Int /\ a[i] \in Int
    BY <1>1, RowSums
  <2>. QED
    BY <2>1, <2>2
<1>4. IsFiniteSet(OrderIds)
  BY RowSums
<1>5. SumFunctionOnSet(a, OrderIds) = SumFunctionOnSet(b, OrderIds)
  BY <1>3, <1>4, SumEqual
<1>. QED
  BY <1>1, <1>2, <1>5 DEF Pending

\* A step that changes f at one row, or at two.
LEMMA OnePending ==
    ASSUME EngineInv, EngineInv', RowsClean, NEW w \in Workers, OwnRows(w),
           NEW f \in [Row -> Int], NEW k \in OrderIds,
           \A i \in OrderIds \ {k} : f[draft'[i]] = f[draft[i]]
    PROVE  Pending(f, w)' = Pending(f, w) + (f[draft'[k]] - f[draft[k]])
<1>1. PICK a : a = Change(f, w)
  OBVIOUS
<1>2. PICK b : b = Change(f, w)'
  OBVIOUS
<1>3. \A i \in OrderIds : /\ b[i] = a[i] + (f[draft'[i]] - f[draft[i]])
                          /\ a[i] \in Int /\ f[draft[i]] \in Int /\ f[draft'[i]] \in Int
  <2> SUFFICES ASSUME NEW i \in OrderIds
               PROVE  /\ b[i] = a[i] + (f[draft'[i]] - f[draft[i]])
                      /\ a[i] \in Int /\ f[draft[i]] \in Int /\ f[draft'[i]] \in Int
    OBVIOUS
  <2>1. b[i] = a[i] + (f[draft'[i]] - f[draft[i]])
    BY <1>1, <1>2, OwnChange
  <2>2. f[draft[i]] \in Int /\ a[i] \in Int
    BY <1>1, RowSums
  <2>3. draft'[i] \in Row
    BY DEF EngineInv, TypeOK
  <2>. QED
    BY <2>1, <2>2, <2>3
<1>4. IsFiniteSet(OrderIds)
  BY RowSums
<1>5. \A i \in OrderIds : a[i] \in Int /\ b[i] \in Int
  BY <1>3
<1>6. \A i \in OrderIds \ {k} : b[i] = a[i]
  BY <1>3
<1>7. SumFunctionOnSet(b, OrderIds) = SumFunctionOnSet(a, OrderIds) + (b[k] - a[k])
  BY <1>4, <1>5, <1>6, SumChanged
<1>8. b[k] - a[k] = f[draft'[k]] - f[draft[k]]
  BY <1>3
<1>. QED
  BY <1>1, <1>2, <1>7, <1>8 DEF Pending

LEMMA TwoPending ==
    ASSUME EngineInv, EngineInv', RowsClean, NEW w \in Workers, OwnRows(w),
           NEW f \in [Row -> Int], NEW k \in OrderIds, NEW l \in OrderIds, k # l,
           \A i \in OrderIds \ {k, l} : f[draft'[i]] = f[draft[i]]
    PROVE  Pending(f, w)' = Pending(f, w) + (f[draft'[k]] - f[draft[k]])
                                          + (f[draft'[l]] - f[draft[l]])
<1>1. PICK a : a = Change(f, w)
  OBVIOUS
<1>2. PICK b : b = Change(f, w)'
  OBVIOUS
<1>3. \A i \in OrderIds : /\ b[i] = a[i] + (f[draft'[i]] - f[draft[i]])
                          /\ a[i] \in Int /\ f[draft[i]] \in Int /\ f[draft'[i]] \in Int
  <2> SUFFICES ASSUME NEW i \in OrderIds
               PROVE  /\ b[i] = a[i] + (f[draft'[i]] - f[draft[i]])
                      /\ a[i] \in Int /\ f[draft[i]] \in Int /\ f[draft'[i]] \in Int
    OBVIOUS
  <2>1. b[i] = a[i] + (f[draft'[i]] - f[draft[i]])
    BY <1>1, <1>2, OwnChange
  <2>2. f[draft[i]] \in Int /\ a[i] \in Int
    BY <1>1, RowSums
  <2>3. draft'[i] \in Row
    BY DEF EngineInv, TypeOK
  <2>. QED
    BY <2>1, <2>2, <2>3
<1>4. IsFiniteSet(OrderIds)
  BY RowSums
<1> DEFINE c == [i \in OrderIds |-> IF i = k THEN b[k] ELSE a[i]]
<1>5. \A i \in OrderIds : a[i] \in Int /\ b[i] \in Int /\ c[i] \in Int
  BY <1>3
<1>6. c[k] = b[k] /\ c[l] = a[l] /\ \A i \in OrderIds \ {k} : c[i] = a[i]
  OBVIOUS
<1>7. \A i \in OrderIds \ {l} : b[i] = c[i]
  BY <1>3
<1> HIDE DEF c
<1>8. SumFunctionOnSet(c, OrderIds) = SumFunctionOnSet(a, OrderIds) + (c[k] - a[k])
  BY <1>4, <1>5, <1>6, SumChanged
<1>9. SumFunctionOnSet(b, OrderIds) = SumFunctionOnSet(c, OrderIds) + (b[l] - c[l])
  BY <1>4, <1>5, <1>7, SumChanged
<1>10. c[k] - a[k] = f[draft'[k]] - f[draft[k]] /\ b[l] - c[l] = f[draft'[l]] - f[draft[l]]
  BY <1>3, <1>6
<1>. QED
  BY <1>1, <1>2, <1>8, <1>9, <1>10 DEF Pending

----------------------------------------------------------------------------
(***************************************************************************)
(* Contracts.                                                              *)
(***************************************************************************)

\* The contracts of a market's side that the fills of a row brought its owner.
Contracts(m, side) ==
    [row \in Row |->
        IF row.ticket.market = m /\ row.ticket.side = side
        THEN IF Buys(row.ticket) THEN row.filled ELSE -row.filled
        ELSE 0]

LEMMA ContractsType ==
    ASSUME NEW m, NEW side
    PROVE  Contracts(m, side) \in [Row -> Int]
<1>1. \A row \in Row : row.filled \in Int /\ -row.filled \in Int
  BY DEF Row
<1>. QED
  BY <1>1 DEF Contracts

\* The net position of a user is the sum over the user's rows.
LEMMA PositionSum ==
    ASSUME NEW rows \in [OrderIds -> Row], \A i \in OrderIds : RowOK(rows[i]),
           NEW u, NEW m, NEW side
    PROVE  NetPosition(rows, u, m, side)
             = SumFunctionOnSet([i \in OrderIds |-> Contracts(m, side)[rows[i]]],
                                {i \in OrderIds : rows[i].ticket.user = u})
<1> DEFINE Mine == {i \in OrderIds : rows[i].ticket.user = u}
           B == OrdersOf(rows, u, m, side, "buy")
           S == OrdersOf(rows, u, m, side, "sell")
           c == [i \in OrderIds |-> Contracts(m, side)[rows[i]]]
           fills == Fills(rows)
           fb == [i \in OrderIds |-> IF i \in B THEN fills[i] ELSE 0]
           fs == [i \in OrderIds |-> IF i \in S THEN fills[i] ELSE 0]
<1>1. IsFiniteSet(Mine)
  <2>1. IsFiniteSet(OrderIds) /\ Mine \in SUBSET OrderIds
    BY MaxOrdersAssumption, FS_Interval DEF OrderIds
  <2>. QED
    BY <2>1, FS_Subset
<1>2. B \in SUBSET Mine /\ S \in SUBSET Mine
  BY DEF OrdersOf, Ids
<1>3. \A i \in OrderIds : fills[i] = rows[i].filled /\ fills[i] \in Nat
  BY DEF Fills, Row
<1>4. \A i \in Mine : /\ c[i] \in Int /\ fs[i] \in Int /\ fb[i] \in Int
                      /\ fb[i] = c[i] + fs[i]
  <2> SUFFICES ASSUME NEW i \in Mine
               PROVE  /\ c[i] \in Int /\ fs[i] \in Int /\ fb[i] \in Int
                      /\ fb[i] = c[i] + fs[i]
    OBVIOUS
  <2>1. PICK row \in Row : row = rows[i]
    OBVIOUS
  <2>2. row.ticket.direction \in {"buy", "sell"} /\ row.filled \in Nat
    BY TicketType DEF Row
  <2>3. c[i] = IF row.ticket.market = m /\ row.ticket.side = side
               THEN IF Buys(row.ticket) THEN row.filled ELSE -row.filled
               ELSE 0
    BY <2>1 DEF Contracts
  <2>4. i \in B <=> /\ Exists(row) /\ row.ticket.market = m /\ row.ticket.side = side
                    /\ row.ticket.direction = "buy"
    BY <2>1 DEF OrdersOf, Ids
  <2>5. i \in S <=> /\ Exists(row) /\ row.ticket.market = m /\ row.ticket.side = side
                    /\ row.ticket.direction = "sell"
    BY <2>1 DEF OrdersOf, Ids
  <2>6. ~Exists(row) => row.filled = 0
    BY <2>1 DEF RowOK, NoRow
  <2>7. fills[i] = row.filled
    BY <1>3, <2>1
  <2>8. /\ fb[i] = IF i \in B THEN fills[i] ELSE 0
        /\ fs[i] = IF i \in S THEN fills[i] ELSE 0
    OBVIOUS
  <2> HIDE DEF c, fb, fs, B, S, fills, Mine
  <2>. QED
    BY <2>2, <2>3, <2>4, <2>5, <2>6, <2>7, <2>8 DEF Buys
<1>5. SumFunctionOnSet(fills, B) = SumFunctionOnSet(fb, Mine)
  <2>1. \A i \in B : fills[i] \in Int /\ fb[i] = fills[i]
    BY <1>2, <1>3
  <2>2. \A i \in Mine \ B : fb[i] = 0
    OBVIOUS
  <2> HIDE DEF fills, fb, B, Mine
  <2>. QED
    BY <1>1, <1>2, <2>1, <2>2, SumOfSome
<1>6. SumFunctionOnSet(fills, S) = SumFunctionOnSet(fs, Mine)
  <2>1. \A i \in S : fills[i] \in Int /\ fs[i] = fills[i]
    BY <1>2, <1>3
  <2>2. \A i \in Mine \ S : fs[i] = 0
    OBVIOUS
  <2> HIDE DEF fills, fs, S, Mine
  <2>. QED
    BY <1>1, <1>2, <2>1, <2>2, SumOfSome
<1>7. NetPosition(rows, u, m, side) = SumFunctionOnSet(fills, B) - SumFunctionOnSet(fills, S)
  BY DEF NetPosition
<1> HIDE DEF fills, fb, fs, B, S, Mine, c
<1>8. SumFunctionOnSet(fb, Mine) = SumFunctionOnSet(c, Mine) + SumFunctionOnSet(fs, Mine)
  BY <1>1, <1>4, SumPlus
<1>9. SumFunctionOnSet(c, Mine) \in Int /\ SumFunctionOnSet(fs, Mine) \in Int
  BY <1>1, <1>4, SumInt
<1>10. NetPosition(rows, u, m, side) = SumFunctionOnSet(c, Mine)
  BY <1>5, <1>6, <1>7, <1>8, <1>9
<1>. QED
  BY <1>10 DEF c, Mine

\* The contracts that users hold are those that the committed fills brought them.
LEMMA OutstandingSum ==
    ASSUME EngineInv, NEW m \in Markets, NEW side \in Sides
    PROVE  Outstanding(m, side) = Booked(Contracts(m, side))
<1> DEFINE c == [i \in OrderIds |-> Contracts(m, side)[orders[i]]]
           key == [i \in OrderIds |-> orders[i].ticket.user]
<1>1. \A i \in OrderIds : c[i] \in Int /\ key[i] \in Users
  <2>1. PICK f \in [Row -> Int] : f = Contracts(m, side)
    BY ContractsType
  <2>2. \A i \in OrderIds : f[orders[i]] \in Int /\ orders[i].ticket.user \in Users
    BY Typed, TicketType DEF Row
  <2>. QED
    BY <2>1, <2>2
<1>2. IsFiniteSet(OrderIds) /\ IsFiniteSet(Users)
  BY MaxOrdersAssumption, FS_Interval, FiniteAssumption DEF OrderIds
<1>3. \A u \in Users : Position(u, m, side)
                         = SumFunctionOnSet(c, {i \in OrderIds : key[i] = u})
  <2> SUFFICES ASSUME NEW u \in Users
               PROVE  Position(u, m, side) = SumFunctionOnSet(c, {i \in OrderIds : key[i] = u})
    OBVIOUS
  <2>1. PICK rows \in [OrderIds -> Row] : rows = orders /\ \A i \in OrderIds : RowOK(rows[i])
    BY Typed DEF EngineInv, DraftsExtend
  <2> DEFINE Mine == {i \in OrderIds : rows[i].ticket.user = u}
             d == [i \in OrderIds |-> Contracts(m, side)[rows[i]]]
  <2>2. NetPosition(rows, u, m, side) = SumFunctionOnSet(d, Mine)
    BY <2>1, PositionSum
  <2>3. Mine = {i \in OrderIds : key[i] = u} /\ d = c
    BY <2>1
  <2> HIDE DEF Mine, d, c, key
  <2>. QED
    BY <2>1, <2>2, <2>3 DEF Position
<1> HIDE DEF c, key
<1>4. Outstanding(m, side)
        = SumFunctionOnSet([u \in Users |-> SumFunctionOnSet(c, {i \in OrderIds : key[i] = u})],
                           Users)
  BY <1>3 DEF Outstanding, SumFunction
<1>5. Outstanding(m, side) = SumFunctionOnSet(c, OrderIds)
  BY <1>1, <1>2, <1>4, SumByKey
<1>. QED
  BY <1>5 DEF c, Booked

\* The rows loaded by a placement are those it may trade with: of its market, and such
\* that a fill makes a pair of contracts, or moves one from a seller to a buyer.
Counterpart(t, other) ==
    /\ other.market = t.market
    /\ \/ /\ Buys(t) # Buys(other)
          /\ other.side = t.side
       \/ /\ Buys(t) /\ Buys(other)
          /\ other.side = Opposite(t.side)

Counterparts(w) ==
    req[w].op = "place" =>
        \A j \in OrderIds :
            Exists(tx[w].batch[j]) => Counterpart(req[w].ticket, tx[w].batch[j].ticket)

LEMMA ListedCounterpart ==
    ASSUME EngineInv, NEW w \in Workers, req[w].ticket \in Tickets, NEW j \in OrderIds,
           \/ Buys(req[w].ticket) /\ j \in Lockable(w, req[w].ticket.side, "sell")
           \/ j \in CrossRows(w)
    PROVE  Counterpart(req[w].ticket, draft[j].ticket)
<1>1. PICK t \in Tickets : t = req[w].ticket
  OBVIOUS
<1>2. PICK other \in Tickets : other = draft[j].ticket
  BY Typed DEF Row
<1>3. t.direction \in {"buy", "sell"} /\ other.direction \in {"buy", "sell"}
  BY TicketType
<1>4. CASE Buys(t) /\ j \in Lockable(w, t.side, "sell")
  <2>1. other.market = t.market /\ other.side = t.side /\ other.direction = "sell"
    BY <1>1, <1>2, <1>4 DEF Lockable, Listed
  <2>. QED
    BY <1>1, <1>2, <1>4, <2>1 DEF Counterpart, Buys
<1>5. CASE j \in CrossRows(w)
  <2>1. /\ other.market = t.market /\ other.direction = "buy"
        /\ other.side = IF Buys(t) THEN Opposite(t.side) ELSE t.side
    BY <1>1, <1>2, <1>5 DEF CrossRows, Lockable, Listed
  <2>. QED
    BY <1>1, <1>2, <1>3, <2>1 DEF Counterpart, Buys
<1>. QED
  BY <1>1, <1>4, <1>5

\* A step of a placement keeps to its counterparts.
LEMMA PlacementCounterparts ==
    ASSUME EngineInv, NEW w \in Workers, PlaceStep(w), ~Rollback(w), Counterparts(w)
    PROVE  Counterparts(w)'
<1>1. req[w].op = "place" /\ req[w].ticket \in Tickets
  BY Served DEF PlaceStep, Insert, ReserveFunds, CheckPosition, Scan, Cross, FillOrder,
                CreditSeller, StampMarket, FinishPlace
<1>2. req'[w] = req[w]
  BY Zenon DEF PlaceStep, Insert, ReserveFunds, CheckPosition, Scan, Cross, FillOrder,
         CreditSeller, StampMarket, FinishPlace, DropRemainder
<1>3. PICK t \in Tickets : t = req[w].ticket
  BY <1>1
<1>4. SUFFICES ASSUME NEW j \in OrderIds, Exists(tx'[w].batch[j])
               PROVE  Counterpart(t, tx'[w].batch[j].ticket)
  BY <1>2, <1>3 DEF Counterparts
<1>5. Exists(tx[w].batch[j]) => Counterpart(t, tx[w].batch[j].ticket)
  BY <1>1, <1>3 DEF Counterparts
<1>6. tx \in [Workers -> TxType] /\ tx[w].batch \in [OrderIds -> Row]
  BY Typed DEF TxType
<1>7. CASE tx'[w].batch = tx[w].batch
  BY <1>4, <1>5, <1>7
<1>8. CASE Scan(w)
  <2>1. PICK S : S = Lockable(w, t.side, "sell")
    OBVIOUS
  <2>2. tx'[w].batch = Loaded(NoBatch, S) /\ Buys(t)
    BY <1>3, <1>6, <1>8, <2>1, Served DEF Scan, TxType
  <2>3. j \in S /\ tx'[w].batch[j] = draft[j]
    BY <1>4, <2>2, NoRowType DEF Loaded, NoBatch
  <2>. QED
    BY <1>1, <1>3, <2>1, <2>2, <2>3, ListedCounterpart
<1>9. CASE Cross(w)
  <2>1. \/ tx'[w].batch = tx[w].batch
        \/ tx'[w].batch = NoBatch
        \/ tx'[w].batch = Loaded(tx[w].batch, CrossRows(w))
    BY <1>6, <1>9 DEF Cross, DropRemainder, TxType
  <2>2. CASE tx'[w].batch = NoBatch
    BY <1>4, <2>2, NoRowType DEF NoBatch
  <2>3. CASE tx'[w].batch = Loaded(tx[w].batch, CrossRows(w))
    <3>1. CASE j \in CrossRows(w)
      <4>1. tx'[w].batch[j] = draft[j]
        BY <2>3, <3>1 DEF Loaded
      <4>. QED
        BY <1>1, <1>3, <3>1, <4>1, ListedCounterpart
    <3>2. CASE j \notin CrossRows(w)
      <4>1. tx'[w].batch[j] = tx[w].batch[j]
        BY <2>3, <3>2 DEF Loaded
      <4>. QED
        BY <1>4, <1>5, <4>1
    <3>. QED
      BY <3>1, <3>2
  <2>. QED
    BY <1>7, <2>1, <2>2, <2>3
<1>10. ASSUME NEW r \in OrderIds, FillOrder(w, r)
       PROVE  Counterpart(t, tx'[w].batch[j].ticket)
  <2>1. tx' = tx \/ \E due : tx' = [tx EXCEPT ![w].batch[r] = NoRow, ![w].due = due]
    BY <1>6, <1>10 DEF FillOrder
  <2>2. tx'[w].batch[j] \in {NoRow, tx[w].batch[j]}
    BY <1>6, <2>1 DEF TxType
  <2>. QED
    BY <1>4, <1>5, <2>2, NoRowType
<1>11. CASE Insert(w)
  BY <1>6, <1>7, <1>11 DEF Insert, TxType
<1>12. CASE ReserveFunds(w) \/ CheckPosition(w)
  BY <1>7, <1>12 DEF ReserveFunds, CheckPosition
<1>13. CASE CreditSeller(w) \/ StampMarket(w)
  BY <1>6, <1>7, <1>13, Zenon DEF CreditSeller, StampMarket, TxType
<1>14. CASE FinishPlace(w)
  BY <1>7, <1>14 DEF FinishPlace, DropRemainder
<1>. QED
  BY <1>8, <1>9, <1>10, <1>11, <1>12, <1>13, <1>14 DEF PlaceStep

\* Other requests load rows for other reasons.
LEMMA OtherCounterparts ==
    ASSUME EngineInv, NEW w \in Workers, ~Rollback(w),
           Start(w) \/ CancelStep(w) \/ SettleStep(w) \/ AnnulStep(w)
    PROVE  Counterparts(w)'
<1>1. CASE Start(w)
  <2>1. tx'[w] = NoTx
    BY <1>1, Served DEF Start, StartPlace, StartCancel, StartSettle, StartAnnul
  <2>. QED
    BY <2>1, NoRowType DEF Counterparts, NoTx, NoBatch
<1>2. CASE CancelStep(w) \/ SettleStep(w) \/ AnnulStep(w)
  <2>1. req[w].op # "place" /\ req'[w] = req[w]
    <3>1. CASE CancelStep(w)
      BY <3>1, Served DEF CancelStep, CancelOrder, Unreserve, ReleaseFunds
    <3>2. CASE SettleStep(w)
      BY <3>2, Served, Zenon DEF SettleStep, Snapshot, SweepOrder, ReleaseSwept, ReleaseFunds,
                          StartPayout, Assess, PayWinner, FinishSettle
    <3>3. CASE AnnulStep(w)
      BY <3>3, Served, Zenon DEF AnnulStep, LockForAnnul, LockForVoid, VoidOrder, StartRefund,
                          Refund, FinishAnnul
    <3>. QED
      BY <1>2, <3>1, <3>2, <3>3
  <2>. QED
    BY <2>1 DEF Counterparts
<1>. QED
  BY <1>1, <1>2

----------------------------------------------------------------------------
(***************************************************************************)
(* What the steps of one worker leave to the others.                       *)
(***************************************************************************)

\* The local variables of the others.
LEMMA OthersLocal ==
    ASSUME EngineInv, NEW w \in Workers,
           Start(w) \/ Step(w) \/ Rollback(w) \/ Commit(w), NEW v \in Workers \ {w}
    PROVE  pc'[v] = pc[v] /\ req'[v] = req[v] /\ tx'[v] = tx[v]
<1>1. pc \in [Workers -> Statement] /\ req \in [Workers -> Request]
      /\ tx \in [Workers -> TxType]
  BY Typed
<1>2. CASE Rollback(w) \/ Commit(w)
  BY <1>1, <1>2 DEF Rollback, Commit, EndRequest, Goto
<1>3. CASE Start(w)
  BY <1>1, <1>3 DEF Start, StartPlace, StartCancel, StartSettle, StartAnnul, Goto
<1>4. CASE PlaceStep(w) /\ ~Rollback(w)
  <2>1. CASE Insert(w) \/ ReserveFunds(w) \/ CheckPosition(w)
    BY <1>1, <1>4, <2>1 DEF Insert, ReserveFunds, CheckPosition, Goto
  <2>2. CASE Scan(w) \/ Cross(w)
    BY <1>1, <1>4, <2>2 DEF Scan, Cross, DropRemainder, Goto
  <2>3. CASE \E r \in OrderIds : FillOrder(w, r)
    BY <1>1, <1>4, <2>3 DEF FillOrder, Goto
  <2>4. CASE CreditSeller(w) \/ StampMarket(w) \/ FinishPlace(w)
    BY <1>1, <1>4, <2>4, Zenon DEF CreditSeller, StampMarket, FinishPlace, DropRemainder, Goto
  <2>. QED
    BY <1>4, <2>1, <2>2, <2>3, <2>4 DEF PlaceStep
<1>5. CASE CancelStep(w) /\ ~Rollback(w)
  BY <1>1, <1>5 DEF CancelStep, CancelOrder, Unreserve, ReleaseFunds, Goto
<1>6. CASE SettleStep(w) /\ ~Rollback(w)
  BY <1>1, <1>6 DEF SettleStep, Snapshot, SweepOrder, ReleaseSwept, ReleaseFunds,
                    StartPayout, Assess, PayWinner, FinishSettle, Goto
<1>7. CASE AnnulStep(w) /\ ~Rollback(w)
  BY <1>1, <1>7, Zenon DEF AnnulStep, LockForAnnul, LockForVoid, VoidOrder, StartRefund, Refund,
                    FinishAnnul, Goto
<1>. QED
  BY <1>2, <1>3, <1>4, <1>5, <1>6, <1>7 DEF Step

\* The rows of the others.
LEMMA OthersRows ==
    ASSUME EngineInv, NEW w \in Workers, OwnRows(w) \/ Rollback(w) \/ Commit(w),
           NEW v \in Workers \ {w}
    PROVE  RowsLeft(v)
<1>1. CASE OwnRows(w)
  BY <1>1, NobodyAssumption DEF OwnRows, RowsLeft, OrderFree
<1>2. CASE Rollback(w)
  BY <1>2, NobodyAssumption DEF Rollback, Unlock, RowsLeft
<1>3. CASE Commit(w)
  BY <1>3, NobodyAssumption DEF Commit, Unlock, RowsLeft
<1>. QED
  BY <1>1, <1>2, <1>3

\* Rows that nobody holds stay of one version.
LEMMA CleanNext ==
    ASSUME EngineInv, RowsClean, NEW w \in Workers, OwnRows(w) \/ Rollback(w) \/ Commit(w)
    PROVE  RowsClean'
<1>1. CASE OwnRows(w)
  BY <1>1, NobodyAssumption DEF OwnRows, RowsClean, OrderFree
<1>2. CASE Rollback(w)
  BY <1>2, NobodyAssumption DEF Rollback, Unlock, RowsClean
<1>3. CASE Commit(w)
  BY <1>3, NobodyAssumption DEF Commit, Unlock, RowsClean
<1>. QED
  BY <1>1, <1>2, <1>3

\* A request that has ended holds nothing.
LEMMA EndedRows ==
    ASSUME NEW w \in Workers, Rollback(w) \/ Commit(w)
    PROVE  \A i \in OrderIds : owner'[i] # w
  BY NobodyAssumption DEF Rollback, Commit, Unlock

----------------------------------------------------------------------------
(***************************************************************************)
(* Contracts exist in pairs.                                               *)
(***************************************************************************)

\* By how much the YES contracts of a row exceed its NO contracts.
Tilt(m) == [row \in Row |-> Contracts(m, "YES")[row] - Contracts(m, "NO")[row]]

RowsInv ==
    /\ EngineInv
    /\ RowsClean
    /\ \A w \in Workers : Counterparts(w)

PairInv ==
    /\ RowsInv
    /\ \A m \in Markets : /\ Booked(Tilt(m)) = 0
                          /\ \A w \in Workers : Pending(Tilt(m), w) = 0

LEMMA TiltType ==
    ASSUME NEW m
    PROVE  /\ Tilt(m) \in [Row -> Int]
           /\ \A row \in Row :
                 Tilt(m)[row] = IF row.ticket.market # m THEN 0
                                ELSE IF row.ticket.side = "YES" <=> Buys(row.ticket)
                                     THEN row.filled ELSE -row.filled
<1>1. ASSUME NEW row \in Row
      PROVE  /\ Tilt(m)[row] = IF row.ticket.market # m THEN 0
                               ELSE IF row.ticket.side = "YES" <=> Buys(row.ticket)
                                    THEN row.filled ELSE -row.filled
             /\ Tilt(m)[row] \in Int
  <2>1. row.ticket.side \in {"YES", "NO"} /\ row.filled \in Int
    BY TicketType DEF Row, Sides
  <2>2. Tilt(m)[row] = Contracts(m, "YES")[row] - Contracts(m, "NO")[row]
    BY DEF Tilt
  <2>3. /\ Contracts(m, "YES")[row]
             = IF row.ticket.market = m /\ row.ticket.side = "YES"
               THEN IF Buys(row.ticket) THEN row.filled ELSE -row.filled ELSE 0
        /\ Contracts(m, "NO")[row]
             = IF row.ticket.market = m /\ row.ticket.side = "NO"
               THEN IF Buys(row.ticket) THEN row.filled ELSE -row.filled ELSE 0
    BY DEF Contracts
  <2>4. CASE row.ticket.market # m
    BY <2>2, <2>3, <2>4
  <2>5. CASE row.ticket.market = m /\ row.ticket.side = "YES"
    <3>1. CASE Buys(row.ticket)
      BY <2>1, <2>2, <2>3, <2>5, <3>1
    <3>2. CASE ~Buys(row.ticket)
      BY <2>1, <2>2, <2>3, <2>5, <3>2
    <3>. QED
      BY <3>1, <3>2
  <2>6. CASE row.ticket.market = m /\ row.ticket.side = "NO"
    <3>1. CASE Buys(row.ticket)
      BY <2>1, <2>2, <2>3, <2>6, <3>1
    <3>2. CASE ~Buys(row.ticket)
      BY <2>1, <2>2, <2>3, <2>6, <3>2
    <3>. QED
      BY <3>1, <3>2
  <2>. QED
    BY <2>1, <2>4, <2>5, <2>6
<1>2. Tilt(m) = [row \in Row |-> Tilt(m)[row]]
  BY DEF Tilt
<1>. QED
  BY <1>1, <1>2

\* The two rows after a fill.
LEMMA FilledRows ==
    ASSUME EngineInv, NEW w \in Workers, NEW r \in OrderIds, FillOrder(w, r), ~Rollback(w)
    PROVE  \E k \in OrderIds, q \in Nat, t \in Tickets, own \in Row, resting \in Row :
              /\ k = tx[w].order /\ k # r /\ t = req[w].ticket
              /\ own = draft[k] /\ resting = draft[r] /\ resting = tx[w].batch[r]
              /\ own.ticket = t /\ Exists(own) /\ Exists(resting)
              /\ q = Smaller(Unfilled(own), Unfilled(resting))
              /\ q <= Unfilled(own) /\ q <= Unfilled(resting)
              /\ Unfilled(own) \in Nat \ {0} /\ Unfilled(resting) \in Nat \ {0}
              /\ draft' = [draft EXCEPT ![k] = FillRow(own, q), ![r] = FillRow(resting, q)]
              /\ Compatible(t, resting.ticket)
              /\ owner[k] = w /\ owner[r] = w
<1>1. /\ req[w].op = "place" /\ tx[w].order \in OrderIds /\ req[w].ticket \in Tickets
      /\ Exists(tx[w].batch[r]) /\ Unfilled(draft[tx[w].order]) > 0
      /\ Compatible(req[w].ticket, tx[w].batch[r].ticket)
  BY Served, Zenon DEF FillOrder, Fillable, IsFirst, Ids
<1>2. PICK k \in OrderIds : k = tx[w].order
  BY <1>1
<1>3. PICK t \in Tickets : t = req[w].ticket
  BY <1>1
<1>4. /\ draft[k] \in Row /\ draft[k].ticket = t /\ Exists(draft[k])
      /\ Unfilled(draft[k]) \in Nat /\ ~Exists(tx[w].batch[k]) /\ owner[k] = w
  BY <1>1, <1>2, <1>3, OwnRow
<1>5. /\ draft[r] = tx[w].batch[r] /\ draft[r] \in Row /\ Unfilled(draft[r]) \in Nat \ {0}
      /\ owner[r] = w
  BY <1>1, LoadedRow
<1>6. k # r
  BY <1>1, <1>4
<1>7. PICK own \in Row : own = draft[k]
  BY <1>4
<1>8. PICK resting \in Row : resting = draft[r]
  BY <1>5
<1>9. /\ Smaller(Unfilled(own), Unfilled(resting)) \in Nat
      /\ Smaller(Unfilled(own), Unfilled(resting)) <= Unfilled(own)
      /\ Smaller(Unfilled(own), Unfilled(resting)) <= Unfilled(resting)
  BY <1>4, <1>5, <1>7, <1>8, SmallerType
<1>10. PICK q \in Nat : q = Smaller(Unfilled(own), Unfilled(resting))
  BY <1>9
<1>11. draft' = [draft EXCEPT ![k] = FillRow(own, q), ![r] = FillRow(resting, q)]
  BY <1>2, <1>5, <1>6, <1>7, <1>8, <1>10, Zenon DEF FillOrder
<1>12. /\ q <= Unfilled(own) /\ q <= Unfilled(resting)
       /\ Unfilled(own) \in Nat \ {0} /\ Unfilled(resting) \in Nat \ {0}
       /\ resting = tx[w].batch[r] /\ own.ticket = t /\ Exists(own) /\ Exists(resting)
       /\ Compatible(t, resting.ticket)
  BY <1>1, <1>2, <1>3, <1>4, <1>5, <1>7, <1>8, <1>9, <1>10
<1>. QED
  BY <1>2, <1>3, <1>4, <1>5, <1>6, <1>7, <1>8, <1>10, <1>11, <1>12

\* A fill tilts neither side.
LEMMA FillTilt ==
    ASSUME RowsInv, EngineInv', NEW w \in Workers, NEW r \in OrderIds, FillOrder(w, r),
           ~Rollback(w), OwnRows(w), NEW m \in Markets
    PROVE  Pending(Tilt(m), w)' = Pending(Tilt(m), w)
<1>1. EngineInv /\ RowsClean
  BY DEF RowsInv
<1>2. PICK k \in OrderIds, q \in Nat, t \in Tickets, own \in Row, resting \in Row :
         /\ k = tx[w].order /\ k # r /\ t = req[w].ticket
         /\ own = draft[k] /\ resting = draft[r] /\ resting = tx[w].batch[r]
         /\ own.ticket = t /\ Exists(own) /\ Exists(resting)
         /\ q = Smaller(Unfilled(own), Unfilled(resting))
         /\ q <= Unfilled(own) /\ q <= Unfilled(resting)
         /\ Unfilled(own) \in Nat \ {0} /\ Unfilled(resting) \in Nat \ {0}
         /\ draft' = [draft EXCEPT ![k] = FillRow(own, q), ![r] = FillRow(resting, q)]
         /\ Compatible(t, resting.ticket)
         /\ owner[k] = w /\ owner[r] = w
  BY <1>1, FilledRows
<1>3. req[w].op = "place"
  BY <1>1, Served, Zenon DEF FillOrder
<1>4. Counterpart(t, resting.ticket)
  BY <1>2, <1>3 DEF RowsInv, Counterparts
<1>5. PICK f \in [Row -> Int] :
         /\ f = Tilt(m)
         /\ \A row \in Row :
               f[row] = IF row.ticket.market # m THEN 0
                        ELSE IF row.ticket.side = "YES" <=> Buys(row.ticket)
                             THEN row.filled ELSE -row.filled
  BY TiltType
<1>6. /\ FillRow(own, q) \in Row /\ FillRow(own, q).ticket = t
      /\ FillRow(own, q).filled = own.filled + q
      /\ FillRow(resting, q) \in Row /\ FillRow(resting, q).ticket = resting.ticket
      /\ FillRow(resting, q).filled = resting.filled + q
  BY <1>2, FillRowType
<1>7. PICK own2 \in Row, resting2 \in Row :
         own2 = FillRow(own, q) /\ resting2 = FillRow(resting, q)
  BY <1>6
<1>8. /\ own2.ticket = t /\ own2.filled = own.filled + q
      /\ resting2.ticket = resting.ticket /\ resting2.filled = resting.filled + q
  BY <1>6, <1>7
<1>9. /\ draft'[k] = own2 /\ draft'[r] = resting2 /\ draft[k] = own /\ draft[r] = resting
      /\ \A i \in OrderIds \ {k, r} : draft'[i] = draft[i]
  BY <1>1, <1>2, <1>7, Typed, Zenon
<1>10. Pending(f, w)' = Pending(f, w) + (f[draft'[k]] - f[draft[k]])
                                      + (f[draft'[r]] - f[draft[r]])
  <2>1. \A i \in OrderIds \ {k, r} : f[draft'[i]] = f[draft[i]]
    BY <1>9
  <2>2. k # r
    BY <1>2
  <2>. QED
    BY <1>1, <2>1, <2>2, TwoPending
<1>11. own.filled \in Int /\ resting.filled \in Int /\ q \in Int
       /\ t.side \in {"YES", "NO"} /\ resting.ticket.side \in {"YES", "NO"}
  BY TicketType DEF Row, Sides
<1>12. (f[own2] - f[own]) + (f[resting2] - f[resting]) = 0
  <2>1. /\ own.ticket = t /\ own2.ticket = t /\ resting2.ticket = resting.ticket
        /\ own \in Row /\ own2 \in Row /\ resting \in Row /\ resting2 \in Row
        /\ own2.filled = own.filled + q /\ resting2.filled = resting.filled + q
    BY <1>2, <1>8
  <2>2. PICK s \in Tickets : s = resting.ticket
    BY <2>1, TicketType DEF Row
  <2>3. s.market = t.market
    BY <1>4, <2>2 DEF Counterpart
  <2>4. \A row \in Row : row.ticket.market # m => f[row] = 0
    BY <1>5
  <2>5. \A row \in Row : row.ticket.market = m /\ (row.ticket.side = "YES" <=> Buys(row.ticket))
                            => f[row] = row.filled
    BY <1>5
  <2>6. \A row \in Row : row.ticket.market = m /\ ~(row.ticket.side = "YES" <=> Buys(row.ticket))
                            => f[row] = -row.filled
    BY <1>5
  <2>7. CASE t.market # m
    <3>1. f[own] = 0 /\ f[own2] = 0 /\ f[resting] = 0 /\ f[resting2] = 0
      BY <2>1, <2>2, <2>3, <2>4, <2>7
    <3>. QED
      BY <3>1
  <2>8. CASE t.market = m
    <3>1. own.ticket.market = m /\ own2.ticket.market = m /\ resting.ticket.market = m
          /\ resting2.ticket.market = m
      BY <2>1, <2>2, <2>3, <2>8
    <3>2. (t.side = "YES" <=> Buys(t)) <=> ~(s.side = "YES" <=> Buys(s))
      <4>1. Counterpart(t, s)
        BY <1>4, <2>2
      <4>2. s.side \in {"YES", "NO"} /\ t.side \in {"YES", "NO"}
        BY <1>11, <2>2
      <4>3. CASE (Buys(t) # Buys(s)) /\ s.side = t.side
        <5>1. Buys(t) \in BOOLEAN /\ Buys(s) \in BOOLEAN
          BY DEF Buys
        <5>. QED
          BY <4>3, <5>1
      <4>4. CASE Buys(t) /\ Buys(s) /\ s.side = Opposite(t.side)
        <5>1. s.side = "YES" <=> t.side # "YES"
          BY <4>2, <4>4 DEF Opposite
        <5>. QED
          BY <4>4, <5>1
      <4>. QED
        BY <4>1, <4>3, <4>4 DEF Counterpart
    <3>3. CASE t.side = "YES" <=> Buys(t)
      <4>1. f[own] = own.filled
        BY <2>1, <2>5, <3>1, <3>3
      <4>2. f[own2] = own2.filled
        BY <2>1, <2>5, <3>1, <3>3
      <4>3. f[resting] = -resting.filled
        BY <2>1, <2>2, <2>6, <3>1, <3>2, <3>3
      <4>4. f[resting2] = -resting2.filled
        BY <2>1, <2>2, <2>6, <3>1, <3>2, <3>3
      <4>. QED
        BY <1>11, <2>1, <4>1, <4>2, <4>3, <4>4
    <3>4. CASE ~(t.side = "YES" <=> Buys(t))
      <4>1. f[own] = -own.filled
        BY <2>1, <2>6, <3>1, <3>4
      <4>2. f[own2] = -own2.filled
        BY <2>1, <2>6, <3>1, <3>4
      <4>3. f[resting] = resting.filled
        BY <2>1, <2>2, <2>5, <3>1, <3>2, <3>4
      <4>4. f[resting2] = resting2.filled
        BY <2>1, <2>2, <2>5, <3>1, <3>2, <3>4
      <4>. QED
        BY <1>11, <2>1, <4>1, <4>2, <4>3, <4>4
    <3>. QED
      BY <3>3, <3>4
  <2>. QED
    BY <2>7, <2>8
<1>13. Pending(f, w) \in Int
  BY <1>1, RowSums
<1>14. f[own2] \in Int /\ f[own] \in Int /\ f[resting2] \in Int /\ f[resting] \in Int
  BY <1>5
<1>15. Pending(f, w)' = Pending(f, w)
  BY <1>9, <1>10, <1>12, <1>13, <1>14
<1>. QED
  BY <1>5, <1>15

\* A step that leaves the fills alone leaves contracts alone.
LEMMA KeptContracts ==
    ASSUME EngineInv, EngineInv', FillsKept, NEW m, NEW side, NEW i \in OrderIds
    PROVE  Contracts(m, side)[draft'[i]] = Contracts(m, side)[draft[i]]
<1>1. PICK old \in Row : old = draft[i]
  BY Typed
<1>2. draft'[i] \in Row
  BY DEF EngineInv, TypeOK
<1>3. PICK new \in Row : new = draft'[i]
  BY <1>2
<1>4. new.filled = old.filled /\ (Exists(old) => new.ticket = old.ticket)
  BY <1>1, <1>3 DEF FillsKept
<1>5. ~Exists(old) => old.filled = 0
  BY <1>1, NoRowType DEF EngineInv, DraftsExtend, RowOK, NoRow
<1>6. /\ Contracts(m, side)[old] = IF old.ticket.market = m /\ old.ticket.side = side
                                   THEN IF Buys(old.ticket) THEN old.filled ELSE -old.filled
                                   ELSE 0
      /\ Contracts(m, side)[new] = IF new.ticket.market = m /\ new.ticket.side = side
                                   THEN IF Buys(new.ticket) THEN new.filled ELSE -new.filled
                                   ELSE 0
  BY DEF Contracts
<1>7. CASE Exists(old)
  BY <1>4, <1>6, <1>7, <1>1, <1>3
<1>8. CASE ~Exists(old)
  <2>1. old.filled = 0 /\ new.filled = 0
    BY <1>4, <1>5, <1>8
  <2>. QED
    BY <1>6, <2>1, <1>1, <1>3
<1>. QED
  BY <1>7, <1>8

LEMMA RowsInit == Init => RowsInv
<1> SUFFICES ASSUME Init PROVE RowsInv
  OBVIOUS
<1>1. EngineInv
  BY InitInv
<1>2. RowsClean
  BY DEF Init, RowsClean
<1>3. \A w \in Workers : Counterparts(w)
  BY DEF Init, Counterparts, NoRequest
<1>. QED
  BY <1>1, <1>2, <1>3 DEF RowsInv

LEMMA RowsNext == RowsInv /\ [Next]_vars => RowsInv'
<1> SUFFICES ASSUME RowsInv, [Next]_vars PROVE RowsInv'
  OBVIOUS
<1>1. EngineInv /\ EngineInv' /\ RowsClean /\ \A w \in Workers : Counterparts(w)
  BY NextInv DEF RowsInv
<1>2. ASSUME NEW w \in Workers, Start(w) \/ Step(w) \/ Rollback(w) \/ Commit(w),
             OwnRows(w) \/ Rollback(w) \/ Commit(w), Counterparts(w)'
      PROVE  RowsInv'
  <2>1. RowsClean'
    BY <1>1, <1>2, CleanNext
  <2>2. ASSUME NEW v \in Workers \ {w} PROVE Counterparts(v)'
    <3>1. req'[v] = req[v] /\ tx'[v] = tx[v] /\ Counterparts(v)
      BY <1>1, <1>2, OthersLocal
    <3>. QED
      BY <3>1 DEF Counterparts
  <2>. QED
    BY <1>1, <1>2, <2>1, <2>2 DEF RowsInv
<1>3. ASSUME NEW w \in Workers, (Start(w) \/ Step(w)) /\ ~Rollback(w) /\ ~Commit(w)
      PROVE  RowsInv'
  <2>1. OwnRows(w)
    BY <1>1, <1>3, RowMoves
  <2>2. Counterparts(w)'
    BY <1>1, <1>3, PlacementCounterparts, OtherCounterparts DEF Step
  <2>. QED
    BY <1>2, <1>3, <2>1, <2>2
<1>4. ASSUME NEW w \in Workers, Rollback(w) \/ Commit(w)
      PROVE  RowsInv'
  <2>1. req'[w] = NoRequest
    BY <1>1, <1>4, Typed DEF Rollback, Commit, EndRequest
  <2>2. Counterparts(w)'
    BY <2>1 DEF Counterparts, NoRequest
  <2>. QED
    BY <1>2, <1>4, <2>2
<1>5. CASE UNCHANGED <<orders, draft, owner, wallets, purse, holder, keeper, pc, req, tx>>
  BY <1>1, <1>5 DEF RowsInv, RowsClean, Counterparts
<1>. QED
  BY <1>3, <1>4, <1>5, EngineSteps

LEMMA PairInit == Init => PairInv
<1> SUFFICES ASSUME Init PROVE PairInv
  OBVIOUS
<1>1. RowsInv /\ EngineInv
  BY RowsInit, InitInv
<1>2. ASSUME NEW m \in Markets
      PROVE  Booked(Tilt(m)) = 0 /\ \A w \in Workers : Pending(Tilt(m), w) = 0
  <2>1. PICK f \in [Row -> Int] :
           /\ f = Tilt(m)
           /\ \A row \in Row :
                 f[row] = IF row.ticket.market # m THEN 0
                          ELSE IF row.ticket.side = "YES" <=> Buys(row.ticket)
                               THEN row.filled ELSE -row.filled
    BY TiltType
  <2>2. NoRow \in Row /\ NoRow.filled = 0
    BY NoRowType DEF NoRow
  <2>3. f[NoRow] = 0
    BY <2>1, <2>2
  <2>4. \A i \in OrderIds : orders[i] = NoRow /\ draft[i] = NoRow
    BY DEF Init, NoBatch
  <2>5. IsFiniteSet(OrderIds)
    BY <1>1, <2>1, RowSums
  <2> DEFINE g == [i \in OrderIds |-> f[orders[i]]]
  <2>6. \A i \in OrderIds : g[i] = 0
    BY <2>3, <2>4
  <2> HIDE DEF g
  <2>7. SumFunctionOnSet(g, OrderIds) = 0
    BY <2>5, <2>6, SumZero
  <2>8. ASSUME NEW w \in Workers PROVE Pending(f, w) = 0
    <3>1. \A i \in OrderIds : Change(f, w)[i] = 0
      BY <2>3, <2>4 DEF Change
    <3>. QED
      BY <2>5, <3>1, SumZero DEF Pending
  <2>. QED
    BY <2>1, <2>7, <2>8 DEF Booked, g
<1>. QED
  BY <1>1, <1>2 DEF PairInv

LEMMA PairNext == PairInv /\ [Next]_vars => PairInv'
<1> SUFFICES ASSUME PairInv, [Next]_vars PROVE PairInv'
  OBVIOUS
<1>1. RowsInv /\ RowsInv' /\ EngineInv /\ EngineInv' /\ RowsClean
  BY RowsNext DEF PairInv, RowsInv
<1>2. SUFFICES ASSUME NEW m \in Markets
               PROVE  Booked(Tilt(m))' = 0 /\ \A w \in Workers : Pending(Tilt(m), w)' = 0
  BY <1>1 DEF PairInv
<1>3. PICK f \in [Row -> Int] : f = Tilt(m)
  BY TiltType
<1>4. Booked(f) = 0 /\ \A w \in Workers : Pending(f, w) = 0
  BY <1>3 DEF PairInv
<1>5. ASSUME NEW w \in Workers, (Start(w) \/ Step(w)) /\ ~Rollback(w) /\ ~Commit(w)
      PROVE  Booked(f)' = 0 /\ \A v \in Workers : Pending(f, v)' = 0
  <2>1. OwnRows(w) /\ (FillsKept \/ \E r \in OrderIds : FillOrder(w, r))
    BY <1>1, <1>5, RowMoves
  <2>2. Booked(f)' = 0
    BY <1>4, <2>1 DEF Booked, OwnRows
  <2>3. \A v \in Workers \ {w} : Pending(f, v)' = 0
    BY <1>1, <1>4, <2>1, OthersRows, BystanderPending
  <2>4. CASE FillsKept
    <3>1. \A i \in OrderIds : f[draft'[i]] = f[draft[i]]
      <4> SUFFICES ASSUME NEW i \in OrderIds PROVE f[draft'[i]] = f[draft[i]]
        OBVIOUS
      <4>1. draft[i] \in Row /\ draft'[i] \in Row
        BY <1>1 DEF EngineInv, TypeOK
      <4>2. PICK x \in Row, y \in Row : x = draft[i] /\ y = draft'[i]
        BY <4>1
      <4>3. /\ Contracts(m, "YES")[y] = Contracts(m, "YES")[x]
            /\ Contracts(m, "NO")[y] = Contracts(m, "NO")[x]
        BY <1>1, <2>4, <4>2, KeptContracts DEF Sides
      <4>4. /\ f[x] = Contracts(m, "YES")[x] - Contracts(m, "NO")[x]
            /\ f[y] = Contracts(m, "YES")[y] - Contracts(m, "NO")[y]
        BY <1>3 DEF Tilt
      <4>. QED
        BY <4>2, <4>3, <4>4
    <3>. QED
      BY <1>1, <1>4, <2>1, <2>2, <2>3, <3>1, SamePending
  <2>5. ASSUME NEW r \in OrderIds, FillOrder(w, r)
        PROVE  Pending(f, w)' = 0
    BY <1>1, <1>3, <1>4, <1>5, <2>1, <2>5, FillTilt
  <2>. QED
    BY <2>1, <2>2, <2>3, <2>4, <2>5
<1>6. ASSUME NEW w \in Workers, Rollback(w) \/ Commit(w)
      PROVE  Booked(f)' = 0 /\ \A v \in Workers : Pending(f, v)' = 0
  <2>1. \A v \in Workers \ {w} : Pending(f, v)' = 0
    BY <1>1, <1>4, <1>6, OthersRows, BystanderPending
  <2>2. Pending(f, w)' = 0
    BY <1>1, <1>6, EndedRows, IdlePending
  <2>3. CASE Rollback(w)
    BY <1>4, <2>1, <2>2, <2>3 DEF Rollback, Booked
  <2>4. CASE Commit(w)
    <3>1. Booked(f)' = Booked(f) + Pending(f, w)
      BY <1>1, <2>4, CommitBooks
    <3>. QED
      BY <1>4, <2>1, <2>2, <3>1
  <2>. QED
    BY <1>6, <2>3, <2>4
<1>7. ASSUME UNCHANGED <<orders, draft, owner, wallets, purse, holder, keeper, pc, req, tx>>
      PROVE  Booked(f)' = 0 /\ \A v \in Workers : Pending(f, v)' = 0
  BY <1>4, <1>7 DEF Booked, Pending, Change
<1>8. Booked(f)' = 0 /\ \A v \in Workers : Pending(f, v)' = 0
  BY <1>5, <1>6, <1>7, EngineSteps
<1>. QED
  BY <1>3, <1>8

\* However placements, cancellations, settlements and market cancellations interleave,
\* fail and crash, users hold as many YES as NO contracts of every market: fills only
\* make pairs or move a contract, and no cancellation touches what was filled.
THEOREM ContractsComeInPairs == Spec => []ContractsPair
<1>1. PairInv => ContractsPair
  <2> SUFFICES ASSUME PairInv, NEW m \in Markets
               PROVE  Outstanding(m, "YES") = Outstanding(m, "NO")
    BY DEF ContractsPair
  <2>1. EngineInv /\ Booked(Tilt(m)) = 0
    BY DEF PairInv, RowsInv
  <2>2. /\ Outstanding(m, "YES") = Booked(Contracts(m, "YES"))
        /\ Outstanding(m, "NO") = Booked(Contracts(m, "NO"))
    BY <2>1, OutstandingSum DEF Sides
  <2>3. PICK a \in [Row -> Int], b \in [Row -> Int], f \in [Row -> Int] :
           a = Contracts(m, "YES") /\ b = Contracts(m, "NO") /\ f = Tilt(m)
    BY ContractsType, TiltType
  <2> DEFINE x == [i \in OrderIds |-> a[orders[i]]]
             y == [i \in OrderIds |-> b[orders[i]]]
             z == [i \in OrderIds |-> f[orders[i]]]
  <2>4. \A i \in OrderIds : y[i] \in Int /\ z[i] \in Int /\ x[i] = z[i] + y[i]
    <3> SUFFICES ASSUME NEW i \in OrderIds
                 PROVE  y[i] \in Int /\ z[i] \in Int /\ x[i] = z[i] + y[i]
      OBVIOUS
    <3>1. orders[i] \in Row
      BY <2>1, Typed
    <3>2. f[orders[i]] = a[orders[i]] - b[orders[i]]
      BY <2>3, <3>1 DEF Tilt
    <3>3. a[orders[i]] \in Int /\ b[orders[i]] \in Int
      BY <3>1
    <3>. QED
      BY <3>2, <3>3
  <2>5. IsFiniteSet(OrderIds)
    BY <2>1, <2>3, RowSums
  <2> HIDE DEF x, y, z
  <2>6. SumFunctionOnSet(x, OrderIds) = SumFunctionOnSet(z, OrderIds) + SumFunctionOnSet(y, OrderIds)
    BY <2>4, <2>5, SumPlus
  <2>7. SumFunctionOnSet(y, OrderIds) \in Int
    BY <2>4, <2>5, SumInt
  <2>8. SumFunctionOnSet(z, OrderIds) = 0
    BY <2>1, <2>3 DEF Booked, z
  <2>9. SumFunctionOnSet(x, OrderIds) = SumFunctionOnSet(y, OrderIds)
    BY <2>6, <2>7, <2>8
  <2>. QED
    BY <2>2, <2>3, <2>9 DEF Booked, x, y
<1>. QED
  BY <1>1, PairInit, PairNext, PTL DEF Spec

=============================================================================

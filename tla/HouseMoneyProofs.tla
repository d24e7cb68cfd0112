--------------------------- MODULE HouseMoneyProofs ---------------------------
(***************************************************************************)
(* Where the money of the house's customers comes from: every balance is   *)
(* what its owner began with and what the ledger says came and went.       *)
(*                                                                         *)
(* The argument is about what each worker sees of the wallets, which is    *)
(* what it has written and what is committed: every statement moves money  *)
(* and writes the entry that says so.  One does not: a stake is taken      *)
(* under the wallet's lock by one statement and booked by the next, and is *)
(* owed to the ledger in between.  Then what the market maker's trades     *)
(* have paid, that a pool's columns are the sums of its stakes, and what   *)
(* one worker's settlements and cancellations pay for stakes and           *)
(* contracts.                                                              *)
(***************************************************************************)
EXTENDS HouseStepProofs, SumLemmas

\* Sheets are wallets whose columns may be negative, as they are halfway through an update.
Sheet == [available : Int, ledger : [Line -> Int]]

In(wallet) == SumFunctionOnSet(wallet.ledger, ReceivedLines)
Out(wallet) == SumFunctionOnSet(wallet.ledger, PaidLines)

\* What the ledger does not explain.
Net(wallet) == wallet.available - In(wallet) + Out(wallet)

\* The stake that w has taken from u and has not booked yet.
Owed(w, u) ==
    IF pc[w] = "insert" /\ Head(tx[w].items).user = u THEN Head(tx[w].items).stake ELSE 0

\* What w sees of the wallets adds up.
AddsUp(w) == \A u \in Users : Net(Seen(wallets[u], w)) + Owed(w, u) = InitialFunds[u]

LedgerInv == HouseHeld /\ LedgerExplainsWallets /\ \A w \in Workers : AddsUp(w)

\* A step of w that explains what it moves.
Explains(w) ==
    \A u \in Users :
        Net(Seen(wallets[u], w))' + Owed(w, u)' = Net(Seen(wallets[u], w)) + Owed(w, u)

----------------------------------------------------------------------------
(***************************************************************************)
(* The lines of the ledger.                                                *)
(***************************************************************************)

LEMMA SixFinite ==
    ASSUME NEW a, NEW b, NEW c, NEW d, NEW e, NEW f
    PROVE  IsFiniteSet({a, b, c, d, e, f})
<1>1. IsFiniteSet({a} \cup {b})
  BY FS_Singleton, FS_Union
<1>2. IsFiniteSet(({a} \cup {b}) \cup {c})
  BY <1>1, FS_AddElement
<1>3. IsFiniteSet((({a} \cup {b}) \cup {c}) \cup {d})
  BY <1>2, FS_AddElement
<1>4. IsFiniteSet(((({a} \cup {b}) \cup {c}) \cup {d}) \cup {e})
  BY <1>3, FS_AddElement
<1>5. IsFiniteSet((((({a} \cup {b}) \cup {c}) \cup {d}) \cup {e}) \cup {f})
  BY <1>4, FS_AddElement
<1>6. {a, b, c, d, e, f} = (((({a} \cup {b}) \cup {c}) \cup {d}) \cup {e}) \cup {f}
  OBVIOUS
<1>. QED
  BY <1>5, <1>6

LEMMA EntriesFinite ==
    ASSUME NEW types, IsFiniteSet(types), NEW refs, IsFiniteSet(refs)
    PROVE  IsFiniteSet([type : types, ref : refs])
<1> DEFINE f == [p \in types \X refs |-> [type |-> p[1], ref |-> p[2]]]
<1>1. f \in Surjection(types \X refs, [type : types, ref : refs])
  <2>1. f \in [types \X refs -> [type : types, ref : refs]]
    OBVIOUS
  <2>2. ASSUME NEW l \in [type : types, ref : refs]
        PROVE  \E p \in types \X refs : f[p] = l
    <3>1. <<l.type, l.ref>> \in types \X refs /\ f[<<l.type, l.ref>>] = l
      OBVIOUS
    <3>. QED
      BY <3>1
  <2>. QED
    BY <2>1, <2>2 DEF Surjection
<1>2. IsFiniteSet(types \X refs)
  BY FS_Product
<1>. QED
  BY <1>1, <1>2, FS_Surjection

LEMMA LinesFinite == IsFiniteSet(Line) /\ IsFiniteSet(ReceivedLines) /\ IsFiniteSet(PaidLines)
<1>1. IsFiniteSet(BetLine)
  <2> DEFINE types == {"BET_STAKE", "BET_WIN_PAYOUT", "BET_VOID_REFUND", "BET_CANCEL_REFUND",
                       "BET_CASHOUT_PAYOUT", "BET_CASHOUT_FEE"}
  <2>1. IsFiniteSet(types)
    BY SixFinite
  <2>2. IsFiniteSet(BetIds)
    BY FS_Interval, BoundsAssumption DEF BetIds
  <2>3. BetLine = [type : types, ref : BetIds]
    BY DEF BetLine
  <2> HIDE DEF types
  <2>. QED
    BY <2>1, <2>2, <2>3, EntriesFinite
<1>2. IsFiniteSet(MarketLine)
  <2> DEFINE types == {"PARIMUTUEL_STAKE", "PARIMUTUEL_REFUND", "LMSR_TRADE_STAKE", "LMSR_FEE",
                       "SETTLEMENT_WIN", "MARKET_CANCEL_REFUND"}
  <2>1. IsFiniteSet(types)
    BY SixFinite
  <2>2. MarketLine = [type : types, ref : Markets]
    BY DEF MarketLine
  <2> HIDE DEF types
  <2>. QED
    BY <2>1, <2>2, EntriesFinite, FiniteAssumption
<1>3. IsFiniteSet(GrantLine)
  BY FS_Singleton, EntriesFinite, FiniteAssumption DEF GrantLine
<1>4. IsFiniteSet(Line)
  BY <1>1, <1>2, <1>3, FS_Union DEF Line
<1>. QED
  BY <1>4, FS_Subset DEF ReceivedLines, PaidLines

----------------------------------------------------------------------------
(***************************************************************************)
(* What the operations on a wallet explain.                                *)
(***************************************************************************)

LEMMA SumsAreInt ==
    ASSUME NEW wallet \in Sheet
    PROVE  In(wallet) \in Int /\ Out(wallet) \in Int /\ Net(wallet) \in Int
                /\ wallet.available \in Int
<1>1. \A l \in Line : wallet.ledger[l] \in Int
  BY DEF Sheet
<1>2. wallet.available \in Int
  BY DEF Sheet
<1>3. In(wallet) \in Int /\ Out(wallet) \in Int
  BY <1>1, LinesFinite, SumInt DEF In, Out, ReceivedLines, PaidLines
<1>. QED
  BY <1>2, <1>3 DEF Net

LEMMA WalletSheet ==
    ASSUME NEW wallet \in Wallet
    PROVE  wallet \in Sheet
  BY DEF Wallet, Sheet

\* One entry changes the sum of the entries of its kind, and no other.
LEMMA EntryCounts ==
    ASSUME NEW wallet \in Sheet, NEW l \in Line, NEW amount \in Int, NEW new \in Sheet,
           new.ledger[l] = wallet.ledger[l] + amount,
           \A k \in Line \ {l} : new.ledger[k] = wallet.ledger[k]
    PROVE  /\ l \in ReceivedLines => In(new) = In(wallet) + amount
           /\ l \notin ReceivedLines => In(new) = In(wallet)
           /\ l \in PaidLines => Out(new) = Out(wallet) + amount
           /\ l \notin PaidLines => Out(new) = Out(wallet)
<1> DEFINE f == wallet.ledger
           g == new.ledger
<1>1. \A k \in Line : f[k] \in Int /\ g[k] \in Int
  BY DEF Sheet
<1>2. ReceivedLines \subseteq Line /\ PaidLines \subseteq Line
  BY DEF ReceivedLines, PaidLines
<1>3. ASSUME NEW S, S \subseteq Line, IsFiniteSet(S)
      PROVE  /\ l \in S => SumFunctionOnSet(g, S) = SumFunctionOnSet(f, S) + amount
             /\ l \notin S => SumFunctionOnSet(g, S) = SumFunctionOnSet(f, S)
  <2>1. CASE l \in S
    <3>1. g[l] = f[l] + amount /\ f[l] \in Int /\ g[l] \in Int
      BY <1>1
    <3>2. /\ \A x \in S : f[x] \in Int
          /\ \A x \in S \ {l} : g[x] = f[x]
      BY <1>1, <1>3
    <3> HIDE DEF f, g
    <3>3. SumFunctionOnSet(g, S) = SumFunctionOnSet(f, S) + (g[l] - f[l])
      BY <1>3, <2>1, <3>1, <3>2, SumChanged
    <3>4. g[l] - f[l] = amount
      BY <3>1
    <3>. QED
      BY <2>1, <3>3, <3>4
  <2>2. CASE l \notin S
    <3>1. \A x \in S : g[x] = f[x]
      BY <1>3, <2>2
    <3> HIDE DEF f, g
    <3>2. SumFunctionOnSet(g, S) = SumFunctionOnSet(f, S)
      BY <1>3, <3>1, SumEqual
    <3>. QED
      BY <2>2, <3>2
  <2>. QED
    BY <2>1, <2>2
<1> HIDE DEF f, g
<1>. QED
  BY <1>2, <1>3, LinesFinite DEF In, Out, f, g

\* A recorded entry.
LEMMA Recorded ==
    ASSUME NEW wallet \in Sheet, NEW type, NEW ref, Entry(type, ref) \in Line, NEW amount \in Int
    PROVE  /\ Record(wallet, type, ref, amount) \in Sheet
           /\ Record(wallet, type, ref, amount).available = wallet.available
           /\ Record(wallet, type, ref, amount).ledger[Entry(type, ref)]
                  = wallet.ledger[Entry(type, ref)] + amount
           /\ \A k \in Line \ {Entry(type, ref)} :
                  Record(wallet, type, ref, amount).ledger[k] = wallet.ledger[k]
  BY DEF Sheet, Record

\* Which lines are of which kind.
LEMMA Kinds ==
    ASSUME NEW type, NEW ref, Entry(type, ref) \in Line
    PROVE  /\ type \in Debits => Entry(type, ref) \in PaidLines /\ Entry(type, ref) \notin ReceivedLines
           /\ type = "BET_CASHOUT_FEE" =>
                  Entry(type, ref) \notin PaidLines /\ Entry(type, ref) \notin ReceivedLines
           /\ type \notin Debits /\ type # "BET_CASHOUT_FEE" =>
                  Entry(type, ref) \in ReceivedLines /\ Entry(type, ref) \notin PaidLines
  BY DEF Entry, PaidLines, ReceivedLines, Debits

LEMMA RecordNet ==
    ASSUME NEW wallet \in Sheet, NEW type, NEW ref, Entry(type, ref) \in Line, NEW amount \in Int
    PROVE  /\ Record(wallet, type, ref, amount) \in Sheet
           /\ type \in Debits => Net(Record(wallet, type, ref, amount)) = Net(wallet) + amount
           /\ type = "BET_CASHOUT_FEE" => Net(Record(wallet, type, ref, amount)) = Net(wallet)
           /\ type \notin Debits /\ type # "BET_CASHOUT_FEE" =>
                  Net(Record(wallet, type, ref, amount)) = Net(wallet) - amount
<1> DEFINE new == Record(wallet, type, ref, amount)
           l == Entry(type, ref)
<1>1. /\ new \in Sheet /\ new.available = wallet.available
      /\ new.ledger[l] = wallet.ledger[l] + amount
      /\ \A k \in Line \ {l} : new.ledger[k] = wallet.ledger[k]
  BY Recorded
<1>2. /\ type \in Debits => l \in PaidLines /\ l \notin ReceivedLines
      /\ type = "BET_CASHOUT_FEE" => l \notin PaidLines /\ l \notin ReceivedLines
      /\ type \notin Debits /\ type # "BET_CASHOUT_FEE" =>
             l \in ReceivedLines /\ l \notin PaidLines
  BY Kinds
<1> HIDE DEF new, l
<1>3. /\ l \in ReceivedLines => In(new) = In(wallet) + amount
      /\ l \notin ReceivedLines => In(new) = In(wallet)
      /\ l \in PaidLines => Out(new) = Out(wallet) + amount
      /\ l \notin PaidLines => Out(new) = Out(wallet)
  BY <1>1, EntryCounts DEF l
<1>4. /\ wallet.available \in Int /\ In(wallet) \in Int /\ Out(wallet) \in Int
  BY SumsAreInt
<1>5. /\ type \in Debits => Net(new) = Net(wallet) + amount
      /\ type = "BET_CASHOUT_FEE" => Net(new) = Net(wallet)
      /\ type \notin Debits /\ type # "BET_CASHOUT_FEE" => Net(new) = Net(wallet) - amount
  BY <1>1, <1>2, <1>3, <1>4 DEF Net
<1>. QED
  BY <1>1, <1>5 DEF new

\* A change of the balance alone.
LEMMA MovedNet ==
    ASSUME NEW wallet \in Sheet, NEW amount \in Int
    PROVE  /\ [wallet EXCEPT !.available = @ + amount] \in Sheet
           /\ Net([wallet EXCEPT !.available = @ + amount]) = Net(wallet) + amount
           /\ [wallet EXCEPT !.available = @ - amount] \in Sheet
           /\ Net([wallet EXCEPT !.available = @ - amount]) = Net(wallet) - amount
<1> DEFINE up == [wallet EXCEPT !.available = @ + amount]
           down == [wallet EXCEPT !.available = @ - amount]
<1>1. /\ up \in Sheet /\ up.available = wallet.available + amount
      /\ up.ledger = wallet.ledger
      /\ down \in Sheet /\ down.available = wallet.available - amount
      /\ down.ledger = wallet.ledger
  BY DEF Sheet
<1> HIDE DEF up, down
<1>2. In(up) = In(wallet) /\ Out(up) = Out(wallet) /\ In(down) = In(wallet) /\ Out(down) = Out(wallet)
  BY <1>1 DEF In, Out
<1>3. /\ wallet.available \in Int /\ In(wallet) \in Int /\ Out(wallet) \in Int
  BY SumsAreInt
<1>4. Net(up) = Net(wallet) + amount /\ Net(down) = Net(wallet) - amount
  BY <1>1, <1>2, <1>3 DEF Net
<1>. QED
  BY <1>1, <1>4 DEF up, down

\* A credit and a debit say what they move.
LEMMA CreditNet ==
    ASSUME NEW wallet \in Sheet, NEW type, NEW ref, Entry(type, ref) \in Line, NEW amount \in Int,
           type \notin Debits, type # "BET_CASHOUT_FEE"
    PROVE  /\ Credit(wallet, type, ref, amount) \in Sheet
           /\ Net(Credit(wallet, type, ref, amount)) = Net(wallet)
<1> DEFINE recorded == Record(wallet, type, ref, amount)
<1>1. recorded \in Sheet /\ Net(recorded) = Net(wallet) - amount
  BY RecordNet
<1>2. Net(wallet) \in Int
  BY SumsAreInt
<1> HIDE DEF recorded
<1>3. /\ [recorded EXCEPT !.available = @ + amount] \in Sheet
      /\ Net([recorded EXCEPT !.available = @ + amount]) = Net(recorded) + amount
  BY <1>1, MovedNet
<1>4. (Net(wallet) - amount) + amount = Net(wallet)
  BY <1>2
<1>. QED
  BY <1>1, <1>3, <1>4 DEF Credit, recorded

LEMMA DebitNet ==
    ASSUME NEW wallet \in Sheet, NEW type, NEW ref, Entry(type, ref) \in Line, NEW amount \in Int,
           type \in Debits
    PROVE  /\ Debit(wallet, type, ref, amount) \in Sheet
           /\ Net(Debit(wallet, type, ref, amount)) = Net(wallet)
<1> DEFINE recorded == Record(wallet, type, ref, amount)
<1>1. recorded \in Sheet /\ Net(recorded) = Net(wallet) + amount
  BY RecordNet
<1>2. Net(wallet) \in Int
  BY SumsAreInt
<1> HIDE DEF recorded
<1>3. /\ [recorded EXCEPT !.available = @ - amount] \in Sheet
      /\ Net([recorded EXCEPT !.available = @ - amount]) = Net(recorded) - amount
  BY <1>1, MovedNet
<1>4. (Net(wallet) + amount) - amount = Net(wallet)
  BY <1>2
<1>. QED
  BY <1>1, <1>3, <1>4 DEF Debit, recorded

----------------------------------------------------------------------------
(***************************************************************************)
(* What the statements explain.                                            *)
(***************************************************************************)

\* A statement that is not about a stake taken and not booked leaves nothing owed.
LEMMA OwesNothing ==
    ASSUME NEW w \in Workers, pc[w] # "insert", pc'[w] # "insert"
    PROVE  \A u \in Users : Owed(w, u) = 0 /\ Owed(w, u)' = 0
  BY DEF Owed

LEMMA NothingMoved ==
    ASSUME NEW w \in Workers, wallets' = wallets, pc[w] # "insert", pc'[w] # "insert"
    PROVE  Explains(w)
<1>1. \A u \in Users : Seen(wallets[u], w)' = Seen(wallets[u], w)
  BY DEF Seen
<1>2. \A u \in Users : Net(Seen(wallets[u], w))' = Net(Seen(wallets[u], w))
  BY <1>1 DEF Net, In, Out
<1>. QED
  BY <1>2, OwesNothing DEF Explains

LEMMA WrittenEvenly ==
    ASSUME NEW w \in Workers, NEW u \in Users, NEW value,
           wallets \in [Users -> RowOf(Wallet)],
           wallets' = [wallets EXCEPT ![u] = Written(@, w, value)],
           Net(value) = Net(Seen(wallets[u], w)), pc[w] # "insert", pc'[w] # "insert"
    PROVE  Explains(w)
<1>1. /\ Seen(wallets[u], w)' = value
      /\ \A v \in Users \ {u} : Seen(wallets[v], w)' = Seen(wallets[v], w)
  BY WalletWritten
<1>2. Net(Seen(wallets[u], w))' = Net(value)
  BY <1>1 DEF Net, In, Out
<1>3. \A v \in Users \ {u} : Net(Seen(wallets[v], w))' = Net(Seen(wallets[v], w))
  BY <1>1 DEF Net, In, Out
<1>4. \A v \in Users : Net(Seen(wallets[v], w))' = Net(Seen(wallets[v], w))
  BY <1>2, <1>3
<1>. QED
  BY <1>4, OwesNothing DEF Explains

\* The statements that write no wallet neither take a stake nor book one.
LEMMA QuietStatements ==
    ASSUME NEW w \in Workers, HouseHeld, ~Rollback(w),
           \/ StartPlace(w) \/ StartExecute(w) \/ StartQuote(w) \/ StartLeave(w)
           \/ StartStake(w) \/ StartTrade(w) \/ StartSettle(w) \/ StartAnnul(w)
           \/ Patch(w) \/ StartReview(w)
           \/ Claim(w) \/ Look(w) \/ Assess(w) \/ LockBet(w) \/ TouchMarket(w)
           \/ Register(w) \/ AddToPool(w) \/ Price(w)
           \/ Decide(w) \/ Divide(w) \/ FinishSettle(w) \/ Result(w) \/ VoidBet(w)
           \/ LockToCancel(w) \/ FinishCancel(w) \/ WritePatch(w) \/ Approve(w) \/ Reject(w)
    PROVE  Explains(w)
<1>1. pc \in [Workers -> Statement]
  BY Holding, Typed
<1>2. wallets' = wallets
  BY ArrivalsOwn, BetStatementsOwn, RegisterOwn, PoolStatementsOwn, SettlementOwn,
     BetRowsOwn, OfficeOwn, ReviewOwn
<1>3. pc[w] # "insert" /\ pc'[w] # "insert"
  <2>1. CASE \/ StartPlace(w) \/ StartExecute(w) \/ StartQuote(w) \/ StartLeave(w)
             \/ StartStake(w) \/ StartTrade(w) \/ StartSettle(w) \/ StartAnnul(w)
             \/ Patch(w)
    BY <1>1, <2>1 DEF StartPlace, StartExecute, StartQuote, StartLeave, StartStake, StartTrade,
       StartSettle, StartAnnul, Patch, Accept, Goto
  <2>2. CASE StartReview(w)
    BY <1>1, <2>2 DEF StartReview, Accept, Goto
  <2>3. CASE Claim(w) \/ Look(w) \/ Assess(w) \/ LockBet(w) \/ TouchMarket(w)
    BY <1>1, <2>3 DEF Claim, Look, Assess, LockBet, TouchMarket, Goto
  <2>4. CASE Register(w) \/ AddToPool(w) \/ Price(w)
    BY <1>1, <2>4, Zenon DEF Register, EndRequest, AddToPool, Price, Goto
  <2>5. CASE Decide(w) \/ Divide(w) \/ FinishSettle(w) \/ Result(w) \/ VoidBet(w)
    BY <1>1, <2>5 DEF Decide, Divide, FinishSettle, Result, VoidBet, Goto
  <2>6. CASE LockToCancel(w) \/ FinishCancel(w) \/ WritePatch(w) \/ Approve(w) \/ Reject(w)
    BY <1>1, <2>6, Zenon DEF LockToCancel, FinishCancel, WritePatch, Approve, Reject, Goto
  <2>. QED
    BY <2>1, <2>2, <2>3, <2>4, <2>5, <2>6
<1>. QED
  BY <1>2, <1>3, NothingMoved

\* A statement that moves what it owes, or owes what it moves.
LEMMA WrittenOwing ==
    ASSUME NEW w \in Workers, NEW u \in Users, NEW value, NEW wallet \in Sheet,
           wallets \in [Users -> RowOf(Wallet)],
           wallets' = [wallets EXCEPT ![u] = Written(@, w, value)],
           wallet = Seen(wallets[u], w),
           Net(value) + Owed(w, u)' = Net(wallet) + Owed(w, u),
           \A v \in Users \ {u} : Owed(w, v) = 0 /\ Owed(w, v)' = 0
    PROVE  Explains(w)
<1>1. /\ Seen(wallets[u], w)' = value
      /\ \A v \in Users \ {u} : Seen(wallets[v], w)' = Seen(wallets[v], w)
  BY WalletWritten
<1>2. Net(Seen(wallets[u], w))' = Net(value)
  BY <1>1 DEF Net, In, Out
<1>3. \A v \in Users \ {u} : Net(Seen(wallets[v], w))' = Net(Seen(wallets[v], w))
  BY <1>1 DEF Net, In, Out
<1>4. Net(Seen(wallets[u], w))' + Owed(w, u)' = Net(Seen(wallets[u], w)) + Owed(w, u)
  BY <1>2
<1>5. \A v \in Users \ {u} :
          Net(Seen(wallets[v], w))' + Owed(w, v)' = Net(Seen(wallets[v], w)) + Owed(w, v)
  BY <1>3
<1>. QED
  BY <1>4, <1>5 DEF Explains

\* A stake is taken: it is owed until it is booked.
LEMMA DebitStakeExplains ==
    ASSUME NEW w \in Workers, HouseHeld, DebitStake(w), ~Rollback(w)
    PROVE  Explains(w)
<1>1. /\ pc[w] = "debit" /\ Goto(w, "insert")
      /\ LET t == Head(tx[w].items)
             wallet == Seen(wallets[t.user], w)
         IN  wallets' = [wallets EXCEPT ![t.user] =
                            Written(@, w, [wallet EXCEPT !.available = @ - t.stake])]
      /\ UNCHANGED tx
  BY Zenon DEF DebitStake
<1>2. /\ wallets \in [Users -> RowOf(Wallet)] /\ pc \in [Workers -> Statement]
      /\ tx[w].items \in Seq(Ticket) /\ tx[w].items # <<>>
  BY <1>1, Holding, Typed DEF TablesTypedNow, ServingOK, Tx
<1>3. PICK user \in Users, stake \in Int :
          user = Head(tx[w].items).user /\ stake = Head(tx[w].items).stake
  <2>1. Head(tx[w].items).user \in Users /\ Head(tx[w].items).stake \in Nat
    BY <1>2, HeadAndTail, TicketForm
  <2>. QED
    BY <2>1
<1>4. PICK wallet : wallet = Seen(wallets[user], w)
  OBVIOUS
<1>5. wallet \in Sheet
  BY <1>2, <1>4, VersionsTyped, WalletSheet
<1>6. pc'[w] = "insert"
  BY <1>1, <1>2 DEF Goto
<1>7. \A v \in Users : Owed(w, v) = 0 /\ Owed(w, v)' = IF v = user THEN stake ELSE 0
  BY <1>1, <1>3, <1>6 DEF Owed
<1>8. PICK paid : paid = [wallet EXCEPT !.available = @ - stake]
  OBVIOUS
<1>9. Net(paid) = Net(wallet) - stake /\ Net(wallet) \in Int
  BY <1>5, <1>8, MovedNet, SumsAreInt
<1>10. wallets' = [wallets EXCEPT ![user] = Written(@, w, paid)]
  BY <1>1, <1>3, <1>4, <1>8, Zenon
<1>11. Net(paid) + Owed(w, user)' = Net(wallet) + Owed(w, user)
  BY <1>7, <1>9
<1>12. \A v \in Users \ {user} : Owed(w, v) = 0 /\ Owed(w, v)' = 0
  BY <1>7
<1>. QED
  BY <1>2, <1>4, <1>5, <1>10, <1>11, <1>12, WrittenOwing

\* It is booked.
LEMMA InsertBetExplains ==
    ASSUME NEW w \in Workers, HouseHeld, InsertBet(w)
    PROVE  Explains(w)
<1>1. pc[w] = "insert" /\ (Goto(w, "commit") \/ Goto(w, "look"))
  BY DEF InsertBet
<1>2. /\ wallets \in [Users -> RowOf(Wallet)] /\ pc \in [Workers -> Statement]
      /\ tx[w].items \in Seq(Ticket) /\ tx[w].items # <<>> /\ HoldingOK(w)
  BY <1>1, Holding, Typed DEF TablesTypedNow, ServingOK, Tx
<1>3. PICK user \in Users, stake \in Int :
          user = Head(tx[w].items).user /\ stake = Head(tx[w].items).stake
  <2>1. Head(tx[w].items).user \in Users /\ Head(tx[w].items).stake \in Nat
    BY <1>2, HeadAndTail, TicketForm
  <2>. QED
    BY <2>1
<1>4. PICK b \in FreeBets :
          wallets' = [wallets EXCEPT ![user].new = Record(@, "BET_STAKE", b, stake)]
  BY <1>3, Zenon DEF InsertBet
<1>5. wallets[user].by = w
  BY <1>1, <1>2, <1>3 DEF HoldingOK
<1>6. PICK wallet : wallet = wallets[user].new
  OBVIOUS
<1>7. wallet = Seen(wallets[user], w) /\ wallet \in Sheet
  BY <1>2, <1>5, <1>6, VersionsTyped, WalletSheet DEF Seen
<1>8. pc'[w] # "insert"
  BY <1>1, <1>2 DEF Goto
<1>9. \A v \in Users : Owed(w, v)' = 0 /\ Owed(w, v) = IF v = user THEN stake ELSE 0
  BY <1>1, <1>3, <1>8 DEF Owed
<1>10. Entry("BET_STAKE", b) \in Line
  BY DEF FreeBets, Entry, Line, BetLine
<1>11. PICK noted : noted = Record(wallet, "BET_STAKE", b, stake)
  OBVIOUS
<1>12. Net(noted) = Net(wallet) + stake
  BY <1>7, <1>10, <1>11, RecordNet DEF Debits
<1>13. wallets' = [wallets EXCEPT ![user] = Written(@, w, noted)]
  BY <1>2, <1>4, <1>5, <1>6, <1>11 DEF RowOf, Written
<1>14. Net(noted) + Owed(w, user)' = Net(wallet) + Owed(w, user)
  BY <1>7, <1>9, <1>12, SumsAreInt
<1>15. \A v \in Users \ {user} : Owed(w, v) = 0 /\ Owed(w, v)' = 0
  BY <1>9
<1>. QED
  BY <1>2, <1>7, <1>13, <1>14, <1>15, WrittenOwing

\* A credit and a debit leave nothing unexplained.
LEMMA CreditExplains ==
    ASSUME NEW w \in Workers, NEW u \in Users, NEW wallet \in Wallet, NEW type, NEW ref,
           Entry(type, ref) \in Line, NEW amount \in Int,
           wallets \in [Users -> RowOf(Wallet)],
           wallets' = [wallets EXCEPT ![u] = Written(@, w, Credit(wallet, type, ref, amount))],
           wallet = Seen(wallets[u], w), type \notin Debits, type # "BET_CASHOUT_FEE",
           pc[w] # "insert", pc'[w] # "insert"
    PROVE  Explains(w)
<1>1. PICK value : value = Credit(wallet, type, ref, amount)
  OBVIOUS
<1>2. Net(value) = Net(wallet)
  BY <1>1, WalletSheet, CreditNet
<1>3. wallets' = [wallets EXCEPT ![u] = Written(@, w, value)]
  BY <1>1
<1>. QED
  BY <1>2, <1>3, WrittenEvenly

LEMMA DebitExplains ==
    ASSUME NEW w \in Workers, NEW u \in Users, NEW wallet \in Wallet, NEW type, NEW ref,
           Entry(type, ref) \in Line, NEW amount \in Int,
           wallets \in [Users -> RowOf(Wallet)],
           wallets' = [wallets EXCEPT ![u] = Written(@, w, Debit(wallet, type, ref, amount))],
           wallet = Seen(wallets[u], w), type \in Debits,
           pc[w] # "insert", pc'[w] # "insert"
    PROVE  Explains(w)
<1>1. PICK value : value = Debit(wallet, type, ref, amount)
  OBVIOUS
<1>2. Net(value) = Net(wallet)
  BY <1>1, WalletSheet, DebitNet
<1>3. wallets' = [wallets EXCEPT ![u] = Written(@, w, value)]
  BY <1>1
<1>. QED
  BY <1>2, <1>3, WrittenEvenly

LEMMA RefundStakeExplains ==
    ASSUME NEW w \in Workers, HouseHeld, RefundStake(w)
    PROVE  Explains(w)
<1>1. /\ pc[w] = "refund" /\ Goto(w, "touch")
      /\ LET b == tx[w].bet
             t == bets[b].new.ticket
         IN  wallets' = [wallets EXCEPT ![t.user] =
                            Written(@, w, Credit(@.now, "BET_VOID_REFUND", b, t.stake))]
  BY Zenon DEF RefundStake
<1>2. /\ wallets \in [Users -> RowOf(Wallet)] /\ tx[w].bet \in BetIds
      /\ bets \in [BetIds -> RowOf(Bet)] /\ pc \in [Workers -> Statement]
  BY <1>1, Holding, Typed DEF TablesTypedNow, ServingOK
<1>3. PICK b \in BetIds : b = tx[w].bet
  BY <1>2
<1>4. bets[b].new.ticket.user \in Users /\ bets[b].new.ticket.stake \in Int
  BY <1>2 DEF RowOf, Bet, Ticket
<1>5. PICK u \in Users, amount \in Int :
          u = bets[b].new.ticket.user /\ amount = bets[b].new.ticket.stake
  BY <1>4
<1>6. PICK wallet \in Wallet : wallet = wallets[u].now
  BY <1>2, VersionsTyped
<1>7. wallet = Seen(wallets[u], w)
  BY <1>1, <1>6, Holding DEF HoldingOK, WalletAt, Seen
<1>8. wallets' = [wallets EXCEPT ![u] =
                      Written(@, w, Credit(wallet, "BET_VOID_REFUND", b, amount))]
  BY <1>1, <1>2, <1>3, <1>5, <1>6
<1>9. Entry("BET_VOID_REFUND", b) \in Line
  BY DEF Entry, Line, BetLine
<1>10. pc[w] # "insert" /\ pc'[w] # "insert"
  BY <1>1, <1>2 DEF Goto
<1>11. "BET_VOID_REFUND" \notin Debits
  BY DEF Debits
<1>. QED
  BY <1>2, <1>7, <1>8, <1>9, <1>10, <1>11, CreditExplains

\* A cash-out's fee is booked and moves nothing.
LEMMA CashOutExplains ==
    ASSUME NEW w \in Workers, HouseHeld, CashOut(w), ~Rollback(w)
    PROVE  Explains(w)
<1>1. /\ pc[w] = "cashout" /\ Goto(w, "commit")
      /\ LET b == tx[w].bet
             t == bets[b].new.ticket
             paid == Credit(wallets[t.user].now, "BET_CASHOUT_PAYOUT", b, CashoutNet(t))
         IN  wallets' = [wallets EXCEPT ![t.user] =
                            Written(@, w, Record(paid, "BET_CASHOUT_FEE", b, CashoutFee(t)))]
  BY Zenon DEF CashOut
<1>2. /\ wallets \in [Users -> RowOf(Wallet)] /\ tx[w].bet \in BetIds
      /\ bets \in [BetIds -> RowOf(Bet)] /\ pc \in [Workers -> Statement]
  BY <1>1, Holding, Typed DEF TablesTypedNow, ServingOK
<1>3. PICK b \in BetIds : b = tx[w].bet
  BY <1>2
<1>4. PICK t \in Ticket : t = bets[b].new.ticket
  BY <1>2 DEF RowOf, Bet
<1>5. PICK u \in Users : u = t.user
  BY TicketForm
<1>6. CashoutNet(t) \in Int /\ CashoutFee(t) \in Int
  BY Worths
<1>7. PICK net \in Int, fee \in Int : net = CashoutNet(t) /\ fee = CashoutFee(t)
  BY <1>6
<1>8. PICK wallet \in Wallet : wallet = wallets[u].now
  BY <1>2, VersionsTyped
<1>9. wallet = Seen(wallets[u], w)
  BY <1>1, <1>8, Holding, Zenon DEF HoldingOK, WalletAt, Seen
<1>10. PICK paid : paid = Credit(wallet, "BET_CASHOUT_PAYOUT", b, net)
  OBVIOUS
<1>11. PICK noted : noted = Record(paid, "BET_CASHOUT_FEE", b, fee)
  OBVIOUS
<1>12. wallets' = [wallets EXCEPT ![u] = Written(@, w, noted)]
  BY <1>1, <1>2, <1>3, <1>4, <1>5, <1>7, <1>8, <1>10, <1>11
<1>13. Entry("BET_CASHOUT_PAYOUT", b) \in Line /\ Entry("BET_CASHOUT_FEE", b) \in Line
  BY DEF Entry, Line, BetLine
<1>14. pc[w] # "insert" /\ pc'[w] # "insert"
  BY <1>1, <1>2, Zenon DEF Goto
<1>15. "BET_CASHOUT_PAYOUT" \notin Debits
  BY DEF Debits
<1>16. paid \in Sheet /\ Net(paid) = Net(wallet)
  BY <1>10, <1>13, <1>15, WalletSheet, CreditNet
<1>17. Net(noted) = Net(paid)
  BY <1>11, <1>13, <1>16, RecordNet
<1>. QED
  BY <1>2, <1>9, <1>12, <1>14, <1>16, <1>17, WrittenEvenly

LEMMA PayWinnerExplains ==
    ASSUME NEW w \in Workers, HouseHeld, PayWinner(w), ~Rollback(w)
    PROVE  Explains(w)
<1>1. /\ pc[w] = "payout" /\ Goto(w, "result")
      /\ LET b == tx[w].bet
             t == bets[b].new.ticket
         IN  wallets' = [wallets EXCEPT ![t.user] =
                            Written(@, w, Credit(Seen(@, w), "BET_WIN_PAYOUT", b, Payout(t)))]
  BY Zenon DEF PayWinner
<1>2. /\ wallets \in [Users -> RowOf(Wallet)] /\ tx[w].bet \in BetIds
      /\ bets \in [BetIds -> RowOf(Bet)] /\ pc \in [Workers -> Statement]
  BY <1>1, Holding, Typed DEF TablesTypedNow, ServingOK
<1>3. PICK b \in BetIds : b = tx[w].bet
  BY <1>2
<1>4. PICK t \in Ticket : t = bets[b].new.ticket
  BY <1>2 DEF RowOf, Bet
<1>5. PICK u \in Users : u = t.user
  BY TicketForm
<1>6. Payout(t) \in Int
  BY Worths
<1>7. PICK amount \in Int : amount = Payout(t)
  BY <1>6
<1>8. PICK wallet \in Wallet : wallet = Seen(wallets[u], w)
  BY <1>2, VersionsTyped
<1>9. wallets' = [wallets EXCEPT ![u] =
                      Written(@, w, Credit(wallet, "BET_WIN_PAYOUT", b, amount))]
  BY <1>1, <1>2, <1>3, <1>4, <1>5, <1>7, <1>8, Zenon
<1>10. Entry("BET_WIN_PAYOUT", b) \in Line
  BY DEF Entry, Line, BetLine
<1>11. pc[w] # "insert" /\ pc'[w] # "insert"
  BY <1>1, <1>2 DEF Goto
<1>12. "BET_WIN_PAYOUT" \notin Debits
  BY DEF Debits
<1>. QED
  BY <1>2, <1>8, <1>9, <1>10, <1>11, <1>12, CreditExplains

LEMMA BankStakeExplains ==
    ASSUME NEW w \in Workers, HouseHeld, BankStake(w), ~Rollback(w)
    PROVE  Explains(w)
<1>1. /\ pc[w] = "bank" /\ Goto(w, "pool")
      /\ LET r == req[w]
         IN  wallets' = [wallets EXCEPT ![r.user] =
                Written(@, w, Debit(wallets[r.user].now, "PARIMUTUEL_STAKE", r.market, r.amount))]
  BY DEF BankStake
<1>2. /\ wallets \in [Users -> RowOf(Wallet)] /\ pc \in [Workers -> Statement]
      /\ req[w] \in Request \cup {NoRequest} /\ req[w].op = "stake"
  BY <1>1, Holding, Typed DEF TablesTypedNow, ServingOK, OpsAt
<1>3. req[w].user \in Users /\ req[w].market \in Markets /\ req[w].amount \in Nat
  BY <1>2, RequestForms
<1>4. PICK u \in Users, m \in Markets, amount \in Int :
          u = req[w].user /\ m = req[w].market /\ amount = req[w].amount
  BY <1>3
<1>5. PICK wallet \in Wallet : wallet = wallets[u].now
  BY <1>2, VersionsTyped
<1>6. wallet = Seen(wallets[u], w)
  BY <1>1, <1>5, Holding DEF HoldingOK, WalletAt, Seen
<1>7. wallets' = [wallets EXCEPT ![u] =
                      Written(@, w, Debit(wallet, "PARIMUTUEL_STAKE", m, amount))]
  BY <1>1, <1>2, <1>4, <1>5
<1>8. Entry("PARIMUTUEL_STAKE", m) \in Line
  BY DEF Entry, Line, MarketLine
<1>9. pc[w] # "insert" /\ pc'[w] # "insert"
  BY <1>1, <1>2 DEF Goto
<1>10. "PARIMUTUEL_STAKE" \in Debits
  BY DEF Debits
<1>. QED
  BY <1>2, <1>6, <1>7, <1>8, <1>9, <1>10, DebitExplains

LEMMA PayTradeExplains ==
    ASSUME NEW w \in Workers, HouseHeld, PayTrade(w), ~Rollback(w)
    PROVE  Explains(w)
<1>1. /\ pc[w] = "pay" /\ Goto(w, "commit")
      /\ LET r == req[w]
             m == r.market
             cost == tx[w].due
             staked == Debit(wallets[r.user].now, "LMSR_TRADE_STAKE", m, cost)
         IN  wallets' = [wallets EXCEPT ![r.user] =
                            Written(@, w, Debit(staked, "LMSR_FEE", m, SpreadFee(m, cost)))]
  BY Zenon DEF PayTrade
<1>2. /\ wallets \in [Users -> RowOf(Wallet)] /\ pc \in [Workers -> Statement]
      /\ req[w] \in Request \cup {NoRequest} /\ req[w].op = "trade" /\ tx[w] \in Tx
  BY <1>1, Holding, Typed DEF TablesTypedNow, ServingOK, OpsAt
<1>3. req[w].user \in Users /\ req[w].market \in Markets /\ tx[w].due \in Nat
  BY <1>2, RequestForms DEF Tx
<1>4. SpreadFee(req[w].market, tx[w].due) \in Int
  BY <1>3, FeesAreNat
<1>5. PICK u \in Users, m \in Markets, cost \in Int, fee \in Int :
          /\ u = req[w].user /\ m = req[w].market
          /\ cost = tx[w].due /\ fee = SpreadFee(req[w].market, tx[w].due)
  BY <1>3, <1>4
<1>6. PICK wallet \in Wallet : wallet = wallets[u].now
  BY <1>2, VersionsTyped
<1>7. wallet = Seen(wallets[u], w)
  BY <1>1, <1>6, Holding DEF HoldingOK, WalletAt, Seen
<1>8. PICK staked : staked = Debit(wallet, "LMSR_TRADE_STAKE", m, cost)
  OBVIOUS
<1>9. PICK paid : paid = Debit(staked, "LMSR_FEE", m, fee)
  OBVIOUS
<1>10. wallets' = [wallets EXCEPT ![u] = Written(@, w, paid)]
  BY <1>1, <1>2, <1>5, <1>6, <1>8, <1>9
<1>11. Entry("LMSR_TRADE_STAKE", m) \in Line /\ Entry("LMSR_FEE", m) \in Line
  BY DEF Entry, Line, MarketLine
<1>12. pc[w] # "insert" /\ pc'[w] # "insert"
  BY <1>1, <1>2 DEF Goto
<1>13. "LMSR_TRADE_STAKE" \in Debits /\ "LMSR_FEE" \in Debits
  BY DEF Debits
<1>14. staked \in Sheet /\ Net(staked) = Net(wallet)
  BY <1>8, <1>11, <1>13, WalletSheet, DebitNet
<1>15. Net(paid) = Net(staked)
  BY <1>9, <1>11, <1>13, <1>14, DebitNet
<1>. QED
  BY <1>2, <1>7, <1>10, <1>12, <1>14, <1>15, WrittenEvenly

LEMMA PayShareExplains ==
    ASSUME NEW w \in Workers, HouseHeld, PayShare(w)
    PROVE  Explains(w)
<1>1. PICK k \in tx[w].batch : \E amount \in ShareAmounts(w, k) :
          LET u == ShareOwner(w, k)
              paid == Credit(Seen(wallets[u], w), ShareLine(w), req[w].market, amount)
          IN  wallets' = IF amount = 0 THEN wallets
                         ELSE [wallets EXCEPT ![u] = Written(@, w, paid)]
  BY DEF PayShare
<1>2. PICK amount \in ShareAmounts(w, k) :
          LET u == ShareOwner(w, k)
              paid == Credit(Seen(wallets[u], w), ShareLine(w), req[w].market, amount)
          IN  wallets' = IF amount = 0 THEN wallets
                         ELSE [wallets EXCEPT ![u] = Written(@, w, paid)]
  BY <1>1
<1>3. pc[w] = "share" /\ pc' = pc
  BY DEF PayShare
<1>4. /\ wallets \in [Users -> RowOf(Wallet)]
      /\ req[w] \in Request \cup {NoRequest} /\ req[w].op = "settle"
  BY <1>3, Holding, Typed DEF TablesTypedNow, ServingOK, OpsAt
<1>5. PICK m \in Markets : m = req[w].market
  BY <1>4, RequestForms
<1>6. ShareOwner(w, k) \in Users /\ amount \in Int
  BY <1>3, Holding, SharesTyped
<1>7. PICK u \in Users : u = ShareOwner(w, k)
  BY <1>6
<1>8. PICK type : type = ShareLine(w)
  OBVIOUS
<1>9. type \in {"PARIMUTUEL_REFUND", "SETTLEMENT_WIN"}
  BY <1>8 DEF ShareLine
<1>10. Entry(type, m) \in Line /\ type \notin Debits /\ type # "BET_CASHOUT_FEE"
  BY <1>9 DEF Entry, Line, MarketLine, Debits
<1>11. PICK wallet \in Wallet : wallet = Seen(wallets[u], w)
  BY <1>4, VersionsTyped
<1>12. CASE amount = 0
  BY <1>2, <1>3, <1>12, NothingMoved
<1>13. CASE amount # 0
  <2>1. wallets' = [wallets EXCEPT ![u] = Written(@, w, Credit(wallet, type, m, amount))]
    BY <1>2, <1>5, <1>7, <1>8, <1>11, <1>13
  <2>2. pc[w] # "insert" /\ pc'[w] # "insert"
    BY <1>3
  <2>. QED
    BY <1>4, <1>6, <1>10, <1>11, <2>1, <2>2, CreditExplains
<1>. QED
  BY <1>12, <1>13

LEMMA CreditBetExplains ==
    ASSUME NEW w \in Workers, HouseHeld, CreditBet(w)
    PROVE  Explains(w)
<1>1. PICK b \in tx[w].batch :
          LET t == bets[b].now.ticket
          IN  wallets' = [wallets EXCEPT ![t.user] =
                             Written(@, w, Credit(Seen(@, w), "BET_CANCEL_REFUND", b, t.stake))]
  BY Zenon DEF CreditBet
<1>2. pc[w] = "credit" /\ Goto(w, "unbet") /\ Mechanism(req[w].market) = "fixed_odds"
  BY DEF CreditBet
<1>3. /\ wallets \in [Users -> RowOf(Wallet)] /\ bets \in [BetIds -> RowOf(Bet)]
      /\ pc \in [Workers -> Statement] /\ BatchOK(w)
  BY <1>2, Holding, Typed DEF TablesTypedNow, ServingOK
<1>4. b \in BetIds
  BY <1>1, <1>2, <1>3 DEF BatchOK
<1>5. PICK t \in Ticket : t = bets[b].now.ticket
  BY <1>3, <1>4 DEF RowOf, Bet
<1>6. PICK u \in Users, amount \in Int : u = t.user /\ amount = t.stake
  <2>1. t.user \in Users /\ t.stake \in Int
    BY TicketForm
  <2>. QED
    BY <2>1
<1>7. PICK wallet \in Wallet : wallet = Seen(wallets[u], w)
  BY <1>3, VersionsTyped
<1>8. wallets' = [wallets EXCEPT ![u] =
                      Written(@, w, Credit(wallet, "BET_CANCEL_REFUND", b, amount))]
  BY <1>1, <1>3, <1>5, <1>6, <1>7
<1>9. Entry("BET_CANCEL_REFUND", b) \in Line
  BY <1>4 DEF Entry, Line, BetLine
<1>10. pc[w] # "insert" /\ pc'[w] # "insert"
  BY <1>2, <1>3 DEF Goto
<1>11. "BET_CANCEL_REFUND" \notin Debits
  BY DEF Debits
<1>. QED
  BY <1>3, <1>7, <1>8, <1>9, <1>10, <1>11, CreditExplains

LEMMA CreditPoolExplains ==
    ASSUME NEW w \in Workers, HouseHeld, CreditPool(w)
    PROVE  Explains(w)
<1> DEFINE User(k) == IF Mechanism(req[w].market) = "parimutuel" THEN stakes[k].now.user ELSE k
           Amount(k) == IF Mechanism(req[w].market) = "parimutuel" THEN stakes[k].now.amount
                        ELSE markets[req[w].market].now.costs[k]
<1>1. PICK k \in tx[w].batch :
          wallets' = [wallets EXCEPT ![User(k)] =
              Written(@, w, Credit(Seen(@, w), "MARKET_CANCEL_REFUND", req[w].market, Amount(k)))]
  BY Zenon DEF CreditPool
<1>2. pc[w] = "credit" /\ Mechanism(req[w].market) # "fixed_odds" /\ pc' = pc
  BY DEF CreditPool
<1>3. /\ wallets \in [Users -> RowOf(Wallet)] /\ stakes \in [StakeIds -> RowOf(Stake)]
      /\ markets \in [Markets -> RowOf(Market)]
      /\ req[w] \in Request \cup {NoRequest} /\ req[w].op = "annul" /\ BatchOK(w)
  BY <1>2, Holding, Typed DEF TablesTypedNow, ServingOK, OpsAt
<1>4. req[w].market \in Markets
  BY <1>3, RequestForms
<1>5. User(k) \in Users /\ Amount(k) \in Int
  BY <1>1, <1>2, <1>3, <1>4, TermsForm DEF BatchOK, Mechanism, RowOf, Stake, Market
<1>6. PICK u \in Users, m \in Markets, amount \in Int :
          u = User(k) /\ m = req[w].market /\ amount = Amount(k)
  BY <1>4, <1>5
<1>7. wallets' = [wallets EXCEPT ![u] =
          Written(@, w, Credit(Seen(@, w), "MARKET_CANCEL_REFUND", m, amount))]
  BY <1>1, <1>6
<1> HIDE DEF User, Amount
<1>8. PICK wallet \in Wallet : wallet = Seen(wallets[u], w)
  BY <1>3, VersionsTyped
<1>9. wallets' = [wallets EXCEPT ![u] =
          Written(@, w, Credit(wallet, "MARKET_CANCEL_REFUND", m, amount))]
  BY <1>3, <1>7, <1>8
<1>10. Entry("MARKET_CANCEL_REFUND", m) \in Line
  BY DEF Entry, Line, MarketLine
<1>11. pc[w] # "insert" /\ pc'[w] # "insert"
  BY <1>2
<1>12. "MARKET_CANCEL_REFUND" \notin Debits
  BY DEF Debits
<1>. QED
  BY <1>3, <1>8, <1>9, <1>10, <1>11, <1>12, CreditExplains

LEMMA GrantFundsExplains ==
    ASSUME NEW w \in Workers, HouseHeld, GrantFunds(w)
    PROVE  Explains(w)
<1>1. /\ pc[w] = "grant" /\ Goto(w, "commit")
      /\ LET g == req[w].grant
             u == GrantTerms[g].user
         IN  wallets' = [wallets EXCEPT ![u] =
                Written(@, w, Credit(@.now, "FAUCET_GRANT", g, GrantTerms[g].amount))]
  BY DEF GrantFunds
<1>2. /\ wallets \in [Users -> RowOf(Wallet)] /\ pc \in [Workers -> Statement]
      /\ req[w] \in Request \cup {NoRequest} /\ req[w].op = "approve"
  BY <1>1, Holding, Typed DEF TablesTypedNow, ServingOK, OpsAt
<1>3. PICK g \in Grants : g = req[w].grant
  BY <1>2, RequestForms
<1>4. GrantTerms[g].user \in Users /\ GrantTerms[g].amount \in Int
  BY GrantsAssumption
<1>5. PICK u \in Users, amount \in Int : u = GrantTerms[g].user /\ amount = GrantTerms[g].amount
  BY <1>4
<1>6. PICK wallet \in Wallet : wallet = wallets[u].now
  BY <1>2, VersionsTyped
<1>7. wallet = Seen(wallets[u], w)
  BY <1>1, <1>6, Holding DEF HoldingOK, WalletAt, Seen
<1>8. wallets' = [wallets EXCEPT ![u] = Written(@, w, Credit(wallet, "FAUCET_GRANT", g, amount))]
  BY <1>1, <1>2, <1>3, <1>5, <1>6
<1>9. Entry("FAUCET_GRANT", g) \in Line
  BY DEF Entry, Line, GrantLine
<1>10. pc[w] # "insert" /\ pc'[w] # "insert"
  BY <1>1, <1>2 DEF Goto
<1>11. "FAUCET_GRANT" \notin Debits
  BY DEF Debits
<1>. QED
  BY <1>2, <1>7, <1>8, <1>9, <1>10, <1>11, CreditExplains

\* Every statement explains what it moves.
LEMMA StatementsExplain ==
    ASSUME NEW w \in Workers, HouseHeld, WorkerStep(w), ~Rollback(w)
    PROVE  Explains(w)
  BY QuietStatements, DebitStakeExplains, InsertBetExplains, RefundStakeExplains,
     CashOutExplains, PayWinnerExplains, BankStakeExplains, PayTradeExplains, PayShareExplains,
     CreditBetExplains, CreditPoolExplains, GrantFundsExplains
     DEF WorkerStep, FixedOddsStep, PoolStep, FinalStep

----------------------------------------------------------------------------
(***************************************************************************)
(* The other workers, and the ends of transactions.                        *)
(***************************************************************************)

\* A stake is owed only by the worker that holds the wallet.
LEMMA OwedHeld ==
    ASSUME HouseHeld, NEW w \in Workers, NEW u \in Users, wallets[u].by # w
    PROVE  Owed(w, u) = 0
  BY Holding DEF HoldingOK, Owed

\* To another worker a step of w changes nothing.
LEMMA OthersAddUp ==
    ASSUME HouseHeld, NEW w \in Workers, OwnStep(w), NEW v \in Workers \ {w}, AddsUp(v)
    PROVE  AddsUp(v)'
<1>1. wallets \in [Users -> RowOf(Wallet)]
  BY Holding, Typed DEF TablesTypedNow
<1>2. \A u \in Users : Seen(wallets[u], v)' = Seen(wallets[u], v)
  BY <1>1, NobodyAssumption DEF OwnStep, OwnRows, Seen, Free
<1>3. \A u \in Users : Owed(v, u)' = Owed(v, u)
  BY DEF OwnStep, Owed
<1>4. \A u \in Users : Net(Seen(wallets[u], v))' = Net(Seen(wallets[u], v))
  BY <1>2 DEF Net, In, Out
<1>. QED
  BY <1>3, <1>4 DEF AddsUp

\* What the ledger explains of the committed wallets.
LEMMA Committed ==
    ASSUME NEW u \in Users, NEW wallet \in Wallet
    PROVE  Explained(u, wallet) <=> Net(wallet) = InitialFunds[u]
<1>1. wallet.available \in Int /\ In(wallet) \in Int /\ Out(wallet) \in Int
  BY WalletSheet, SumsAreInt
<1>2. InitialFunds[u] \in Int
  BY FundsAssumption
<1>. QED
  BY <1>1, <1>2 DEF Explained, Net, In, Out

\* At the end of a request what its worker wrote becomes everyone's, or nobody's.
LEMMA EndExplains ==
    ASSUME LedgerInv, HouseHeld', NEW w \in Workers, Rollback(w) \/ Commit(w)
    PROVE  LedgerInv'
<1>1. /\ HouseHeld /\ \A v \in Workers : AddsUp(v)
      /\ \A u \in Users : Explained(u, wallets[u].now)
  BY DEF LedgerInv, LedgerExplainsWallets
<1>2. /\ wallets \in [Users -> RowOf(Wallet)] /\ pc \in [Workers -> Statement]
      /\ wallets' \in [Users -> RowOf(Wallet)]
  <2>1. HouseTyped'
    BY DEF HouseHeld
  <2>2. TypeOK'
    BY <2>1 DEF HouseTyped
  <2>. QED
    BY <1>1, <2>2, Holding, Typed DEF TablesTypedNow, TypeOK
<1>3. pc'[w] = "idle" /\ \A v \in Workers \ {w} : pc'[v] = pc[v] /\ tx'[v] = tx[v]
  BY <1>1, <1>2, Holding, Typed DEF Rollback, Commit, EndRequest, Goto
<1>4. wallets' \in {Published(wallets, w), Discarded(wallets, w)}
  BY DEF Rollback, Commit
<1>5. /\ \A u \in Users : wallets'[u].by # w
      /\ \A u \in Users : \A v \in Workers \ {w} :
             wallets'[u].by = v => wallets'[u] = wallets[u]
  BY <1>2, <1>4, RowsEnd
<1>6. \A u \in Users : Net(wallets'[u].now) = InitialFunds[u]
  <2> SUFFICES ASSUME NEW u \in Users
               PROVE  Net(wallets'[u].now) = InitialFunds[u]
    OBVIOUS
  <2>1. wallets[u].now \in Wallet /\ Seen(wallets[u], w) \in Wallet
    BY <1>2, VersionsTyped
  <2>2. CASE Rollback(w)
    <3>1. wallets'[u].now = wallets[u].now
      BY <1>2, <2>2, RowsEnd DEF Rollback
    <3>. QED
      BY <1>1, <2>1, <3>1, Committed
  <2>3. CASE Commit(w)
    <3>1. wallets'[u].now = Seen(wallets[u], w)
      BY <1>2, <2>3, RowsEnd DEF Commit
    <3>2. Net(Seen(wallets[u], w)) + 0 = InitialFunds[u]
      BY <1>1, <2>3 DEF Commit, AddsUp, Owed
    <3>3. Net(Seen(wallets[u], w)) \in Int
      BY <2>1, WalletSheet, SumsAreInt
    <3>. QED
      BY <3>1, <3>2, <3>3
  <2>. QED
    BY <2>2, <2>3
<1>7. ASSUME NEW u \in Users
      PROVE  Explained(u, wallets[u].now)'
  <2>1. PICK wallet : wallet = wallets'[u].now
    OBVIOUS
  <2>2. wallet \in Wallet
    BY <1>2, <2>1, VersionsTyped
  <2>3. Explained(u, wallet)
    BY <1>6, <2>1, <2>2, Committed
  <2>. QED
    BY <2>1, <2>3 DEF Explained
<1>8. ASSUME NEW v \in Workers, NEW u \in Users
      PROVE  (Net(Seen(wallets[u], v)) + Owed(v, u))' = InitialFunds[u]
  <2>1. CASE wallets'[u].by = v
    <3>1. v # w /\ wallets'[u] = wallets[u]
      BY <1>5, <2>1
    <3>2. Seen(wallets[u], v)' = Seen(wallets[u], v)
      BY <3>1 DEF Seen
    <3>3. Owed(v, u)' = Owed(v, u)
      BY <1>3, <3>1 DEF Owed
    <3>4. Net(Seen(wallets[u], v))' = Net(Seen(wallets[u], v))
      BY <3>2 DEF Net, In, Out
    <3>. QED
      BY <1>1, <3>3, <3>4 DEF AddsUp
  <2>2. CASE wallets'[u].by # v
    <3>1. Seen(wallets[u], v)' = wallets'[u].now
      BY <2>2 DEF Seen
    <3>2. Net(Seen(wallets[u], v))' = InitialFunds[u]
      BY <1>6, <3>1 DEF Net, In, Out
    <3>3. HoldingOK(v)'
      BY DEF HouseHeld
    <3>4. Owed(v, u)' = 0
      BY <2>2, <3>3 DEF HoldingOK, Owed
    <3>. QED
      BY <3>2, <3>4, FundsAssumption
  <2>. QED
    BY <2>1, <2>2
<1>9. \A v \in Workers : AddsUp(v)'
  BY <1>8 DEF AddsUp
<1>10. LedgerExplainsWallets'
  BY <1>7 DEF LedgerExplainsWallets
<1>. QED
  BY <1>9, <1>10 DEF LedgerInv

----------------------------------------------------------------------------
(***************************************************************************)
(* The ledger explains every balance.                                      *)
(***************************************************************************)

LEMMA LedgerInit == Init => LedgerInv
<1> SUFFICES ASSUME Init
             PROVE  LedgerInv
  OBVIOUS
<1>1. HouseHeld
  BY HeldInit
<1>2. \A u \in Users :
          /\ wallets[u].now = NewWallet(InitialFunds[u]) /\ wallets[u].by = Nobody
  BY DEF Init, Fresh
<1>3. ASSUME NEW u \in Users
      PROVE  Net(wallets[u].now) = InitialFunds[u]
  <2>1. PICK wallet : wallet = wallets[u].now
    OBVIOUS
  <2>2. wallet.available = InitialFunds[u] /\ \A l \in Line : wallet.ledger[l] = 0
    <3>1. wallet = NewWallet(InitialFunds[u])
      BY <1>2, <2>1
    <3>. QED
      BY <3>1 DEF NewWallet
  <2>3. In(wallet) = 0 /\ Out(wallet) = 0
    <3>1. /\ \A l \in ReceivedLines : wallet.ledger[l] = 0
          /\ \A l \in PaidLines : wallet.ledger[l] = 0
      BY <2>2 DEF ReceivedLines, PaidLines
    <3>. QED
      BY <3>1, LinesFinite, SumZero DEF In, Out
  <2>. QED
    BY <2>1, <2>2, <2>3, FundsAssumption DEF Net
<1>4. \A w \in Workers : AddsUp(w)
  <2> SUFFICES ASSUME NEW w \in Workers, NEW u \in Users
               PROVE  Net(Seen(wallets[u], w)) + Owed(w, u) = InitialFunds[u]
    BY DEF AddsUp
  <2>1. Seen(wallets[u], w) = wallets[u].now
    BY <1>2, NobodyAssumption DEF Seen
  <2>2. Owed(w, u) = 0
    BY DEF Init, Owed
  <2>3. Net(Seen(wallets[u], w)) = InitialFunds[u]
    BY <1>3, <2>1
  <2>4. InitialFunds[u] + 0 = InitialFunds[u]
    BY FundsAssumption
  <2>. QED
    BY <2>2, <2>3, <2>4
<1>5. LedgerExplainsWallets
  <2>1. \A u \in Users : wallets[u].now \in Wallet
    <3>1. wallets \in [Users -> RowOf(Wallet)]
      BY <1>1 DEF HouseHeld, HouseTyped, TypeOK
    <3>. QED
      BY <3>1 DEF RowOf
  <2>. QED
    BY <1>3, <2>1, Committed DEF LedgerExplainsWallets
<1>. QED
  BY <1>1, <1>4, <1>5 DEF LedgerInv

LEMMA LedgerNext == LedgerInv /\ [Next]_vars => LedgerInv'
<1> SUFFICES ASSUME LedgerInv, [Next]_vars
             PROVE  LedgerInv'
  OBVIOUS
<1>1. HouseHeld /\ HouseHeld' /\ \A w \in Workers : AddsUp(w)
  BY HeldNext DEF LedgerInv
<1>2. ASSUME NEW w \in Workers, WorkerStep(w), ~Rollback(w)
      PROVE  LedgerInv'
  <2>1. OwnStep(w) /\ Explains(w)
    BY <1>1, <1>2, WorkersOwn, StatementsExplain
  <2>2. AddsUp(w)'
    BY <1>1, <2>1 DEF AddsUp, Explains
  <2>3. \A v \in Workers : AddsUp(v)'
    BY <1>1, <2>1, <2>2, OthersAddUp
  <2>4. \A u \in Users : wallets'[u].now = wallets[u].now
    BY <1>1, <2>1, Holding, Typed DEF OwnStep, OwnRows, TablesTypedNow
  <2>5. LedgerExplainsWallets'
    BY <2>4 DEF LedgerInv, LedgerExplainsWallets, Explained
  <2>. QED
    BY <1>1, <2>3, <2>5 DEF LedgerInv
<1>3. ASSUME NEW w \in Workers, Rollback(w) \/ Commit(w)
      PROVE  LedgerInv'
  BY <1>1, <1>3, EndExplains
<1>4. ASSUME UNCHANGED <<wallets, pc, tx>>
      PROVE  LedgerInv'
  <2>1. \A w \in Workers : \A u \in Users :
            Seen(wallets[u], w)' = Seen(wallets[u], w) /\ Owed(w, u)' = Owed(w, u)
    BY <1>4 DEF Seen, Owed
  <2>2. \A w \in Workers : AddsUp(w)'
    BY <1>1, <2>1 DEF AddsUp, Net, In, Out
  <2>3. LedgerExplainsWallets'
    BY <1>4 DEF LedgerInv, LedgerExplainsWallets, Explained
  <2>. QED
    BY <1>1, <2>2, <2>3 DEF LedgerInv
<1>5. CASE ClockTick \/ UNCHANGED vars
  BY <1>4, <1>5, TicksKeep DEF tables
<1>6. ASSUME NEW m \in Markets, CloseMarket(m)
      PROVE  LedgerInv'
  BY <1>4, <1>6 DEF CloseMarket
<1>7. HouseTyped
  BY <1>1 DEF HouseHeld
<1>. QED
  BY <1>2, <1>3, <1>5, <1>6, <1>7, StepKinds

\* Every balance is the funds it began with and what the ledger says of it, through every
\* race, crash and deadlock: no statement moves money that the same transaction does not
\* book, and none books money that it does not move.
THEOREM LedgerExplains == Spec => []LedgerExplainsWallets
<1>1. LedgerInv => LedgerExplainsWallets
  BY DEF LedgerInv
<1>. QED
  BY <1>1, LedgerInit, LedgerNext, PTL DEF Spec

----------------------------------------------------------------------------
(***************************************************************************)
(* What the markets whose prices their customers make always keep: what    *)
(* trades have paid follows the market maker's cost function.              *)
(***************************************************************************)

\* What a market's trades have paid beyond the rise of the cost function.
Drift(market) ==
    10000 * SumFunction(market.costs) - (CostFunction(market.shares) - CostFunction(NewMarket.shares))

Priced(market) == 2 * Max({Drift(market), -Drift(market)}) <= 10000 * market.trades

\* The part of a market that only a trade changes.
Trading(market) == <<market.shares, market.costs, market.trades>>

\* A trade that is about to be paid was priced at the shares that it finds.
Quoted(w) ==
    pc[w] = "pay" =>
        LET shares == markets[req[w].market].new.shares
        IN  tx[w].due = RawCost(shares, Bought(req[w], shares))

PricesInv ==
    /\ MarketsHeld
    /\ \A m \in Markets : Priced(markets[m].now) /\ Priced(markets[m].new)
    /\ \A w \in Workers : Quoted(w)

LEMMA SameTrading ==
    ASSUME NEW old, NEW new, Trading(old) = Trading(new), Priced(old)
    PROVE  Priced(new)
<1>1. old.shares = new.shares /\ old.costs = new.costs /\ old.trades = new.trades
  BY DEF Trading
<1>. QED
  BY <1>1 DEF Priced, Drift

LEMMA SharesCost ==
    ASSUME NEW shares \in [Sides -> Nat]
    PROVE  CostFunction(shares) \in Nat
  BY CostGrows DEF Sides

LEMMA Greater ==
    ASSUME NEW a \in Int, NEW b \in Int
    PROVE  /\ a <= b => Max({a, b}) = b
           /\ b <= a => Max({a, b}) = a
<1>1. /\ a <= b => \A x \in {a, b} : (\A y \in {a, b} : x >= y) <=> x = b
      /\ b <= a => \A x \in {a, b} : (\A y \in {a, b} : x >= y) <=> x = a
  OBVIOUS
<1>. QED
  BY <1>1 DEF Max

\* The bound, without the maximum.
LEMMA DriftBounds ==
    ASSUME NEW market \in Market
    PROVE  /\ Drift(market) \in Int /\ market.trades \in Nat
           /\ Priced(market) <=> /\ 2 * Drift(market) <= 10000 * market.trades
                                 /\ 0 - 2 * Drift(market) <= 10000 * market.trades
<1>1. /\ market.shares \in [Sides -> Nat] /\ market.trades \in Nat
      /\ market.costs \in [Users -> Nat]
  BY DEF Market
<1>2. NewMarket.shares \in [Sides -> Nat]
  BY DEF NewMarket
<1>3. SumFunction(market.costs) \in Int
  <2>1. DOMAIN market.costs = Users /\ \A u \in Users : market.costs[u] \in Int
    BY <1>1
  <2>2. SumFunctionOnSet(market.costs, Users) \in Int
    BY <2>1, SumInt, FiniteAssumption
  <2>. QED
    BY <2>1, <2>2 DEF SumFunction
<1>4. CostFunction(market.shares) \in Int /\ CostFunction(NewMarket.shares) \in Int
  BY <1>1, <1>2, SharesCost
<1> DEFINE d == Drift(market)
<1>5. d \in Int
  BY <1>3, <1>4 DEF Drift
<1> HIDE DEF d
<1>6. /\ d <= -d => Max({d, -d}) = -d
      /\ -d <= d => Max({d, -d}) = d
  <2>1. -d \in Int
    BY <1>5
  <2> DEFINE e == -d
  <2> HIDE DEF e
  <2>2. e \in Int
    BY <2>1 DEF e
  <2>3. /\ d <= e => Max({d, e}) = e
        /\ e <= d => Max({d, e}) = d
    BY <1>5, <2>2, Greater
  <2>. QED
    BY <2>3 DEF e
<1>7. 2 * Max({d, -d}) <= 10000 * market.trades
          <=> 2 * d <= 10000 * market.trades /\ 0 - 2 * d <= 10000 * market.trades
  <2>1. CASE d <= -d
    BY <1>1, <1>5, <1>6, <2>1
  <2>2. CASE -d <= d
    BY <1>1, <1>5, <1>6, <2>2
  <2>. QED
    BY <1>5, <2>1, <2>2
<1>. QED
  BY <1>1, <1>5, <1>7 DEF Priced, d

\* A price is the rise of the cost function, but for half a cent.
LEMMA HalfACent ==
    ASSUME NEW r, r.side \in Sides, r.amount \in Nat, NEW shares \in [Sides -> Nat]
    PROVE  LET cost == RawCost(shares, Bought(r, shares))
               rise == CostFunction(Bought(r, shares)) - CostFunction(shares)
           IN  /\ cost \in Nat /\ rise \in Int
               /\ 10000 * cost - rise <= 5000 /\ rise - 10000 * cost <= 5000
<1> DEFINE a == CostFunction(shares)
           b == CostFunction(Bought(r, shares))
           cost == RawCost(shares, Bought(r, shares))
<1>1. a \in Nat /\ b \in Nat
  BY CostGrows DEF Bought
<1>2. cost \in Nat
  BY Prices
<1>3. cost = (b - a + 5000) \div 10000
  BY DEF RawCost
<1> HIDE DEF a, b, cost
<1>4. b - a + 5000 \in Int
  BY <1>1
<1>5. 10000 * cost <= b - a + 5000 /\ b - a + 5000 < 10000 * cost + 10000
  BY <1>2, <1>3, <1>4
<1>6. b - a \in Int /\ 10000 * cost - (b - a) <= 5000 /\ (b - a) - 10000 * cost <= 5000
  BY <1>1, <1>2, <1>5
<1>. QED
  BY <1>2, <1>6 DEF a, b, cost

\* So a trade at its price keeps the books.
LEMMA TradeAtItsPrice ==
    ASSUME NEW old \in Market, NEW new \in Market, NEW r, r.side \in Sides, r.amount \in Nat,
           NEW u \in Users, Priced(old),
           new.shares = Bought(r, old.shares),
           new.costs = [old.costs EXCEPT ![u] = @ + RawCost(old.shares, Bought(r, old.shares))],
           new.trades = old.trades + 1
    PROVE  Priced(new)
<1> DEFINE cost == RawCost(old.shares, Bought(r, old.shares))
           rise == CostFunction(new.shares) - CostFunction(old.shares)
           paid == SumFunction(old.costs)
           start == CostFunction(NewMarket.shares)
           at == CostFunction(old.shares)
<1>1. /\ old.shares \in [Sides -> Nat] /\ old.costs \in [Users -> Nat]
      /\ new.shares \in [Sides -> Nat] /\ new.costs \in [Users -> Nat]
      /\ NewMarket.shares \in [Sides -> Nat]
  BY DEF Market, NewMarket
<1>2. /\ cost \in Nat /\ rise \in Int
      /\ 10000 * cost - rise <= 5000 /\ rise - 10000 * cost <= 5000
  BY <1>1, HalfACent
<1>3. SumFunction(new.costs) = paid + cost /\ paid \in Int
  <2>1. /\ \A v \in Users : old.costs[v] \in Int
        /\ new.costs[u] \in Int /\ \A v \in Users \ {u} : new.costs[v] = old.costs[v]
        /\ new.costs[u] - old.costs[u] = cost
        /\ DOMAIN old.costs = Users /\ DOMAIN new.costs = Users
    <3>1. old.costs[u] \in Int /\ new.costs[u] = old.costs[u] + cost
      BY <1>1
    <3> HIDE DEF cost
    <3>2. new.costs[u] - old.costs[u] = cost
      BY <1>2, <3>1
    <3>. QED
      BY <1>1, <3>2
  <2> DEFINE f == old.costs
             g == new.costs
  <2> HIDE DEF cost, f, g
  <2>2. SumFunctionOnSet(g, Users) = SumFunctionOnSet(f, Users) + (g[u] - f[u])
    BY <2>1, FiniteAssumption, SumChanged DEF f, g
  <2>3. SumFunctionOnSet(f, Users) \in Int
    BY <2>1, FiniteAssumption, SumInt DEF f
  <2>. QED
    BY <2>1, <2>2, <2>3 DEF SumFunction, f, g
<1>4. at \in Int /\ start \in Int /\ CostFunction(new.shares) = at + rise
  <2>1. at \in Nat /\ start \in Nat /\ CostFunction(new.shares) \in Nat
    BY <1>1, SharesCost
  <2>. QED
    BY <2>1
<1>5. Drift(old) = 10000 * paid - (at - start)
  BY DEF Drift
<1>6. Drift(new) = 10000 * SumFunction(new.costs) - (CostFunction(new.shares) - start)
  BY DEF Drift
<1> HIDE DEF cost, rise, paid, start, at
<1>7. Drift(new) = 10000 * (paid + cost) - ((at + rise) - start)
  BY <1>3, <1>4, <1>6
<1>8. Drift(new) = Drift(old) + (10000 * cost - rise) /\ Drift(old) \in Int
  BY <1>2, <1>3, <1>4, <1>5, <1>7
<1> DEFINE d == Drift(old)
           e == Drift(new)
<1>9. /\ 2 * d <= 10000 * old.trades /\ 0 - 2 * d <= 10000 * old.trades /\ old.trades \in Nat
  BY DriftBounds
<1>10. d \in Int /\ e = d + (10000 * cost - rise)
  BY <1>8
<1> HIDE DEF d, e
<1>11. 2 * e <= 10000 * (old.trades + 1) /\ 0 - 2 * e <= 10000 * (old.trades + 1)
  BY <1>2, <1>9, <1>10
<1>12. 2 * Drift(new) <= 10000 * new.trades /\ 0 - 2 * Drift(new) <= 10000 * new.trades
  BY <1>11 DEF e
<1>. QED
  BY <1>12, DriftBounds

LEMMA StatusWritten ==
    ASSUME NEW old \in Market, NEW status, NEW outcome
    PROVE  Trading([old EXCEPT !.status = status, !.outcome = outcome]) = Trading(old)
<1> DEFINE new == [old EXCEPT !.status = status, !.outcome = outcome]
<1>1. new.shares = old.shares /\ new.costs = old.costs /\ new.trades = old.trades
  BY DEF Market
<1>. QED
  BY <1>1 DEF Trading

\* No other statement changes what trades have made of a market.
LEMMA TradingStays ==
    ASSUME NEW w \in Workers, HouseHeld, WorkerStep(w), ~Rollback(w), ~PayTrade(w),
           NEW m \in Markets
    PROVE  \/ Trading(markets'[m].new) = Trading(markets[m].new)
           \/ Trading(markets'[m].new) = Trading(markets[m].now)
<1>1. markets \in [Markets -> RowOf(Market)]
  BY Holding, Typed DEF TablesTypedNow
<1>0. PICK old \in Market : old = markets[m].now
  BY <1>1 DEF RowOf
<1>2. CASE \/ StartPlace(w) \/ StartExecute(w) \/ StartQuote(w) \/ StartLeave(w)
           \/ StartStake(w) \/ StartTrade(w) \/ StartSettle(w) \/ StartAnnul(w)
           \/ Patch(w) \/ StartReview(w)
  BY <1>2, NewcomersHoldNothing
<1>3. CASE \/ Claim(w) \/ Look(w) \/ Assess(w) \/ DebitStake(w) \/ InsertBet(w) \/ Register(w)
           \/ LockBet(w) \/ RefundStake(w) \/ CashOut(w) \/ BankStake(w)
           \/ Approve(w) \/ GrantFunds(w) \/ Reject(w)
           \/ Result(w) \/ PayWinner(w) \/ Divide(w) \/ PayShare(w)
           \/ CreditBet(w) \/ VoidBet(w) \/ CreditPool(w) \/ FinishCancel(w)
  <2>1. markets' = markets
    BY <1>3 DEF Claim, Look, Assess, DebitStake, InsertBet, Register, LockBet, RefundStake,
       CashOut, BankStake, Approve, GrantFunds, Reject, Result, PayWinner, Divide, PayShare,
       CreditBet, VoidBet, CreditPool, FinishCancel, tables
  <2>. QED
    BY <2>1
<1>4. CASE TouchMarket(w) \/ Price(w)
  <2>1. \E k : markets' = [markets EXCEPT ![k] = Locked(@, w)]
    BY <1>4, Zenon DEF TouchMarket, Price
  <2>2. markets'[m].new = markets[m].new
    BY <1>1, <2>1 DEF Locked, RowOf
  <2>. QED
    BY <2>2
<1>5. CASE AddToPool(w)
  <2>1. PICK value : value = [old EXCEPT !.pool[req[w].side] = @ + req[w].amount]
    OBVIOUS
  <2>2. Trading(value) = Trading(old)
    BY <2>1 DEF Market, Trading
  <2>3. CASE req[w].market = m
    <3>1. markets' = [markets EXCEPT ![m] = Written(@, w, value)]
      BY <1>5, <1>0, <2>1, <2>3 DEF AddToPool
    <3>. QED
      BY <1>1, <2>2, <3>1, <1>0 DEF Written, RowOf
  <2>4. CASE req[w].market # m
    BY <1>1, <1>5, <2>4, Zenon DEF AddToPool
  <2>. QED
    BY <2>3, <2>4
<1>6. CASE WritePatch(w)
  <2>1. PICK value : value = [old EXCEPT !.status = req[w].status]
    OBVIOUS
  <2>2. Trading(value) = Trading(old)
    BY <2>1 DEF Market, Trading
  <2>3. CASE req[w].market = m
    <3>1. markets' = [markets EXCEPT ![m] = Written(@, w, value)]
      BY <1>6, <1>0, <2>1, <2>3 DEF WritePatch
    <3>. QED
      BY <1>1, <2>2, <3>1, <1>0 DEF Written, RowOf
  <2>4. CASE req[w].market # m
    BY <1>1, <1>6, <2>4 DEF WritePatch
  <2>. QED
    BY <2>3, <2>4
<1>7. CASE Decide(w)
  <2>1. PICK value : value = [old EXCEPT !.status = "settled", !.outcome = req[w].outcome]
    OBVIOUS
  <2>2. Trading(value) = Trading(old)
    BY <2>1, StatusWritten
  <2>3. CASE req[w].market = m
    <3>1. markets' = [markets EXCEPT ![m] = Written(@, w, value)]
      BY <1>7, <1>0, <2>1, <2>3 DEF Decide
    <3>. QED
      BY <1>1, <2>2, <3>1, <1>0 DEF Written, RowOf
  <2>4. CASE req[w].market # m
    BY <1>1, <1>7, <2>4, Zenon DEF Decide
  <2>. QED
    BY <2>3, <2>4
<1>8. CASE FinishSettle(w)
  <2>1. PICK value : value = [old EXCEPT !.status = "settled", !.outcome = req[w].outcome]
    OBVIOUS
  <2>2. Trading(value) = Trading(old)
    BY <2>1, StatusWritten
  <2>3. CASE req[w].market = m
    <3>1. \/ markets' = markets
          \/ markets' = [markets EXCEPT ![m] = Written(@, w, value)]
      BY <1>8, <1>0, <2>1, <2>3 DEF FinishSettle
    <3>. QED
      BY <1>1, <2>2, <3>1, <1>0 DEF Written, RowOf
  <2>4. CASE req[w].market # m
    BY <1>1, <1>8, <2>4 DEF FinishSettle
  <2>. QED
    BY <2>3, <2>4
<1>9. CASE LockToCancel(w)
  <2>0. PICK pool, held :
            pool = [s \in Sides |-> 0] /\ held = [u \in Users |-> [s \in Sides |-> 0]]
    OBVIOUS
  <2>1. PICK value :
            value = [old EXCEPT !.status = "cancelled", !.pool = pool, !.held = held]
    OBVIOUS
  <2>2. Trading(value) = Trading(old)
    <3>1. value.shares = old.shares /\ value.costs = old.costs /\ value.trades = old.trades
      BY <2>1 DEF Market
    <3>. QED
      BY <3>1 DEF Trading
  <2>3. CASE req[w].market = m
    <3>1. markets' = [markets EXCEPT ![m] = Written(@, w, value)]
      BY <1>9, <1>0, <2>0, <2>1, <2>3 DEF LockToCancel
    <3>. QED
      BY <1>1, <2>2, <3>1, <1>0 DEF Written, RowOf
  <2>4. CASE req[w].market # m
    BY <1>1, <1>9, <2>4 DEF LockToCancel
  <2>. QED
    BY <2>3, <2>4
<1>. QED
  BY <1>2, <1>3, <1>4, <1>5, <1>6, <1>7, <1>8, <1>9
     DEF WorkerStep, FixedOddsStep, PoolStep, FinalStep

\* Nobody is about to pay for a trade but who has just priced it.
LEMMA OnlyPriceQuotes ==
    ASSUME NEW w \in Workers, HouseHeld, WorkerStep(w), ~Rollback(w), pc'[w] = "pay"
    PROVE  Price(w)
<1>1. pc \in [Workers -> Statement]
  BY Holding, Typed
<1>2. ~(\/ StartPlace(w) \/ StartExecute(w) \/ StartQuote(w) \/ StartLeave(w)
        \/ StartStake(w) \/ StartTrade(w) \/ StartSettle(w) \/ StartAnnul(w) \/ Patch(w))
  BY <1>1 DEF StartPlace, StartExecute, StartQuote, StartLeave, StartStake, StartTrade,
     StartSettle, StartAnnul, Patch, Goto
<1>3. ~StartReview(w)
  BY <1>1 DEF StartReview, Goto
<1>4. ~(\/ Claim(w) \/ Look(w) \/ Assess(w) \/ DebitStake(w) \/ InsertBet(w) \/ Register(w)
        \/ LockBet(w) \/ RefundStake(w) \/ CashOut(w) \/ TouchMarket(w))
  BY <1>1 DEF Claim, Look, Assess, DebitStake, InsertBet, Register, EndRequest, LockBet,
     RefundStake, CashOut, TouchMarket, Goto
<1>5. ~(BankStake(w) \/ AddToPool(w) \/ PayTrade(w) \/ Approve(w) \/ GrantFunds(w) \/ Reject(w))
  BY <1>1, Zenon DEF BankStake, AddToPool, PayTrade, Approve, GrantFunds, Reject, Goto
<1>6. ~(\/ Decide(w) \/ Result(w) \/ PayWinner(w) \/ Divide(w) \/ PayShare(w)
        \/ FinishSettle(w))
  BY <1>1 DEF Decide, Result, PayWinner, Divide, PayShare, FinishSettle, Goto
<1>7. ~(\/ LockToCancel(w) \/ CreditBet(w) \/ VoidBet(w) \/ CreditPool(w) \/ FinishCancel(w)
        \/ WritePatch(w))
  BY <1>1, Zenon DEF LockToCancel, CreditBet, VoidBet, CreditPool, FinishCancel, WritePatch, Goto
<1>. QED
  BY <1>2, <1>3, <1>4, <1>5, <1>6, <1>7 DEF WorkerStep, FixedOddsStep, PoolStep, FinalStep

\* The price is made under the lock, of the shares that the trade will find.
LEMMA PriceQuotes ==
    ASSUME MarketsHeld, NEW w \in Workers, Price(w)
    PROVE  Quoted(w)'
<1>1. /\ pc[w] = "price" /\ Free(markets[req[w].market], w) /\ req' = req
      /\ markets' = [markets EXCEPT ![req[w].market] = Locked(@, w)]
      /\ LET shares == markets[req[w].market].now.shares
         IN  tx' = [tx EXCEPT ![w].due = RawCost(shares, Bought(req[w], shares))]
  BY DEF Price, FreeForUpdate
<1>2. /\ HouseHeld /\ markets \in [Markets -> RowOf(Market)] /\ tx \in [Workers -> Tx]
      /\ req[w] \in Request \cup {NoRequest} /\ req[w].op = "trade"
  BY <1>1, Holding, Typed DEF MarketsHeld, TablesTypedNow, ServingOK, OpsAt
<1>3. PICK m \in Markets : m = req[w].market
  BY <1>2, RequestForms
<1>4. markets[m].new = markets[m].now
  BY <1>1, <1>3 DEF MarketsHeld, Clean, MarketsOK, MarketAt, Free
<1>5. markets'[m].new = markets[m].new
  BY <1>1, <1>2, <1>3 DEF Locked, RowOf
<1>6. PICK shares : shares = markets[m].now.shares
  OBVIOUS
<1>7. tx'[w].due = RawCost(shares, Bought(req[w], shares))
  BY <1>1, <1>2, <1>3, <1>6 DEF Tx
<1>8. shares = markets'[req'[w].market].new.shares /\ req'[w] = req[w]
  BY <1>1, <1>3, <1>4, <1>5, <1>6
<1>9. PICK r : r = req[w]
  OBVIOUS
<1>10. Quoted(w)' <=> (pc'[w] = "pay" => tx'[w].due = RawCost(markets'[req'[w].market].new.shares,
                           Bought(req'[w], markets'[req'[w].market].new.shares)))
  BY DEF Quoted
<1>11. req'[w] = r /\ tx'[w].due = RawCost(shares, Bought(r, shares))
  BY <1>7, <1>8, <1>9
<1>. QED
  BY <1>8, <1>10, <1>11

\* And then it is paid, once.
LEMMA PayTradePriced ==
    ASSUME PricesInv, MarketsHeld', NEW w \in Workers, PayTrade(w), ~Rollback(w), NEW m \in Markets
    PROVE  Priced(markets'[m].new)
<1>1. /\ HouseHeld /\ markets \in [Markets -> RowOf(Market)]
      /\ pc[w] = "pay" /\ req[w] \in Request \cup {NoRequest} /\ req[w].op = "trade"
  BY Holding, Typed, Zenon DEF PricesInv, MarketsHeld, TablesTypedNow, ServingOK, OpsAt, PayTrade
<1>2. PICK k \in Markets : k = req[w].market
  BY <1>1, RequestForms
<1>3. req[w].user \in Users /\ req[w].side \in Sides /\ req[w].amount \in Nat
  BY <1>1, RequestForms
<1>4. PICK cost : cost = tx[w].due
  OBVIOUS
<1>5. PICK old \in Market : old = markets[k].new
  BY <1>1 DEF RowOf
<1>6. cost = RawCost(old.shares, Bought(req[w], old.shares))
  BY <1>1, <1>2, <1>4, <1>5 DEF PricesInv, Quoted
<1>7. markets'[k].new =
          [old EXCEPT !.shares = Bought(req[w], @), !.held[req[w].user][req[w].side] = @ + req[w].amount,
                      !.costs[req[w].user] = @ + cost, !.trades = @ + 1]
  <2>1. LET r == req[w]
            traded == [markets[r.market].new EXCEPT !.shares = Bought(r, @),
                           !.held[r.user][r.side] = @ + r.amount,
                           !.costs[r.user] = @ + tx[w].due, !.trades = @ + 1]
        IN  markets' = [markets EXCEPT ![r.market].new = traded]
    BY Zenon DEF PayTrade
  <2>2. PICK traded : traded =
            [old EXCEPT !.shares = Bought(req[w], @), !.held[req[w].user][req[w].side] = @ + req[w].amount,
                        !.costs[req[w].user] = @ + cost, !.trades = @ + 1]
    OBVIOUS
  <2>3. markets' = [markets EXCEPT ![k].new = traded]
    BY <1>2, <1>4, <1>5, <2>1, <2>2, Zenon
  <2>4. markets'[k].new = traded
    BY <1>1, <2>3 DEF RowOf
  <2>. QED
    BY <2>2, <2>4
<1>8. /\ markets'[k].new.shares = Bought(req[w], old.shares)
      /\ markets'[k].new.costs = [old.costs EXCEPT ![req[w].user] = @ + cost]
      /\ markets'[k].new.trades = old.trades + 1
  BY <1>7 DEF Market
<1>9. markets'[k].new \in Market
  <2>1. markets' \in [Markets -> RowOf(Market)]
    BY DEF MarketsHeld, HouseHeld, HouseTyped, TypeOK
  <2>. QED
    BY <2>1 DEF RowOf
<1>10. Priced(old)
  BY <1>5 DEF PricesInv
<1>11. Priced(markets'[k].new)
  <2> DEFINE new == markets'[k].new
             r == req[w]
  <2>1. /\ new \in Market /\ r.side \in Sides /\ r.amount \in Nat /\ r.user \in Users
        /\ new.shares = Bought(r, old.shares)
        /\ new.costs = [old.costs EXCEPT ![r.user] = @ + RawCost(old.shares, Bought(r, old.shares))]
        /\ new.trades = old.trades + 1
    BY <1>3, <1>6, <1>8, <1>9
  <2> HIDE DEF new, r
  <2>2. Priced(new)
    BY <1>10, <2>1, TradeAtItsPrice
  <2>. QED
    BY <2>2 DEF new
<1>12. CASE m = k
  BY <1>11, <1>12
<1>13. CASE m # k
  <2>1. markets'[m] = markets[m]
    BY <1>1, <1>2, <1>13, Zenon DEF PayTrade
  <2>. QED
    BY <2>1 DEF PricesInv
<1>. QED
  BY <1>12, <1>13

\* A quote depends on the row and on what its worker remembers.
LEMMA SameQuote ==
    ASSUME NEW w, Quoted(w), pc'[w] = pc[w], req'[w] = req[w], tx'[w] = tx[w],
           pc[w] = "pay" => markets'[req[w].market] = markets[req[w].market]
    PROVE  Quoted(w)'
<1>1. CASE pc[w] = "pay"
  <2>1. PICK r, shares : r = req[w] /\ shares = markets[req[w].market].new.shares
    OBVIOUS
  <2>2. tx[w].due = RawCost(shares, Bought(r, shares))
    BY <1>1, <2>1 DEF Quoted
  <2>3. /\ req'[w] = r /\ markets'[req'[w].market].new.shares = shares
        /\ tx'[w].due = RawCost(shares, Bought(r, shares))
    BY <1>1, <2>1, <2>2
  <2>4. Quoted(w)' <=> (pc'[w] = "pay" => tx'[w].due = RawCost(markets'[req'[w].market].new.shares,
                             Bought(req'[w], markets'[req'[w].market].new.shares)))
    BY DEF Quoted
  <2>. QED
    BY <2>3, <2>4
<1>2. CASE pc[w] # "pay"
  BY <1>2 DEF Quoted
<1>. QED
  BY <1>1, <1>2

LEMMA PricesInit == Init => PricesInv
<1> SUFFICES ASSUME Init
             PROVE  PricesInv
  OBVIOUS
<1>1. MarketsHeld
  BY MarketsHeldInit
<1>2. Priced(NewMarket)
  <2>1. NewMarket \in Market
    BY DEF NewMarket, Market, MarketStatus
  <2>2. NewMarket.costs = [u \in Users |-> 0] /\ NewMarket.trades = 0
        /\ NewMarket.shares \in [Sides -> Nat]
    BY DEF NewMarket
  <2>3. SumFunction(NewMarket.costs) = 0
    <3>1. DOMAIN NewMarket.costs = Users /\ \A u \in Users : NewMarket.costs[u] = 0
      BY <2>2
    <3>2. SumFunctionOnSet(NewMarket.costs, Users) = 0
      BY <3>1, FiniteAssumption, SumZero
    <3>. QED
      BY <3>1, <3>2 DEF SumFunction
  <2>4. CostFunction(NewMarket.shares) \in Int
    BY <2>2, SharesCost
  <2>5. Drift(NewMarket) = 0
    BY <2>3, <2>4 DEF Drift
  <2>. QED
    BY <2>1, <2>2, <2>5, DriftBounds
<1>3. \A m \in Markets : Priced(markets[m].now) /\ Priced(markets[m].new)
  BY <1>2 DEF Init, Fresh
<1>4. \A w \in Workers : Quoted(w)
  BY DEF Init, Quoted
<1>. QED
  BY <1>1, <1>3, <1>4 DEF PricesInv

LEMMA PricesNext == PricesInv /\ [Next]_vars => PricesInv'
<1> SUFFICES ASSUME PricesInv, [Next]_vars
             PROVE  PricesInv'
  OBVIOUS
<1>1. /\ MarketsHeld /\ MarketsHeld' /\ HouseHeld /\ HouseTyped
      /\ markets \in [Markets -> RowOf(Market)] /\ markets' \in [Markets -> RowOf(Market)]
  BY MarketsHeldNext DEF PricesInv, MarketsHeld, HouseHeld, HouseTyped, TypeOK
<1>2. ASSUME NEW w \in Workers, WorkerStep(w), ~Rollback(w)
      PROVE  PricesInv'
  <2>1. OwnStep(w)
    BY <1>1, <1>2, WorkersOwn
  <2>2. ASSUME NEW m \in Markets
        PROVE  Priced(markets'[m].now) /\ Priced(markets'[m].new)
    <3>1. markets'[m].now = markets[m].now
      BY <1>1, <2>1 DEF OwnStep, OwnRows
    <3>2. Priced(markets'[m].new)
      <4>1. CASE PayTrade(w)
        BY <1>1, <1>2, <4>1, PayTradePriced
      <4>2. CASE ~PayTrade(w)
        BY <1>1, <1>2, <4>2, TradingStays, SameTrading DEF PricesInv
      <4>. QED
        BY <4>1, <4>2
    <3>. QED
      BY <3>1, <3>2 DEF PricesInv
  <2>3. Quoted(w)'
    <3>1. CASE pc'[w] = "pay"
      BY <1>1, <1>2, <3>1, OnlyPriceQuotes, PriceQuotes
    <3>2. CASE pc'[w] # "pay"
      BY <3>2 DEF Quoted
    <3>. QED
      BY <3>1, <3>2
  <2>4. ASSUME NEW v \in Workers \ {w}
        PROVE  Quoted(v)'
    <3>1. pc'[v] = pc[v] /\ req'[v] = req[v] /\ tx'[v] = tx[v]
      BY <2>1 DEF OwnStep
    <3>2. pc[v] = "pay" => req[v].market \in Markets /\ markets[req[v].market].by = v
      BY <1>1, Holding, Typed, RequestForms DEF HoldingOK, LocksOK, ServingOK, OpsAt
    <3>3. pc[v] = "pay" => markets'[req[v].market] = markets[req[v].market]
      BY <1>1, <2>1, <3>2, NobodyAssumption DEF OwnStep, OwnRows, Free
    <3>4. Quoted(v)
      BY DEF PricesInv
    <3>. QED
      BY <3>1, <3>3, <3>4, SameQuote
  <2>. QED
    BY <1>1, <2>2, <2>3, <2>4 DEF PricesInv
<1>3. ASSUME NEW w \in Workers, Rollback(w) \/ Commit(w)
      PROVE  PricesInv'
  <2>1. markets' \in {Published(markets, w), Discarded(markets, w)} /\ EndRequest(w)
    BY <1>3 DEF Rollback, Commit
  <2>2. \A v \in Workers \ {w} : pc'[v] = pc[v] /\ req'[v] = req[v] /\ tx'[v] = tx[v]
    BY <1>1, <2>1, Holding, Typed DEF EndRequest, Goto
  <2>3. ASSUME NEW m \in Markets
        PROVE  /\ markets'[m].now \in {markets[m].now, markets[m].new}
               /\ markets'[m].new \in {markets[m].now, markets[m].new}
    BY <1>1, <2>1 DEF Published, Discarded, Fresh
  <2>4. \A m \in Markets : Priced(markets'[m].now) /\ Priced(markets'[m].new)
    BY <2>3 DEF PricesInv
  <2>5. ASSUME NEW v \in Workers
        PROVE  Quoted(v)'
    <3>1. CASE v = w
      BY <1>1, <2>1, <3>1, Holding, Typed DEF EndRequest, Goto, Quoted
    <3>2. CASE v # w
      <4>1. pc[v] = "pay" => req[v].market \in Markets /\ markets[req[v].market].by = v
        BY <1>1, Holding, Typed, RequestForms DEF HoldingOK, LocksOK, ServingOK, OpsAt
      <4>2. pc[v] = "pay" => markets'[req[v].market] = markets[req[v].market]
        BY <1>1, <2>1, <3>2, <4>1, RowsEnd
      <4>3. Quoted(v)
        BY DEF PricesInv
      <4>. QED
        BY <2>2, <3>2, <4>2, <4>3, SameQuote
    <3>. QED
      BY <3>1, <3>2
  <2>. QED
    BY <1>1, <2>4, <2>5 DEF PricesInv
<1>4. CASE ClockTick \/ UNCHANGED vars
  <2>1. UNCHANGED <<markets, pc, req, tx>>
    BY <1>4, TicksKeep DEF tables
  <2>2. \A v \in Workers : Quoted(v)'
    BY <2>1, SameQuote DEF PricesInv
  <2>. QED
    BY <1>1, <2>1, <2>2 DEF PricesInv
<1>5. ASSUME NEW k \in Markets, CloseMarket(k)
      PROVE  PricesInv'
  <2>1. /\ markets[k].by = Nobody /\ UNCHANGED <<pc, req, tx>>
        /\ markets' = [markets EXCEPT ![k] = Fresh([markets[k].now EXCEPT !.status = "closed"])]
    BY <1>5 DEF CloseMarket
  <2>2. ASSUME NEW m \in Markets
        PROVE  Priced(markets'[m].now) /\ Priced(markets'[m].new)
    <3>1. CASE m # k
      BY <1>1, <2>1, <3>1 DEF PricesInv
    <3>2. CASE m = k
      <4>1. PICK old \in Market : old = markets[k].now
        BY <1>1 DEF RowOf
      <4>2. PICK value : value = [old EXCEPT !.status = "closed"]
        OBVIOUS
      <4>3. Trading(value) = Trading(old)
        BY <4>2 DEF Market, Trading
      <4>4. markets'[k] = Fresh(value)
        BY <1>1, <2>1, <4>1, <4>2
      <4>5. markets'[k].now = value /\ markets'[k].new = value
        BY <4>4 DEF Fresh
      <4>6. Priced(value)
        BY <4>1, <4>3, SameTrading DEF PricesInv
      <4>. QED
        BY <3>2, <4>5, <4>6
    <3>. QED
      BY <3>1, <3>2
  <2>3. ASSUME NEW v \in Workers
        PROVE  Quoted(v)'
    <3>1. pc[v] = "pay" => req[v].market \in Markets /\ markets[req[v].market].by = v
      BY <1>1, Holding, Typed, RequestForms DEF HoldingOK, LocksOK, ServingOK, OpsAt
    <3>2. pc[v] = "pay" => markets'[req[v].market] = markets[req[v].market]
      BY <1>1, <2>1, <3>1, NobodyAssumption
    <3>. QED
      BY <2>1, <3>2, SameQuote DEF PricesInv
  <2>. QED
    BY <1>1, <2>2, <2>3 DEF PricesInv
<1>. QED
  BY <1>1, <1>2, <1>3, <1>4, <1>5, StepKinds

\* However trades interleave with each other and with the statements that settle, cancel,
\* close or patch their market, together they have paid what the cost function rose by, but
\* for half a cent for each: every trade is priced under the lock that it is paid under.
THEOREM TakingsFollowTheCost == Spec => []PathIndependent
<1>1. PricesInv => PathIndependent
  <2> SUFFICES ASSUME PricesInv, NEW m \in Markets
               PROVE  LET market == markets[m].now
                          rise == CostFunction(market.shares) - CostFunction(NewMarket.shares)
                          off == 10000 * SumFunction(market.costs) - rise
                      IN  2 * Max({off, -off}) <= 10000 * market.trades
    BY DEF PathIndependent
  <2>1. Priced(markets[m].now)
    BY DEF PricesInv
  <2>. QED
    BY <2>1 DEF Priced, Drift
<1>. QED
  BY <1>1, PricesInit, PricesNext, PTL DEF Spec

----------------------------------------------------------------------------
(***************************************************************************)
(* Parimutuel pools: the columns of a market are the sums of the stakes'   *)
(* entries.  A stake's row and the pool it is added to are written by one  *)
(* transaction, the second under the lock of the market.  What follows is  *)
(* about a load of the run, whose requests are all there ever are.         *)
(***************************************************************************)

Fits(mix) ==
    /\ load.crew = mix.crew
    /\ \A r \in todo : r \in mix.todo
    /\ \A w \in Workers : req[w] \in mix.todo \cup {NoRequest}

Annulable(mix, m) == \E r \in mix.todo : r.op = "annul" /\ r.market = m

IsPool(m) == Mechanism(m) = "parimutuel"

StakeOf(r) == [user |-> r.user, market |-> r.market, side |-> r.side, amount |-> r.amount]

\* A worker that has made a stake's entry, and not yet committed it.
Banked(w) == req[w].op = "stake" /\ pc[w] \in {"pool", "commit"}

\* It has one new row, and nobody else has any.
StakeOK(w) ==
    /\ req[w].op = "stake" => IsPool(req[w].market)
    /\ \A i \in StakeIds : stakes[i].by = w =>
           Banked(w) /\ stakes[i].now.amount = 0 /\ stakes[i].new = StakeOf(req[w])
    /\ Banked(w) => \E i \in StakeIds : \A j \in StakeIds : stakes[j].by = w <=> j = i

\* What w will make of the pool m: its stake is added, or the pool is left as it is, or
\* cancelled for good.
PoolWritten(mix, w, m) ==
    LET row == markets[m]
    IN  /\ req[w].op = "stake" =>
               /\ m = req[w].market /\ pc[w] = "commit"
               /\ row.new.pool = [row.now.pool EXCEPT ![req[w].side] = @ + req[w].amount]
        /\ req[w].op # "stake" =>
               \/ row.new.pool = row.now.pool
               \/ row.new.status = "cancelled" /\ Annulable(mix, m)
        /\ Annulable(mix, m) /\ row.now.status = "cancelled" => row.new.status = "cancelled"

PoolOK(mix, w) ==
    /\ \A m \in Markets : IsPool(m) /\ markets[m].by = w => PoolWritten(mix, w, m)
    /\ req[w].op = "stake" /\ pc[w] = "commit" => markets[req[w].market].by = w
    /\ req[w].op = "settle" /\ IsPool(req[w].market) /\ Annulable(mix, req[w].market) =>
           markets[req[w].market].now.status # "cancelled"

\* Stakes are only made in pools, and the other markets' pools stay empty.
OnlyPools ==
    /\ \A i \in StakeIds : stakes[i].now.amount > 0 => IsPool(stakes[i].now.market)
    /\ \A m \in Markets : ~IsPool(m) =>
           markets[m].now.pool = NewMarket.pool /\ markets[m].new.pool = NewMarket.pool

CleanStakes == \A i \in StakeIds : stakes[i].by = Nobody => stakes[i].new = stakes[i].now

Matched(m) == \A side \in Sides : markets[m].now.pool[side] = StakeTotal(m, {side})

Matches(mix) ==
    \A m \in Markets :
        IsPool(m) /\ (markets[m].now.status # "cancelled" \/ ~Annulable(mix, m)) => Matched(m)

PoolInv(mix) ==
    /\ MarketsHeld /\ Fits(mix) /\ CleanStakes /\ OnlyPools /\ Matches(mix)
    /\ \A w \in Workers : StakeOK(w) /\ PoolOK(mix, w)

(***************************************************************************)
(* Totals.                                                                 *)
(***************************************************************************)

\* Rows of committed stakes, and one side's total on a market.
TotalOf(rows, m, side) ==
    SumFunctionOnSet([i \in StakeIds |-> rows[i].amount],
                     {i \in StakeIds : rows[i].amount > 0 /\ rows[i].market = m
                                          /\ rows[i].side \in {side}})

\* The same, of a column that is 0 where the row is about something else.
InColumn(row, m, side) == IF row.market = m /\ row.side = side THEN row.amount ELSE 0

LEMMA StakeIdsFinite == IsFiniteSet(StakeIds)
  BY BoundsAssumption, FS_Interval DEF StakeIds

LEMMA TotalIsColumn ==
    ASSUME NEW rows \in [StakeIds -> Stake], NEW m, NEW side
    PROVE  TotalOf(rows, m, side)
             = SumFunctionOnSet([i \in StakeIds |-> InColumn(rows[i], m, side)], StakeIds)
<1>1. PICK f : f = [i \in StakeIds |-> rows[i].amount]
  OBVIOUS
<1>2. PICK g : g = [i \in StakeIds |-> InColumn(rows[i], m, side)]
  OBVIOUS
<1>3. PICK R \in SUBSET StakeIds :
         R = {i \in StakeIds : rows[i].amount > 0 /\ rows[i].market = m /\ rows[i].side \in {side}}
  OBVIOUS
<1>4. \A i \in StakeIds : rows[i].amount \in Nat
  BY DEF Stake
<1>5. \A i \in R : f[i] \in Int /\ g[i] = f[i]
  BY <1>1, <1>2, <1>3, <1>4 DEF InColumn
<1>6. \A i \in StakeIds \ R : g[i] = 0
  BY <1>2, <1>3, <1>4 DEF InColumn
<1>7. SumFunctionOnSet(f, R) = SumFunctionOnSet(g, StakeIds)
  BY <1>5, <1>6, StakeIdsFinite, SumOfSome
<1>. QED
  BY <1>1, <1>2, <1>3, <1>7 DEF TotalOf

\* A new stake.
LEMMA TotalGrows ==
    ASSUME NEW old \in [StakeIds -> Stake], NEW i \in StakeIds, old[i].amount = 0,
           NEW new \in [StakeIds -> Stake], \A j \in StakeIds \ {i} : new[j] = old[j],
           NEW m, NEW side
    PROVE  TotalOf(new, m, side) = TotalOf(old, m, side) + InColumn(new[i], m, side)
<1>1. PICK f : f = [j \in StakeIds |-> InColumn(old[j], m, side)]
  OBVIOUS
<1>2. PICK g : g = [j \in StakeIds |-> InColumn(new[j], m, side)]
  OBVIOUS
<1>3. /\ \A j \in StakeIds : f[j] \in Int /\ g[j] \in Int
      /\ \A j \in StakeIds \ {i} : g[j] = f[j]
      /\ f[i] = 0 /\ g[i] = InColumn(new[i], m, side)
  BY <1>1, <1>2 DEF InColumn, Stake
<1>4. SumFunctionOnSet(g, StakeIds) = SumFunctionOnSet(f, StakeIds) + (g[i] - f[i])
  BY <1>3, StakeIdsFinite, SumChanged
<1>5. SumFunctionOnSet(f, StakeIds) \in Int
  BY <1>3, StakeIdsFinite, SumInt
<1>6. /\ TotalOf(old, m, side) = SumFunctionOnSet(f, StakeIds)
      /\ TotalOf(new, m, side) = SumFunctionOnSet(g, StakeIds)
  BY <1>1, <1>2, TotalIsColumn
<1>. QED
  BY <1>3, <1>4, <1>5, <1>6

LEMMA StakesTotal ==
    ASSUME NEW m, NEW side, NEW rows
    PROVE  /\ rows = [i \in StakeIds |-> stakes[i].now] =>
                  StakeTotal(m, {side}) = TotalOf(rows, m, side)
           /\ rows = [i \in StakeIds |-> stakes'[i].now] =>
                  StakeTotal(m, {side})' = TotalOf(rows, m, side)
<1>1. ASSUME rows = [i \in StakeIds |-> stakes[i].now]
      PROVE  StakeTotal(m, {side}) = TotalOf(rows, m, side)
  <2>1. [i \in StakeIds |-> stakes[i].now.amount] = [i \in StakeIds |-> rows[i].amount]
    BY <1>1
  <2>2. StakesOn(m, {side}) = {i \in StakeIds : rows[i].amount > 0 /\ rows[i].market = m
                                                    /\ rows[i].side \in {side}}
    BY <1>1 DEF StakesOn
  <2>. QED
    BY <2>1, <2>2 DEF StakeTotal, TotalOf
<1>2. ASSUME rows = [i \in StakeIds |-> stakes'[i].now]
      PROVE  StakeTotal(m, {side})' = TotalOf(rows, m, side)
  <2>1. [i \in StakeIds |-> stakes'[i].now.amount] = [i \in StakeIds |-> rows[i].amount]
    BY <1>2
  <2>2. StakesOn(m, {side})' = {i \in StakeIds : rows[i].amount > 0 /\ rows[i].market = m
                                                    /\ rows[i].side \in {side}}
    BY <1>2 DEF StakesOn
  <2>. QED
    BY <2>1, <2>2 DEF StakeTotal, TotalOf
<1>. QED
  BY <1>1, <1>2

(***************************************************************************)
(* The statements, as far as stakes and pools are concerned.               *)
(***************************************************************************)

\* A request arrives.
Arrival(w) ==
    /\ pc[w] = "idle" /\ stakes' = stakes /\ markets' = markets
    /\ req'[w].op = "stake" => StartStake(w)
    /\ req'[w].op = "settle" => StartSettle(w)

\* A statement of a request that is no stake.
OtherStatement(w) ==
    /\ pc[w] # "idle" /\ req[w].op # "stake" /\ stakes' = stakes
    /\ req'[w] = req[w] \/ (req'[w] = NoRequest /\ markets' = markets)

LEMMA ArrivalsSeen ==
    ASSUME NEW w \in Workers, HouseHeld,
           \/ StartPlace(w) \/ StartExecute(w) \/ StartQuote(w) \/ StartLeave(w)
           \/ StartStake(w) \/ StartTrade(w) \/ StartSettle(w) \/ StartAnnul(w)
           \/ Patch(w) \/ StartReview(w)
    PROVE  Arrival(w)
<1>1. req \in [Workers -> Request \cup {NoRequest}]
  BY Holding, Typed
<1>2. pc[w] = "idle" /\ UNCHANGED tables
  BY DEF StartPlace, StartExecute, StartQuote, StartLeave, StartStake, StartTrade,
     StartSettle, StartAnnul, Patch, StartReview, Accept
<1>3. CASE StartPlace(w) \/ StartExecute(w) \/ StartQuote(w) \/ StartLeave(w)
  <2>1. req'[w].op \in {"place", "execute", "quote", "void", "cashout"}
    BY <1>1, <1>3, Zenon DEF StartPlace, StartExecute, StartQuote, StartLeave, Accept
  <2>. QED
    BY <1>2, <2>1 DEF Arrival, tables
<1>4. CASE StartTrade(w) \/ StartAnnul(w) \/ Patch(w) \/ StartReview(w)
  <2>1. req'[w].op \in {"trade", "annul", "patch", "approve", "reject"}
    BY <1>1, <1>4 DEF StartTrade, StartAnnul, Patch, StartReview, Accept
  <2>. QED
    BY <1>2, <2>1 DEF Arrival, tables
<1>5. CASE StartStake(w)
  <2>1. req'[w].op = "stake"
    BY <1>1, <1>5 DEF StartStake, Accept
  <2>. QED
    BY <1>2, <1>5, <2>1 DEF Arrival, tables
<1>6. CASE StartSettle(w)
  <2>1. req'[w].op = "settle"
    BY <1>1, <1>6 DEF StartSettle, Accept
  <2>. QED
    BY <1>2, <1>6, <2>1 DEF Arrival, tables
<1>. QED
  BY <1>3, <1>4, <1>5, <1>6

LEMMA PoolStatements ==
    ASSUME NEW w \in Workers, HouseHeld, WorkerStep(w), ~Rollback(w)
    PROVE  Arrival(w) \/ BankStake(w) \/ AddToPool(w) \/ OtherStatement(w)
<1>1. ServingOK(w) /\ req \in [Workers -> Request \cup {NoRequest}]
  BY Holding, Typed
<1>2. CASE \/ StartPlace(w) \/ StartExecute(w) \/ StartQuote(w) \/ StartLeave(w)
           \/ StartStake(w) \/ StartTrade(w) \/ StartSettle(w) \/ StartAnnul(w)
           \/ Patch(w) \/ StartReview(w)
  BY <1>2, ArrivalsSeen
<1>3. CASE \/ Claim(w) \/ Look(w) \/ Assess(w) \/ DebitStake(w) \/ InsertBet(w) \/ Register(w)
           \/ LockBet(w) \/ RefundStake(w) \/ CashOut(w) \/ TouchMarket(w)
  <2>1. pc[w] \in {"claim", "look", "risk", "debit", "insert", "register", "bet", "refund",
                   "cashout", "touch"}
    BY <1>3 DEF Claim, Look, Assess, DebitStake, InsertBet, Register, LockBet, RefundStake,
       CashOut, TouchMarket
  <2>2. req[w].op # "stake"
    BY <1>1, <2>1 DEF ServingOK, OpsAt
  <2>3. stakes' = stakes /\ (req' = req \/ (EndRequest(w) /\ markets' = markets))
    BY <1>3 DEF Claim, Look, Assess, DebitStake, InsertBet, Register, LockBet, RefundStake,
       CashOut, TouchMarket, tables
  <2>. QED
    BY <1>1, <2>1, <2>2, <2>3 DEF OtherStatement, EndRequest
<1>4. CASE \/ Price(w) \/ PayTrade(w) \/ Approve(w) \/ GrantFunds(w) \/ Reject(w) \/ WritePatch(w)
  <2>1. pc[w] \in {"price", "pay", "approve", "grant", "reject", "patch"}
    BY <1>4 DEF Price, PayTrade, Approve, GrantFunds, Reject, WritePatch
  <2>2. req[w].op # "stake"
    BY <1>1, <2>1 DEF ServingOK, OpsAt
  <2>3. stakes' = stakes /\ req' = req
    BY <1>4 DEF Price, PayTrade, Approve, GrantFunds, Reject, WritePatch
  <2>. QED
    BY <2>1, <2>2, <2>3 DEF OtherStatement
<1>5. CASE \/ Decide(w) \/ Result(w) \/ PayWinner(w) \/ Divide(w) \/ PayShare(w)
           \/ FinishSettle(w) \/ LockToCancel(w) \/ CreditBet(w) \/ VoidBet(w)
           \/ CreditPool(w) \/ FinishCancel(w)
  <2>1. pc[w] \in {"decide", "result", "payout", "divide", "share", "annul", "credit", "unbet"}
    BY <1>5 DEF Decide, Result, PayWinner, Divide, PayShare, FinishSettle, LockToCancel,
       CreditBet, VoidBet, CreditPool, FinishCancel
  <2>2. req[w].op # "stake"
    BY <1>1, <2>1 DEF ServingOK, OpsAt
  <2>3. stakes' = stakes /\ req' = req
    BY <1>5, Zenon DEF Decide, Result, PayWinner, Divide, PayShare, FinishSettle, LockToCancel,
       CreditBet, VoidBet, CreditPool, FinishCancel, tables
  <2>. QED
    BY <2>1, <2>2, <2>3 DEF OtherStatement
<1>. QED
  BY <1>2, <1>3, <1>4, <1>5 DEF WorkerStep, FixedOddsStep, PoolStep, FinalStep

\* A new stake's entry.
LEMMA StakeBanked ==
    ASSUME NEW w \in Workers, HouseHeld, BankStake(w), ~Rollback(w)
    PROVE  /\ pc[w] = "bank" /\ req[w].op = "stake" /\ req[w] \in Request
           /\ pc'[w] = "pool" /\ req' = req /\ markets' = markets
           /\ \E i \in StakeIds :
                  /\ stakes[i].by = Nobody /\ stakes[i].now.amount = 0
                  /\ stakes' = [stakes EXCEPT ![i] = Written(@, w, StakeOf(req[w]))]
<1>1. /\ ServingOK(w) /\ pc \in [Workers -> Statement]
      /\ req[w] \in Request \cup {NoRequest}
  BY Holding, Typed
<1>2. pc[w] = "bank" /\ pc' = [pc EXCEPT ![w] = "pool"] /\ req' = req /\ markets' = markets
  BY DEF BankStake, Goto
<1>3. req[w].op = "stake"
  BY <1>1, <1>2 DEF ServingOK, OpsAt
<1>4. \E i \in FreeStakes : stakes' = [stakes EXCEPT ![i] = Written(@, w, StakeOf(req[w]))]
  BY DEF BankStake, StakeOf
<1>5. req[w] \in Request
  BY <1>1, <1>3 DEF NoRequest
<1>6. pc'[w] = "pool"
  BY <1>1, <1>2
<1>7. \A i \in FreeStakes : i \in StakeIds /\ stakes[i].by = Nobody /\ stakes[i].now.amount = 0
  BY DEF FreeStakes
<1>. QED
  BY <1>2, <1>3, <1>4, <1>5, <1>6, <1>7

\* The stake's part of the pool.
LEMMA PoolAdded ==
    ASSUME NEW w \in Workers, HouseHeld, AddToPool(w)
    PROVE  /\ pc[w] = "pool" /\ req[w].op = "stake" /\ req[w].market \in Markets
           /\ pc'[w] = "commit" /\ req' = req /\ stakes' = stakes
           /\ \A m \in Markets : m # req[w].market => markets'[m] = markets[m]
           /\ LET row == markets'[req[w].market]
                  old == markets[req[w].market]
              IN  /\ row.by = w /\ row.now = old.now /\ Free(old, w)
                  /\ row.new.pool = [old.now.pool EXCEPT ![req[w].side] = @ + req[w].amount]
                  /\ row.new.status = old.now.status
<1>1. /\ ServingOK(w) /\ pc \in [Workers -> Statement]
      /\ req[w] \in Request \cup {NoRequest} /\ markets \in [Markets -> RowOf(Market)]
  BY Holding, Typed DEF TablesTypedNow
<1>2. /\ pc[w] = "pool" /\ pc' = [pc EXCEPT ![w] = "commit"] /\ req' = req /\ stakes' = stakes
      /\ Free(markets[req[w].market], w)
  BY DEF AddToPool, Goto, FreeForUpdate
<1>3. req[w].op = "stake"
  BY <1>1, <1>2 DEF ServingOK, OpsAt
<1>4. PICK m \in Markets : m = req[w].market
  BY <1>1, <1>3, RequestForms
<1>5. PICK old \in Market : old = markets[m].now
  BY <1>1 DEF RowOf
<1>6. PICK value : value = [old EXCEPT !.pool[req[w].side] = @ + req[w].amount]
  OBVIOUS
<1>7. markets' = [markets EXCEPT ![m] = Written(@, w, value)]
  BY <1>4, <1>5, <1>6, Zenon DEF AddToPool
<1>8. value.pool = [old.pool EXCEPT ![req[w].side] = @ + req[w].amount] /\ value.status = old.status
  BY <1>6 DEF Market
<1>9. markets'[m] = Written(markets[m], w, value)
  BY <1>1, <1>7
<1>10. markets'[m].by = w /\ markets'[m].now = old /\ markets'[m].new = value
  BY <1>1, <1>5, <1>9 DEF Written, RowOf
<1>11. \A k \in Markets : k # m => markets'[k] = markets[k]
  BY <1>1, <1>7
<1>. QED
  BY <1>1, <1>2, <1>3, <1>4, <1>5, <1>8, <1>10, <1>11

\* What the other statements do to a pool.
LEMMA PoolStays ==
    ASSUME NEW w \in Workers, HouseHeld, WorkerStep(w), ~Rollback(w), ~AddToPool(w),
           NEW m \in Markets
    PROVE  LET old == markets[m]
               new == markets'[m].new
           IN  \/ markets'[m] = old
               \/ /\ req'[w] = req[w] /\ req[w].op # "stake"
                  /\ \/ new.pool = old.new.pool /\ new.status = old.new.status
                     \/ /\ new.pool = old.now.pool /\ req[w].market = m
                        /\ \/ req[w].op = "settle"
                           \/ req[w].op = "patch" /\ new.status = req[w].status
                     \/ /\ req[w].op = "annul" /\ req[w].market = m
                        /\ new.status = "cancelled" /\ new.pool = NewMarket.pool
<1>1. /\ markets \in [Markets -> RowOf(Market)] /\ ServingOK(w)
      /\ req[w] \in Request \cup {NoRequest}
  BY Holding, Typed DEF TablesTypedNow
<1>0. PICK old \in Market : old = markets[m].now
  BY <1>1 DEF RowOf
<1>2. CASE \/ StartPlace(w) \/ StartExecute(w) \/ StartQuote(w) \/ StartLeave(w)
           \/ StartStake(w) \/ StartTrade(w) \/ StartSettle(w) \/ StartAnnul(w)
           \/ Patch(w) \/ StartReview(w)
  BY <1>2, NewcomersHoldNothing
<1>3. CASE \/ Claim(w) \/ Look(w) \/ Assess(w) \/ DebitStake(w) \/ InsertBet(w) \/ Register(w)
           \/ LockBet(w) \/ RefundStake(w) \/ CashOut(w) \/ BankStake(w)
           \/ Approve(w) \/ GrantFunds(w) \/ Reject(w)
           \/ Result(w) \/ PayWinner(w) \/ Divide(w) \/ PayShare(w)
           \/ CreditBet(w) \/ VoidBet(w) \/ CreditPool(w) \/ FinishCancel(w)
  <2>1. markets' = markets
    BY <1>3 DEF Claim, Look, Assess, DebitStake, InsertBet, Register, LockBet, RefundStake,
       CashOut, BankStake, Approve, GrantFunds, Reject, Result, PayWinner, Divide, PayShare,
       CreditBet, VoidBet, CreditPool, FinishCancel, tables
  <2>. QED
    BY <2>1
<1>4. CASE TouchMarket(w) \/ Price(w)
  <2>1. /\ \E k : markets' = [markets EXCEPT ![k] = Locked(@, w)]
        /\ req' = req /\ pc[w] \in {"touch", "price"}
    BY <1>4, Zenon DEF TouchMarket, Price
  <2>2. markets'[m].new = markets[m].new
    BY <1>1, <2>1 DEF Locked, RowOf
  <2>3. req[w].op # "stake"
    BY <1>1, <2>1 DEF ServingOK, OpsAt
  <2>. QED
    BY <2>1, <2>2, <2>3
<1>5. CASE PayTrade(w)
  <2>1. pc[w] = "pay" /\ req' = req
    BY <1>5, Zenon DEF PayTrade
  <2>2. req[w].op = "trade"
    BY <1>1, <2>1 DEF ServingOK, OpsAt
  <2>3. PICK k \in Markets : k = req[w].market
    BY <1>1, <2>2, RequestForms
  <2>4. PICK row \in Market : row = markets[k].new
    BY <1>1 DEF RowOf
  <2>5. PICK traded :
            traded = [row EXCEPT !.shares = Bought(req[w], @),
                                 !.held[req[w].user][req[w].side] = @ + req[w].amount,
                                 !.costs[req[w].user] = @ + tx[w].due, !.trades = @ + 1]
    OBVIOUS
  <2>6. markets' = [markets EXCEPT ![k].new = traded]
    BY <1>5, <2>3, <2>4, <2>5, Zenon DEF PayTrade
  <2>7. traded.pool = row.pool /\ traded.status = row.status
    BY <2>5 DEF Market
  <2>8. CASE m = k
    <3>1. markets'[m].new = traded
      BY <1>1, <2>6, <2>8 DEF RowOf
    <3>. QED
      BY <2>1, <2>2, <2>4, <2>7, <2>8, <3>1
  <2>9. CASE m # k
    BY <1>1, <2>6, <2>9
  <2>. QED
    BY <2>8, <2>9
<1>6. CASE WritePatch(w)
  <2>1. pc[w] = "patch" /\ req' = req
    BY <1>6 DEF WritePatch
  <2>2. req[w].op = "patch"
    BY <1>1, <2>1 DEF ServingOK, OpsAt
  <2>3. PICK value : value = [old EXCEPT !.status = req[w].status]
    OBVIOUS
  <2>4. value.pool = old.pool /\ value.status = req[w].status
    BY <2>3 DEF Market
  <2>5. CASE req[w].market = m
    <3>1. markets' = [markets EXCEPT ![m] = Written(@, w, value)]
      BY <1>6, <1>0, <2>3, <2>5 DEF WritePatch
    <3>2. markets'[m].new = value
      BY <1>1, <3>1 DEF Written, RowOf
    <3>. QED
      BY <1>0, <2>1, <2>2, <2>4, <2>5, <3>2
  <2>6. CASE req[w].market # m
    BY <1>1, <1>6, <2>6 DEF WritePatch
  <2>. QED
    BY <2>5, <2>6
<1>7. CASE Decide(w) \/ FinishSettle(w)
  <2>1. pc[w] \in {"decide", "result", "share"} /\ req' = req
    BY <1>7, Zenon DEF Decide, FinishSettle
  <2>2. req[w].op = "settle"
    BY <1>1, <2>1 DEF ServingOK, OpsAt
  <2>3. PICK value : value = [old EXCEPT !.status = "settled", !.outcome = req[w].outcome]
    OBVIOUS
  <2>4. value.pool = old.pool
    BY <2>3 DEF Market
  <2>5. CASE req[w].market = m
    <3>1. \/ markets' = markets
          \/ markets' = [markets EXCEPT ![m] = Written(@, w, value)]
      BY <1>7, <1>0, <2>3, <2>5 DEF Decide, FinishSettle
    <3>2. markets' = markets \/ markets'[m].new = value
      BY <1>1, <3>1 DEF Written, RowOf
    <3>. QED
      BY <1>0, <2>1, <2>2, <2>4, <2>5, <3>2
  <2>6. CASE req[w].market # m
    BY <1>1, <1>7, <2>6, Zenon DEF Decide, FinishSettle
  <2>. QED
    BY <2>5, <2>6
<1>8. CASE LockToCancel(w)
  <2>1. pc[w] = "annul" /\ req' = req
    BY <1>8 DEF LockToCancel
  <2>2. req[w].op = "annul"
    BY <1>1, <2>1 DEF ServingOK, OpsAt
  <2>3. PICK pool, held :
            pool = [s \in Sides |-> 0] /\ held = [u \in Users |-> [s \in Sides |-> 0]]
    OBVIOUS
  <2>4. PICK value :
            value = [old EXCEPT !.status = "cancelled", !.pool = pool, !.held = held]
    OBVIOUS
  <2>5. value.pool = pool /\ value.status = "cancelled"
    BY <2>4 DEF Market
  <2>6. NewMarket.pool = pool
    BY <2>3 DEF NewMarket
  <2>7. CASE req[w].market = m
    <3>1. markets' = [markets EXCEPT ![m] = Written(@, w, value)]
      BY <1>8, <1>0, <2>3, <2>4, <2>7 DEF LockToCancel
    <3>2. markets'[m].new = value
      BY <1>1, <3>1 DEF Written, RowOf
    <3>. QED
      BY <2>1, <2>2, <2>5, <2>6, <2>7, <3>2
  <2>8. CASE req[w].market # m
    BY <1>1, <1>8, <2>8 DEF LockToCancel
  <2>. QED
    BY <2>7, <2>8
<1>. QED
  BY <1>2, <1>3, <1>4, <1>5, <1>6, <1>7, <1>8
     DEF WorkerStep, FixedOddsStep, PoolStep, FinalStep

(***************************************************************************)
(* What each worker's stake and each pool's writer keep to.                *)
(***************************************************************************)

LEMMA StakeRowsOwn ==
    ASSUME NEW w \in Workers, HouseHeld, WorkerStep(w), ~Rollback(w)
    PROVE  OwnRows(stakes, stakes', w)
<1>1. stakes \in [StakeIds -> RowOf(Stake)]
  BY Holding, Typed DEF TablesTypedNow
<1>2. CASE BankStake(w)
  <2>1. PICK i \in StakeIds :
            /\ stakes[i].by = Nobody
            /\ \E value : stakes' = [stakes EXCEPT ![i] = Written(@, w, value)]
    BY <1>2, StakeBanked
  <2>. QED
    BY <1>1, <2>1 DEF Written, RowOf, OwnRows, Free
<1>3. CASE ~BankStake(w)
  BY <1>1, <1>3, PoolStatements, PoolAdded DEF Arrival, OtherStatement, OwnRows
<1>. QED
  BY <1>2, <1>3

LEMMA OwnStakeOK ==
    ASSUME NEW w \in Workers, HouseHeld, WorkerStep(w), ~Rollback(w), StakeOK(w)
    PROVE  StakeOK(w)'
<1>1. stakes \in [StakeIds -> RowOf(Stake)] /\ stakes' \in [StakeIds -> RowOf(Stake)]
  <2>1. HouseHeld'
    BY WorkersOwn, HeldNext DEF Next, WorkerStep
  <2>. QED
    BY <2>1 DEF HouseHeld, HouseTyped, TypeOK
<1>2. CASE Arrival(w)
  <2>1. ~Banked(w) /\ \A i \in StakeIds : stakes'[i].by # w
    BY <1>2 DEF Arrival, Banked, StakeOK
  <2>2. req'[w].op = "stake" => IsPool(req'[w].market) /\ pc'[w] = "bank"
    <3>1. SUFFICES ASSUME StartStake(w)
                   PROVE  IsPool(req'[w].market) /\ pc'[w] = "bank"
      BY <1>2 DEF Arrival
    <3>. QED
      BY <3>1, Holding, Typed DEF StartStake, Accept, Goto, IsPool, Mechanism
  <2>. QED
    BY <2>1, <2>2 DEF StakeOK, Banked
<1>3. CASE BankStake(w)
  <2>1. /\ pc[w] = "bank" /\ req[w].op = "stake" /\ pc'[w] = "pool" /\ req' = req
        /\ ~Banked(w)
    BY <1>3, StakeBanked DEF Banked
  <2>2. PICK i \in StakeIds :
            /\ stakes[i].by = Nobody /\ stakes[i].now.amount = 0
            /\ stakes' = [stakes EXCEPT ![i] = Written(@, w, StakeOf(req[w]))]
    BY <1>3, StakeBanked
  <2>3. PICK value : value = StakeOf(req[w])
    OBVIOUS
  <2>4. /\ stakes'[i].by = w /\ stakes'[i].now = stakes[i].now /\ stakes'[i].new = value
        /\ \A j \in StakeIds \ {i} : stakes'[j] = stakes[j]
    BY <1>1, <2>2, <2>3 DEF Written, RowOf
  <2>5. \A j \in StakeIds : stakes[j].by # w
    BY <2>1 DEF StakeOK
  <2>6. StakeOf(req[w])' = value
    BY <2>1, <2>3 DEF StakeOf
  <2>7. Banked(w)'
    BY <2>1 DEF Banked
  <2>8. req'[w].op = "stake" => IsPool(req'[w].market)
    BY <2>1 DEF StakeOK
  <2>9. \A j \in StakeIds : stakes'[j].by = w <=> j = i
    BY <2>4, <2>5
  <2>10. \A j \in StakeIds : stakes'[j].by = w =>
             stakes'[j].now.amount = 0 /\ stakes'[j].new = value
    BY <2>2, <2>4, <2>5
  <2>. QED
    BY <2>6, <2>7, <2>8, <2>9, <2>10 DEF StakeOK
<1>4. CASE AddToPool(w)
  <2>1. /\ req[w].op = "stake" /\ pc[w] = "pool" /\ pc'[w] = "commit"
        /\ req' = req /\ stakes' = stakes
    BY <1>4, PoolAdded
  <2>2. Banked(w) /\ Banked(w)' /\ StakeOf(req[w])' = StakeOf(req[w])
    BY <2>1 DEF Banked, StakeOf
  <2>. QED
    BY <2>1, <2>2 DEF StakeOK
<1>5. CASE OtherStatement(w)
  <2>1. ~Banked(w) /\ \A i \in StakeIds : stakes'[i].by # w
    BY <1>5 DEF OtherStatement, Banked, StakeOK
  <2>2. req'[w].op # "stake"
    BY <1>5 DEF OtherStatement, NoRequest
  <2>. QED
    BY <2>1, <2>2 DEF StakeOK, Banked
<1>. QED
  BY <1>2, <1>3, <1>4, <1>5, PoolStatements

\* A worker that does not move.
LEMMA OthersStakeOK ==
    ASSUME NEW v, StakeOK(v), pc'[v] = pc[v], req'[v] = req[v],
           \A i \in StakeIds : /\ stakes[i].by = v => stakes'[i] = stakes[i]
                               /\ stakes'[i].by = v => stakes[i].by = v
    PROVE  StakeOK(v)'
<1>1. Banked(v)' <=> Banked(v)
  BY DEF Banked
<1>2. StakeOf(req[v])' = StakeOf(req[v])
  BY DEF StakeOf
<1>3. \A i \in StakeIds : stakes'[i].by = v <=> stakes[i].by = v
  OBVIOUS
<1>4. \A i \in StakeIds : stakes'[i].by = v =>
          Banked(v) /\ stakes'[i].now.amount = 0 /\ stakes'[i].new = StakeOf(req[v])
  BY DEF StakeOK
<1>5. Banked(v) => \E i \in StakeIds : \A j \in StakeIds : stakes'[j].by = v <=> j = i
  BY <1>3 DEF StakeOK
<1>6. req'[v].op = "stake" => IsPool(req'[v].market)
  BY DEF StakeOK
<1>. QED
  BY <1>1, <1>2, <1>4, <1>5, <1>6 DEF StakeOK

\* What w makes of a pool row that it writes.
LEMMA OwnPoolWritten ==
    ASSUME NEW mix, PoolsStayCancelled(mix), PoolInv(mix), NEW w \in Workers, WorkerStep(w),
           ~Rollback(w), NEW m \in Markets, IsPool(m), markets'[m].by = w
    PROVE  PoolWritten(mix, w, m)'
<1>1. /\ HouseHeld /\ markets \in [Markets -> RowOf(Market)] /\ OwnStep(w)
      /\ PoolOK(mix, w) /\ StakeOK(w) /\ Fits(mix)
  BY WorkersOwn, Holding, Typed DEF PoolInv, MarketsHeld, TablesTypedNow
<1>2. markets'[m].now = markets[m].now
  BY <1>1 DEF OwnStep, OwnRows
<1>3. markets[m].by # w => markets[m].new = markets[m].now \/ markets'[m] # markets[m]
  BY <1>1, <1>2 DEF PoolInv, MarketsHeld, Clean, OwnStep, OwnRows, Free
<1>4. CASE AddToPool(w)
  <2>1. /\ req[w].op = "stake" /\ req' = req /\ pc[w] = "pool" /\ pc'[w] = "commit"
        /\ req[w].market \in Markets
    BY <1>1, <1>4, PoolAdded
  <2>4. /\ \A k \in Markets : k # req[w].market => markets'[k] = markets[k]
        /\ markets'[req[w].market].new.pool
               = [markets[req[w].market].now.pool EXCEPT ![req[w].side] = @ + req[w].amount]
        /\ markets'[req[w].market].new.status = markets[req[w].market].now.status
    BY <1>1, <1>4, PoolAdded
  <2>2. CASE m = req[w].market
    BY <1>2, <2>1, <2>2, <2>4 DEF PoolWritten, Annulable
  <2>3. CASE m # req[w].market
    <3>1. markets'[m] = markets[m]
      BY <2>3, <2>4
    <3>2. PoolWritten(mix, w, m)
      BY <1>1, <3>1 DEF PoolOK
    <3>. QED
      BY <2>1, <2>3, <3>2 DEF PoolWritten
  <2>. QED
    BY <2>2, <2>3
<1>5. CASE ~AddToPool(w) /\ markets'[m] = markets[m]
  <2>1. PoolWritten(mix, w, m) /\ pc[w] \in MarketAt
    BY <1>1, <1>5 DEF PoolOK, PoolInv, MarketsHeld, MarketsOK
  <2>2. ~Arrival(w) /\ ~BankStake(w)
    BY <1>1, <2>1, StakeBanked DEF Arrival, MarketAt
  <2>3. OtherStatement(w)
    BY <1>1, <1>5, <2>2, PoolStatements
  <2>4. req[w].op # "stake" /\ req'[w].op # "stake"
    BY <2>3 DEF OtherStatement, NoRequest
  <2>. QED
    BY <1>5, <2>1, <2>4 DEF PoolWritten, Annulable
<1>6. CASE ~AddToPool(w) /\ markets'[m] # markets[m]
  <2>1. req'[w] = req[w] /\ req[w].op # "stake"
    BY <1>1, <1>6, PoolStays
  <2>2. Free(markets[m], w)
    BY <1>1, <1>6 DEF OwnStep, OwnRows
  <2>3. \/ markets[m].new = markets[m].now
        \/ PoolWritten(mix, w, m)
    BY <1>1, <2>2 DEF Free, PoolInv, MarketsHeld, Clean, PoolOK
  <2>4. CASE /\ markets'[m].new.pool = markets[m].new.pool
             /\ markets'[m].new.status = markets[m].new.status
    BY <1>2, <2>1, <2>3, <2>4 DEF PoolWritten, Annulable
  <2>5. CASE /\ req[w].op = "settle" /\ req[w].market = m
             /\ markets'[m].new.pool = markets[m].now.pool
    <3>1. ~(Annulable(mix, m) /\ markets[m].now.status = "cancelled")
      BY <1>1, <2>5 DEF PoolOK
    <3>. QED
      BY <1>2, <2>1, <2>5, <3>1 DEF PoolWritten, Annulable
  <2>6. CASE /\ req[w].op = "patch" /\ req[w].market = m
             /\ markets'[m].new.pool = markets[m].now.pool
    <3>1. req[w] \in mix.todo
      BY <1>1, <2>6 DEF Fits, NoRequest
    <3>2. ~Annulable(mix, m)
      BY <2>6, <3>1 DEF Annulable, PoolsStayCancelled, IsPool
    <3>. QED
      BY <1>2, <2>1, <2>6, <3>2 DEF PoolWritten, Annulable
  <2>7. CASE /\ req[w].op = "annul" /\ req[w].market = m
             /\ markets'[m].new.status = "cancelled"
    <3>1. req[w] \in mix.todo
      BY <1>1, <2>7 DEF Fits, NoRequest
    <3>2. Annulable(mix, m)
      BY <2>7, <3>1 DEF Annulable
    <3>. QED
      BY <1>2, <2>1, <2>7, <3>2 DEF PoolWritten, Annulable
  <2>. QED
    BY <1>1, <1>6, <2>4, <2>5, <2>6, <2>7, PoolStays
<1>. QED
  BY <1>4, <1>5, <1>6

LEMMA OwnPoolOK ==
    ASSUME NEW mix, PoolsStayCancelled(mix), PoolInv(mix), NEW w \in Workers, WorkerStep(w),
           ~Rollback(w)
    PROVE  PoolOK(mix, w)'
<1>1. /\ HouseHeld /\ markets \in [Markets -> RowOf(Market)] /\ OwnStep(w)
      /\ req[w] \in Request \cup {NoRequest} /\ PoolOK(mix, w) /\ StakeOK(w) /\ Fits(mix)
  BY WorkersOwn, Holding, Typed DEF PoolInv, MarketsHeld, TablesTypedNow
<1>2. \A m \in Markets : IsPool(m) /\ markets'[m].by = w => PoolWritten(mix, w, m)'
  BY OwnPoolWritten
<1>3. req'[w].op = "stake" /\ pc'[w] = "commit" => markets'[req'[w].market].by = w
  <2>0. AddToPool(w) => markets'[req[w].market].by = w /\ req' = req
    BY <1>1, PoolAdded
  <2>1. SUFFICES ASSUME req'[w].op = "stake", pc'[w] = "commit"
                 PROVE  AddToPool(w)
    BY <2>0
  <2>2. ~BankStake(w)
    BY <1>1, <2>1, StakeBanked
  <2>3. ~Arrival(w)
    <3>1. StartStake(w) => pc'[w] # "commit"
      BY <1>1, Holding, Typed DEF StartStake, Goto
    <3>. QED
      BY <2>1, <3>1 DEF Arrival
  <2>4. ~OtherStatement(w)
    BY <2>1 DEF OtherStatement, NoRequest
  <2>. QED
    BY <1>1, <2>2, <2>3, <2>4, PoolStatements
<1>4. req'[w].op = "settle" /\ IsPool(req'[w].market) /\ Annulable(mix, req'[w].market) =>
          markets'[req'[w].market].now.status # "cancelled"
  <2>1. SUFFICES ASSUME req'[w].op = "settle", IsPool(req'[w].market),
                        Annulable(mix, req'[w].market)
                 PROVE  markets'[req'[w].market].now.status # "cancelled"
    OBVIOUS
  <2>2. CASE req'[w] = req[w]
    <3>1. PICK m \in Markets : m = req[w].market
      BY <1>1, <2>1, <2>2, RequestForms
    <3>2. markets[m].now.status # "cancelled"
      BY <1>1, <2>1, <2>2, <3>1 DEF PoolOK
    <3>3. markets'[m].now = markets[m].now
      BY <1>1, <3>1 DEF OwnStep, OwnRows
    <3>. QED
      BY <2>2, <3>1, <3>2, <3>3
  <2>3. CASE req'[w] # req[w]
    <3>1. ~BankStake(w)
      BY <1>1, <2>3, StakeBanked
    <3>2. ~AddToPool(w)
      BY <1>1, <2>3, PoolAdded
    <3>3. ~OtherStatement(w)
      BY <2>1, <2>3 DEF OtherStatement, NoRequest
    <3>4. Arrival(w)
      BY <1>1, <3>1, <3>2, <3>3, PoolStatements
    <3>5. StartSettle(w) /\ markets' = markets
      BY <2>1, <3>4 DEF Arrival
    <3>6. PICK r \in todo :
              /\ markets[r.market].now.status \in {"open", "closed"}
              /\ req' = [req EXCEPT ![w] = r]
      BY <3>5 DEF StartSettle, Accept
    <3>7. req'[w] = r
      BY <3>6, <1>1, Holding, Typed
    <3>. QED
      BY <3>5, <3>6, <3>7
  <2>. QED
    BY <2>2, <2>3
<1>. QED
  BY <1>2, <1>3, <1>4 DEF PoolOK, Annulable

\* The load has every request that is served.
LEMMA StillFits ==
    ASSUME NEW mix, Fits(mix), HouseHeld, NEW w \in Workers,
           WorkerStep(w) \/ Rollback(w) \/ Commit(w)
    PROVE  Fits(mix)'
<1>1. RequestMoves(w) /\ load' = load
  BY RequestsArrive
<1>2. req \in [Workers -> Request \cup {NoRequest}]
  BY Holding, Typed
<1>3. CASE \E r \in todo : Accept(w, r)
  <2>1. PICK r \in todo : todo' = todo \ {r} /\ req' = [req EXCEPT ![w] = r]
    BY <1>3 DEF Accept
  <2>. QED
    BY <1>1, <1>2, <2>1 DEF Fits
<1>4. CASE req' = req /\ todo' = todo
  BY <1>1, <1>4 DEF Fits
<1>5. CASE EndRequest(w) /\ todo' = todo
  BY <1>1, <1>2, <1>5 DEF Fits, EndRequest
<1>. QED
  BY <1>1, <1>3, <1>4, <1>5 DEF RequestMoves

\* Totals are about what is committed.
LEMMA SameTotal ==
    ASSUME NEW m, NEW side, \A i \in StakeIds : stakes'[i].now = stakes[i].now
    PROVE  StakeTotal(m, {side})' = StakeTotal(m, {side})
<1>1. PICK rows : rows = [i \in StakeIds |-> stakes[i].now]
  BY Zenon
<1>2. rows = [i \in StakeIds |-> stakes'[i].now]
  BY <1>1
<1>. QED
  BY <1>1, <1>2, StakesTotal

LEMMA SameMatched ==
    ASSUME NEW m, Matched(m), markets'[m].now.pool = markets[m].now.pool,
           \A i \in StakeIds : stakes'[i].now = stakes[i].now
    PROVE  Matched(m)'
<1>1. Matched(m)' <=> \A side \in Sides : markets'[m].now.pool[side] = StakeTotal(m, {side})'
  BY DEF Matched
<1>2. \A side \in Sides : StakeTotal(m, {side})' = StakeTotal(m, {side})
  BY SameTotal, Zenon
<1>. QED
  BY <1>1, <1>2 DEF Matched

\* A worker's request and the rows that it holds.
LEMMA OthersPoolOK ==
    ASSUME NEW mix, NEW v, PoolOK(mix, v), pc'[v] = pc[v], req'[v] = req[v],
           req[v].op \in {"stake", "settle"} => req[v].market \in Markets,
           \A m \in Markets : /\ markets[m].by = v => markets'[m] = markets[m]
                              /\ markets'[m].by = v => markets[m].by = v
                              /\ req[v].op = "settle" /\ req[v].market = m /\ IsPool(m)
                                   /\ Annulable(mix, m) /\ markets[m].now.status # "cancelled"
                                 => markets'[m].now.status # "cancelled"
    PROVE  PoolOK(mix, v)'
<1>1. ASSUME NEW m \in Markets, IsPool(m), markets'[m].by = v
      PROVE  PoolWritten(mix, v, m)'
  <2>1. markets'[m] = markets[m] /\ PoolWritten(mix, v, m)
    BY <1>1 DEF PoolOK
  <2>. QED
    BY <2>1 DEF PoolWritten, Annulable
<1>2. req'[v].op = "stake" /\ pc'[v] = "commit" => markets'[req'[v].market].by = v
  BY DEF PoolOK
<1>3. req'[v].op = "settle" /\ IsPool(req'[v].market) /\ Annulable(mix, req'[v].market) =>
          markets'[req'[v].market].now.status # "cancelled"
  BY DEF PoolOK
<1>. QED
  BY <1>1, <1>2, <1>3 DEF PoolOK, Annulable

LEMMA StatementKeepsPools ==
    ASSUME NEW mix, PoolsStayCancelled(mix), PoolInv(mix), NEW w \in Workers, WorkerStep(w),
           ~Rollback(w), MarketsHeld'
    PROVE  PoolInv(mix)'
<1>1. /\ HouseHeld /\ markets \in [Markets -> RowOf(Market)]
      /\ markets' \in [Markets -> RowOf(Market)]
      /\ stakes \in [StakeIds -> RowOf(Stake)] /\ Fits(mix)
  <2>1. HouseTyped'
    BY DEF MarketsHeld, HouseHeld
  <2>. QED
    BY <2>1, Holding, Typed DEF PoolInv, MarketsHeld, TablesTypedNow, HouseTyped, TypeOK
<1>2. OwnStep(w) /\ OwnRows(stakes, stakes', w)
  BY <1>1, WorkersOwn, StakeRowsOwn
<1>3. /\ \A i \in StakeIds : stakes'[i].now = stakes[i].now
      /\ \A m \in Markets : markets'[m].now = markets[m].now
  BY <1>1, <1>2 DEF OwnStep, OwnRows
<1>4. Fits(mix)'
  BY <1>1, StillFits
<1>5. CleanStakes'
  BY <1>1, <1>2, NobodyAssumption DEF OwnRows, CleanStakes, PoolInv
<1>6. OnlyPools'
  <2>1. ASSUME NEW m \in Markets, ~IsPool(m)
        PROVE  markets'[m].new.pool = NewMarket.pool
    <3>1. markets[m].now.pool = NewMarket.pool /\ markets[m].new.pool = NewMarket.pool
      BY <2>1 DEF PoolInv, OnlyPools
    <3>2. CASE AddToPool(w)
      <4>1. req[w].op = "stake" /\ \A k \in Markets : k # req[w].market => markets'[k] = markets[k]
        BY <1>1, <3>2, PoolAdded
      <4>2. req[w].market # m
        BY <2>1, <4>1 DEF PoolInv, StakeOK
      <4>. QED
        BY <3>1, <4>1, <4>2
    <3>3. CASE ~AddToPool(w)
      BY <1>1, <3>1, <3>3, PoolStays
    <3>. QED
      BY <3>2, <3>3
  <2>2. ASSUME NEW m \in Markets, ~IsPool(m)
        PROVE  markets'[m].now.pool = NewMarket.pool
    BY <1>3, <2>2 DEF PoolInv, OnlyPools
  <2>3. ASSUME NEW i \in StakeIds, stakes'[i].now.amount > 0
        PROVE  IsPool(stakes'[i].now.market)
    BY <1>3, <2>3 DEF PoolInv, OnlyPools
  <2>4. NewMarket.pool' = NewMarket.pool
    BY DEF NewMarket
  <2>. QED
    BY <2>1, <2>2, <2>3, <2>4 DEF OnlyPools, IsPool, Mechanism
<1>7. Matches(mix)'
  <2>1. SUFFICES ASSUME NEW m \in Markets, IsPool(m),
                        markets'[m].now.status # "cancelled" \/ ~Annulable(mix, m)
                 PROVE  Matched(m)'
    BY DEF Matches, Annulable, IsPool, Mechanism
  <2>2. Matched(m)
    BY <1>3, <2>1 DEF PoolInv, Matches
  <2>. QED
    BY <1>3, <2>2, SameMatched
<1>8. StakeOK(w)' /\ PoolOK(mix, w)'
  BY <1>1, OwnStakeOK, OwnPoolOK DEF PoolInv
<1>9. ASSUME NEW v \in Workers \ {w}
      PROVE  StakeOK(v)' /\ PoolOK(mix, v)'
  <2>1. pc'[v] = pc[v] /\ req'[v] = req[v] /\ StakeOK(v) /\ PoolOK(mix, v)
    BY <1>2 DEF OwnStep, PoolInv
  <2>2. \A i \in StakeIds : /\ stakes[i].by = v => stakes'[i] = stakes[i]
                            /\ stakes'[i].by = v => stakes[i].by = v
    BY <1>1, <1>2, NobodyAssumption DEF OwnRows, Free
  <2>3. \A m \in Markets : /\ markets[m].by = v => markets'[m] = markets[m]
                           /\ markets'[m].by = v => markets[m].by = v
    BY <1>1, <1>2, NobodyAssumption DEF OwnStep, OwnRows, Free
  <2>4. req[v].op \in {"stake", "settle"} => req[v].market \in Markets
    BY <1>1, Holding, Typed, RequestForms
  <2>. QED
    BY <1>3, <2>1, <2>2, <2>3, <2>4, OthersStakeOK, OthersPoolOK
<1>. QED
  BY <1>4, <1>5, <1>6, <1>7, <1>8, <1>9 DEF PoolInv

\* A pool that is being settled and may be cancelled has its worker to itself.
LEMMA SettlesAlone ==
    ASSUME NEW mix, PoolsStayCancelled(mix), PoolInv(mix), NEW v \in Workers, NEW w \in Workers,
           pc[w] # "idle", req[v].op = "settle", IsPool(req[v].market),
           Annulable(mix, req[v].market)
    PROVE  v = w
<1>1. HouseHeld /\ Fits(mix)
  BY DEF PoolInv, MarketsHeld
<1>2. pc[v] # "idle"
  BY <1>1, Holding DEF HoldingOK, NoRequest
<1>3. v \in mix.crew /\ w \in mix.crew
  BY <1>1, <1>2, Holding DEF HoldingOK, Fits
<1>4. req[v] \in mix.todo
  BY <1>1 DEF Fits, NoRequest
<1>. QED
  BY <1>3, <1>4 DEF PoolsStayCancelled, Annulable, IsPool

\* The end of a transaction, but for the totals.
LEMMA EndKeepsOrder ==
    ASSUME NEW mix, PoolsStayCancelled(mix), PoolInv(mix), NEW w \in Workers,
           Rollback(w) \/ Commit(w)
    PROVE  /\ Fits(mix)' /\ CleanStakes'
           /\ \A v \in Workers : StakeOK(v)' /\ PoolOK(mix, v)'
<1>1. /\ HouseHeld /\ markets \in [Markets -> RowOf(Market)]
      /\ stakes \in [StakeIds -> RowOf(Stake)]
      /\ pc \in [Workers -> Statement] /\ req \in [Workers -> Request \cup {NoRequest}]
  BY Holding, Typed DEF PoolInv, MarketsHeld, TablesTypedNow
<1>2. /\ markets' \in {Published(markets, w), Discarded(markets, w)}
      /\ stakes' \in {Published(stakes, w), Discarded(stakes, w)}
      /\ EndRequest(w)
  BY DEF Rollback, Commit
<1>3. /\ \A m \in Markets : markets'[m].by # w
      /\ \A m \in Markets : \A v \in Workers \ {w} :
             /\ markets'[m].by = v <=> markets[m].by = v
             /\ markets[m].by = v => markets'[m] = markets[m]
  BY <1>1, <1>2, RowsEnd
<1>4. /\ \A i \in StakeIds : stakes'[i].by # w
      /\ \A i \in StakeIds : \A v \in Workers \ {w} :
             /\ stakes'[i].by = v <=> stakes[i].by = v
             /\ stakes[i].by = v => stakes'[i] = stakes[i]
  BY <1>1, <1>2, RowsEnd
<1>5. Fits(mix)'
  BY <1>1, StillFits DEF PoolInv
<1>6. CleanStakes'
  BY <1>1, <1>2 DEF Published, Discarded, Fresh, CleanStakes, PoolInv
<1>7. StakeOK(w)' /\ PoolOK(mix, w)'
  <2>1. req'[w].op = "none"
    BY <1>1, <1>2 DEF EndRequest, NoRequest
  <2>. QED
    BY <1>3, <1>4, <2>1 DEF StakeOK, PoolOK, Banked
<1>8. ASSUME NEW v \in Workers \ {w}
      PROVE  StakeOK(v)' /\ PoolOK(mix, v)'
  <2>1. pc'[v] = pc[v] /\ req'[v] = req[v] /\ StakeOK(v) /\ PoolOK(mix, v)
    BY <1>1, <1>2 DEF EndRequest, Goto, PoolInv
  <2>2. req[v].op \in {"stake", "settle"} => req[v].market \in Markets
    BY <1>1, RequestForms
  <2>3. ASSUME NEW m \in Markets, req[v].op = "settle", req[v].market = m, IsPool(m),
               Annulable(mix, m), markets[m].now.status # "cancelled"
        PROVE  markets'[m].now.status # "cancelled"
    <3>1. ~Commit(w)
      BY <2>3, SettlesAlone DEF Commit
    <3>2. markets' = Discarded(markets, w)
      BY <3>1 DEF Rollback
    <3>3. markets'[m].now = markets[m].now
      BY <1>1, <3>2, RowsEnd
    <3>. QED
      BY <2>3, <3>3
  <2>4. StakeOK(v)'
    BY <1>4, <2>1, OthersStakeOK
  <2>5. PoolOK(mix, v)'
    BY <1>3, <2>1, <2>2, <2>3, OthersPoolOK
  <2>. QED
    BY <2>4, <2>5
<1>. QED
  BY <1>5, <1>6, <1>7, <1>8

LEMMA RollbackKeepsPools ==
    ASSUME NEW mix, PoolsStayCancelled(mix), PoolInv(mix), NEW w \in Workers, Rollback(w),
           MarketsHeld'
    PROVE  PoolInv(mix)'
<1>1. markets \in [Markets -> RowOf(Market)] /\ stakes \in [StakeIds -> RowOf(Stake)]
  BY Holding, Typed DEF PoolInv, MarketsHeld, TablesTypedNow
<1>2. /\ \A m \in Markets : markets'[m].now = markets[m].now
      /\ \A i \in StakeIds : stakes'[i].now = stakes[i].now
      /\ \A m \in Markets : markets'[m].new \in {markets[m].new, markets[m].now}
  BY <1>1 DEF Rollback, Discarded, Fresh
<1>3. OnlyPools'
  <2>1. NewMarket.pool' = NewMarket.pool
    BY DEF NewMarket
  <2>. QED
    BY <1>2, <2>1 DEF PoolInv, OnlyPools, IsPool, Mechanism
<1>4. Matches(mix)'
  <2>1. SUFFICES ASSUME NEW m \in Markets, IsPool(m),
                        markets'[m].now.status # "cancelled" \/ ~Annulable(mix, m)
                 PROVE  Matched(m)'
    BY DEF Matches, Annulable, IsPool, Mechanism
  <2>2. Matched(m)
    BY <1>2, <2>1 DEF PoolInv, Matches
  <2>. QED
    BY <1>2, <2>2, SameMatched
<1>. QED
  BY <1>3, <1>4, EndKeepsOrder DEF PoolInv

\* A commit makes a stake and its part of the pool appear together.
LEMMA StakeCommitted ==
    ASSUME NEW mix, PoolInv(mix), NEW w \in Workers, Commit(w), req[w].op = "stake",
           NEW m \in Markets, IsPool(m), Matched(m)
    PROVE  Matched(m)'
<1>1. /\ markets \in [Markets -> RowOf(Market)] /\ stakes \in [StakeIds -> RowOf(Stake)]
      /\ req[w] \in Request \cup {NoRequest} /\ StakeOK(w) /\ PoolOK(mix, w)
      /\ pc[w] = "commit" /\ markets' = Published(markets, w) /\ stakes' = Published(stakes, w)
  BY Holding, Typed DEF PoolInv, MarketsHeld, TablesTypedNow, Commit
<1>2. PICK r \in Request : r = req[w] /\ r.op = "stake"
  BY <1>1 DEF NoRequest
<1>3. r.side \in Sides /\ r.amount \in Nat /\ r.market \in Markets /\ r.user \in Users
  BY <1>2, RequestForms
<1>4. PICK i \in StakeIds : \A j \in StakeIds : stakes[j].by = w <=> j = i
  BY <1>1 DEF StakeOK, Banked
<1>5. stakes[i].now.amount = 0 /\ stakes[i].new = StakeOf(r)
  BY <1>1, <1>2, <1>4 DEF StakeOK
<1>6. PICK old \in [StakeIds -> Stake], new \in [StakeIds -> Stake] :
          /\ old = [j \in StakeIds |-> stakes[j].now]
          /\ new = [j \in StakeIds |-> stakes'[j].now]
  <2>1. [j \in StakeIds |-> stakes[j].now] \in [StakeIds -> Stake]
    BY <1>1 DEF RowOf
  <2>2. [j \in StakeIds |-> stakes'[j].now] \in [StakeIds -> Stake]
    BY <1>1 DEF RowOf, Published, Fresh
  <2>. QED
    BY <2>1, <2>2
<1>7. /\ \A j \in StakeIds \ {i} : new[j] = old[j]
      /\ old[i].amount = 0 /\ new[i] = StakeOf(r)
  BY <1>1, <1>4, <1>5, <1>6 DEF Published, Fresh
<1>8. ASSUME NEW side \in Sides
      PROVE  markets'[m].now.pool[side] = TotalOf(new, m, side)
  <2>1. TotalOf(new, m, side) = TotalOf(old, m, side) + InColumn(StakeOf(r), m, side)
    BY <1>7, TotalGrows
  <2>2. markets[m].now.pool[side] = TotalOf(old, m, side)
    BY <1>6, StakesTotal DEF Matched
  <2>3. markets[m].now.pool \in [Sides -> Nat]
    BY <1>1 DEF RowOf, Market
  <2>4. CASE m = r.market
    <3>1. markets[m].by = w
      BY <1>1, <1>2, <2>4 DEF PoolOK
    <3>2. markets[m].new.pool = [markets[m].now.pool EXCEPT ![r.side] = @ + r.amount]
      BY <1>1, <1>2, <3>1 DEF PoolOK, PoolWritten
    <3>3. markets'[m].now = markets[m].new
      BY <1>1, <3>1 DEF Published, Fresh
    <3>4. InColumn(StakeOf(r), m, side) = IF r.side = side THEN r.amount ELSE 0
      BY <2>4 DEF StakeOf, InColumn
    <3>5. markets'[m].now.pool[side]
              = markets[m].now.pool[side] + (IF r.side = side THEN r.amount ELSE 0)
      BY <1>3, <2>3, <3>2, <3>3
    <3>. QED
      BY <2>1, <2>2, <3>4, <3>5
  <2>5. CASE m # r.market
    <3>1. markets[m].by # w
      BY <1>1, <1>2, <2>5 DEF PoolOK, PoolWritten
    <3>2. markets'[m] = markets[m]
      BY <1>1, <3>1 DEF Published
    <3>3. InColumn(StakeOf(r), m, side) = 0
      BY <2>5 DEF StakeOf, InColumn
    <3>4. markets[m].now.pool[side] \in Nat
      BY <2>3
    <3>. QED
      BY <2>1, <2>2, <3>2, <3>3, <3>4
  <2>. QED
    BY <2>4, <2>5
<1>9. Matched(m)' <=> \A side \in Sides : markets'[m].now.pool[side] = StakeTotal(m, {side})'
  BY DEF Matched
<1>10. \A side \in Sides : StakeTotal(m, {side})' = TotalOf(new, m, side)
  BY <1>6, StakesTotal
<1>. QED
  BY <1>8, <1>9, <1>10

LEMMA CommitKeepsPools ==
    ASSUME NEW mix, PoolsStayCancelled(mix), PoolInv(mix), NEW w \in Workers, Commit(w),
           MarketsHeld'
    PROVE  PoolInv(mix)'
<1>1. /\ markets \in [Markets -> RowOf(Market)] /\ stakes \in [StakeIds -> RowOf(Stake)]
      /\ StakeOK(w) /\ PoolOK(mix, w)
      /\ markets' = Published(markets, w) /\ stakes' = Published(stakes, w)
  BY Holding, Typed DEF PoolInv, MarketsHeld, TablesTypedNow, Commit
<1>2. OnlyPools'
  <2>1. ASSUME NEW i \in StakeIds, stakes'[i].now.amount > 0
        PROVE  IsPool(stakes'[i].now.market)
    <3>1. CASE stakes[i].by = w
      <4>1. stakes[i].new = StakeOf(req[w]) /\ IsPool(req[w].market)
        BY <1>1, <3>1 DEF StakeOK, Banked
      <4>2. stakes'[i].now = stakes[i].new
        BY <1>1, <3>1 DEF Published, Fresh
      <4>. QED
        BY <4>1, <4>2 DEF StakeOf
    <3>2. CASE stakes[i].by # w
      BY <1>1, <2>1, <3>2 DEF Published, PoolInv, OnlyPools
    <3>. QED
      BY <3>1, <3>2
  <2>2. \A m \in Markets : markets'[m].new \in {markets[m].new, markets[m].now}
                           /\ markets'[m].now \in {markets[m].new, markets[m].now}
    BY <1>1 DEF Published, Fresh
  <2>3. NewMarket.pool' = NewMarket.pool
    BY DEF NewMarket
  <2>. QED
    BY <2>1, <2>2, <2>3 DEF PoolInv, OnlyPools, IsPool, Mechanism
<1>3. Matches(mix)'
  <2>1. SUFFICES ASSUME NEW m \in Markets, IsPool(m),
                        markets'[m].now.status # "cancelled" \/ ~Annulable(mix, m)
                 PROVE  Matched(m)'
    BY DEF Matches, Annulable, IsPool, Mechanism
  <2>2. CASE markets[m].by # w
    <3>1. markets'[m] = markets[m]
      BY <1>1, <2>2 DEF Published
    <3>2. Matched(m)
      BY <2>1, <3>1 DEF PoolInv, Matches
    <3>3. CASE req[w].op = "stake"
      BY <2>1, <3>2, <3>3, StakeCommitted
    <3>4. CASE req[w].op # "stake"
      <4>1. \A i \in StakeIds : stakes[i].by # w
        BY <1>1, <3>4 DEF StakeOK, Banked
      <4>2. \A i \in StakeIds : stakes'[i].now = stakes[i].now
        BY <1>1, <4>1 DEF Published
      <4>. QED
        BY <3>1, <3>2, <4>2, SameMatched
    <3>. QED
      BY <3>3, <3>4
  <2>3. CASE markets[m].by = w
    <3>1. markets'[m].now = markets[m].new
      BY <1>1, <2>3 DEF Published, Fresh
    <3>2. PoolWritten(mix, w, m)
      BY <1>1, <2>1, <2>3 DEF PoolOK
    <3>3. Matched(m)
      BY <2>1, <3>1, <3>2 DEF PoolInv, Matches, PoolWritten
    <3>4. CASE req[w].op = "stake"
      BY <2>1, <3>3, <3>4, StakeCommitted
    <3>5. CASE req[w].op # "stake"
      <4>1. \A i \in StakeIds : stakes[i].by # w
        BY <1>1, <3>5 DEF StakeOK, Banked
      <4>2. \A i \in StakeIds : stakes'[i].now = stakes[i].now
        BY <1>1, <4>1 DEF Published
      <4>3. markets'[m].now.pool = markets[m].now.pool
        BY <2>1, <3>1, <3>2, <3>5 DEF PoolWritten
      <4>. QED
        BY <3>3, <4>2, <4>3, SameMatched
    <3>. QED
      BY <3>4, <3>5
  <2>. QED
    BY <2>2, <2>3
<1>. QED
  BY <1>2, <1>3, EndKeepsOrder DEF PoolInv

LEMMA CloseKeepsPools ==
    ASSUME NEW mix, PoolInv(mix), NEW k \in Markets, CloseMarket(k), MarketsHeld'
    PROVE  PoolInv(mix)'
<1>1. /\ HouseHeld /\ markets \in [Markets -> RowOf(Market)]
      /\ req \in [Workers -> Request \cup {NoRequest}]
  BY DEF PoolInv, MarketsHeld, HouseHeld, HouseTyped, TypeOK
<1>2. /\ markets[k].by = Nobody /\ markets[k].now.status = "open"
      /\ UNCHANGED <<stakes, load, todo, pc, req>>
      /\ markets' = [markets EXCEPT ![k] = Fresh([markets[k].now EXCEPT !.status = "closed"])]
  BY DEF CloseMarket
<1>3. /\ markets'[k].now.pool = markets[k].now.pool /\ markets'[k].new.pool = markets[k].now.pool
      /\ markets'[k].by = Nobody /\ markets'[k].now.status = "closed"
      /\ \A m \in Markets \ {k} : markets'[m] = markets[m]
  <2>1. PICK old \in Market : old = markets[k].now
    BY <1>1 DEF RowOf
  <2>2. PICK value : value = [old EXCEPT !.status = "closed"]
    OBVIOUS
  <2>3. value.pool = old.pool /\ value.status = "closed"
    BY <2>2 DEF Market
  <2>4. markets' = [markets EXCEPT ![k] = Fresh(value)]
    BY <1>2, <2>1, <2>2
  <2>. QED
    BY <1>1, <2>1, <2>3, <2>4 DEF Fresh
<1>4. Fits(mix)' /\ CleanStakes'
  BY <1>2 DEF Fits, CleanStakes, PoolInv
<1>5. OnlyPools'
  <2>1. NewMarket.pool' = NewMarket.pool
    BY DEF NewMarket
  <2>. QED
    BY <1>2, <1>3, <2>1 DEF PoolInv, OnlyPools, IsPool, Mechanism
<1>6. Matches(mix)'
  <2>1. SUFFICES ASSUME NEW m \in Markets, IsPool(m),
                        markets'[m].now.status # "cancelled" \/ ~Annulable(mix, m)
                 PROVE  Matched(m)'
    BY DEF Matches, Annulable, IsPool, Mechanism
  <2>2. Matched(m)
    BY <1>2, <1>3, <2>1 DEF PoolInv, Matches
  <2>3. markets'[m].now.pool = markets[m].now.pool
    BY <1>3
  <2>. QED
    BY <1>2, <2>2, <2>3, SameMatched
<1>7. ASSUME NEW v \in Workers
      PROVE  StakeOK(v)' /\ PoolOK(mix, v)'
  <2>1. StakeOK(v) /\ PoolOK(mix, v) /\ v # Nobody
    BY NobodyAssumption DEF PoolInv
  <2>2. StakeOK(v)'
    BY <1>2, <2>1, OthersStakeOK
  <2>3. req[v].op \in {"stake", "settle"} => req[v].market \in Markets
    BY <1>1, RequestForms
  <2>4. PoolOK(mix, v)'
    BY <1>2, <1>3, <2>1, <2>3, OthersPoolOK
  <2>. QED
    BY <2>2, <2>4
<1>. QED
  BY <1>4, <1>5, <1>6, <1>7 DEF PoolInv

LEMMA PoolsInit == Init => \E mix \in Mixes : PoolInv(mix)
<1> SUFFICES ASSUME Init
             PROVE  \E mix \in Mixes : PoolInv(mix)
  OBVIOUS
<1>1. PICK mix \in Mixes : load = [crew |-> mix.crew, timed |-> mix.timed] /\ todo = mix.todo
  BY DEF Init
<1>2. MarketsHeld
  BY MarketsHeldInit
<1>3. /\ \A m \in Markets : /\ markets[m].by = Nobody
                            /\ markets[m].now = NewMarket /\ markets[m].new = NewMarket
      /\ \A i \in StakeIds : /\ stakes[i].by = Nobody /\ stakes[i].new = stakes[i].now
                             /\ stakes[i].now.amount = 0
      /\ \A w \in Workers : pc[w] = "idle" /\ req[w] = NoRequest
  BY DEF Init, Fresh
<1>4. Fits(mix)
  BY <1>1, <1>3 DEF Fits
<1>5. CleanStakes /\ OnlyPools
  BY <1>3 DEF CleanStakes, OnlyPools
<1>6. \A m \in Markets : Matched(m)
  <2>1. \A m, side : StakesOn(m, {side}) = {}
    BY <1>3 DEF StakesOn
  <2>2. \A m, side : StakeTotal(m, {side}) = 0
    BY <2>1, SumEmpty DEF StakeTotal
  <2>3. \A side \in Sides : NewMarket.pool[side] = 0
    BY DEF NewMarket
  <2>. QED
    BY <1>3, <2>2, <2>3, Zenon DEF Matched
<1>7. \A w \in Workers : StakeOK(w) /\ PoolOK(mix, w)
  BY <1>3, NobodyAssumption DEF StakeOK, PoolOK, Banked, NoRequest
<1>8. Matches(mix)
  BY <1>6 DEF Matches
<1>. QED
  BY <1>2, <1>4, <1>5, <1>7, <1>8 DEF PoolInv

LEMMA PoolsNext ==
    ASSUME NEW mix, PoolsStayCancelled(mix)
    PROVE  PoolInv(mix) /\ [Next]_vars => PoolInv(mix)'
<1> SUFFICES ASSUME PoolInv(mix), [Next]_vars
             PROVE  PoolInv(mix)'
  OBVIOUS
<1>1. MarketsHeld' /\ HouseTyped
  BY MarketsHeldNext DEF PoolInv, MarketsHeld, HouseHeld
<1>2. CASE \E w \in Workers : WorkerStep(w) /\ ~Rollback(w)
  BY <1>1, <1>2, StatementKeepsPools
<1>3. CASE \E w \in Workers : Rollback(w)
  BY <1>1, <1>3, RollbackKeepsPools
<1>4. CASE \E w \in Workers : Commit(w)
  BY <1>1, <1>4, CommitKeepsPools
<1>5. CASE ClockTick \/ UNCHANGED vars
  <2>1. UNCHANGED <<markets, stakes, load, pc, req>>
    BY <1>5, TicksKeep DEF tables
  <2>2. todo' = todo
    BY <1>5 DEF ClockTick, Lapse, Expire, vars
  <2>3. Fits(mix)' /\ CleanStakes'
    BY <2>1, <2>2 DEF Fits, CleanStakes, PoolInv
  <2>4. OnlyPools'
    <3>1. NewMarket.pool' = NewMarket.pool
      BY DEF NewMarket
    <3>. QED
      BY <2>1, <3>1 DEF PoolInv, OnlyPools, IsPool, Mechanism
  <2>5. Matches(mix)'
    <3>1. SUFFICES ASSUME NEW m \in Markets, IsPool(m),
                          markets'[m].now.status # "cancelled" \/ ~Annulable(mix, m)
                   PROVE  Matched(m)'
      BY DEF Matches, Annulable, IsPool, Mechanism
    <3>2. Matched(m)
      BY <2>1, <3>1 DEF PoolInv, Matches
    <3>. QED
      BY <2>1, <3>2, SameMatched
  <2>6. ASSUME NEW v \in Workers
        PROVE  StakeOK(v)' /\ PoolOK(mix, v)'
    <3>1. StakeOK(v) /\ PoolOK(mix, v)
      BY DEF PoolInv
    <3>2. req[v].op \in {"stake", "settle"} => req[v].market \in Markets
      BY Holding, Typed, RequestForms DEF PoolInv, MarketsHeld
    <3>. QED
      BY <2>1, <3>1, <3>2, OthersStakeOK, OthersPoolOK
  <2>. QED
    BY <1>1, <2>3, <2>4, <2>5, <2>6 DEF PoolInv
<1>6. CASE \E m \in Markets : CloseMarket(m)
  BY <1>1, <1>6, CloseKeepsPools
<1>. QED
  BY <1>1, <1>2, <1>3, <1>4, <1>5, <1>6, StepKinds

\* The pool columns of a market are the sums of its stakes' ledger entries, until it is
\* cancelled: a stake and its part of the pool are one transaction, and no other statement
\* puts back a pool that it read before.  Unless a cancelled market can be had back: the
\* loads are those whose operators leave a market alone that they also cancel.
THEOREM PoolsMatchStakes ==
    ASSUME \A mix \in Mixes : PoolsStayCancelled(mix)
    PROVE  Spec => []PoolMatchesStakes
<1> DEFINE Inv == \E mix \in Mixes : PoolInv(mix)
<1>1. Init => Inv
  BY PoolsInit
<1>2. Inv /\ [Next]_vars => Inv'
  BY PoolsNext
<1>3. Inv => PoolMatchesStakes
  <2> SUFFICES ASSUME NEW mix \in Mixes, PoolInv(mix), NEW m \in Markets,
                      markets[m].now.status # "cancelled"
               PROVE  Matched(m)
    BY Zenon DEF PoolMatchesStakes, Matched
  <2>1. CASE IsPool(m)
    BY <2>1 DEF PoolInv, Matches
  <2>2. CASE ~IsPool(m)
    <3>1. stakes \in [StakeIds -> RowOf(Stake)]
      BY DEF PoolInv, MarketsHeld, HouseHeld, HouseTyped, TypeOK
    <3>2. \A side : StakesOn(m, {side}) = {}
      BY <2>2, <3>1 DEF StakesOn, PoolInv, OnlyPools
    <3>3. \A side : StakeTotal(m, {side}) = 0
      BY <3>2, SumEmpty DEF StakeTotal
    <3>4. \A side \in Sides : markets[m].now.pool[side] = 0
      BY <2>2 DEF PoolInv, OnlyPools, NewMarket
    <3>. QED
      BY <3>3, <3>4 DEF Matched
  <2>. QED
    BY <2>1, <2>2
<1>. QED
  BY <1>1, <1>2, <1>3, PTL DEF Spec

(***************************************************************************)
(* What a market of one worker's pays: pools and the market maker, from    *)
(* the first stake to the last cent.                                       *)
(***************************************************************************)

\* The states of a market that is not over.
Live == {"open", "closed"}

\* The stakes in a market among given rows; what customer u has among some of them, how
\* many of them are u's, and what all of them come to.
On(rows, m, sides) ==
    {i \in StakeIds : rows[i].amount > 0 /\ rows[i].market = m /\ rows[i].side \in sides}

Amounts(rows) == [i \in StakeIds |-> rows[i].amount]
Ones == [i \in StakeIds |-> 1]
Mine(rows, set, u) == {i \in set : rows[i].user = u}
Staked(rows, set, u) == SumFunctionOnSet(Amounts(rows), Mine(rows, set, u))
Counted(rows, set, u) == SumFunctionOnSet(Ones, Mine(rows, set, u))
AllStaked(rows, set) == SumFunctionOnSet(Amounts(rows), set)

After(rows, m) ==
    AllStaked(rows, On(rows, m, Sides)) - Takeout(m, AllStaked(rows, On(rows, m, Sides)))

\* What customer u has had of the pool m when it goes to side and the stakes in left are
\* still to come: the stakes of before, if nobody has won; otherwise a share of what is
\* left after the takeout, that is not too large, and too small by a cent a stake at most.
Divided(ledger, rows, m, side, left, u) ==
    LET won == On(rows, m, {side})
        win == ledger[Entry("SETTLEMENT_WIN", m)]
        fair == After(rows, m) * Staked(rows, won \ left, u)
    IN  IF won = {}
        THEN ledger[Entry("PARIMUTUEL_REFUND", m)] = Staked(rows, On(rows, m, Sides) \ left, u)
        ELSE /\ AllStaked(rows, won) * win <= fair
             /\ fair <= AllStaked(rows, won) * (win + Counted(rows, won \ left, u))

\* What customer u's ledger says of market m, which is as market says, among the stakes
\* in rows, when those in left are still to be paid.
Square(ledger, market, rows, m, left, u) ==
    LET Of(type) == ledger[Entry(type, m)]
        staked == Staked(rows, On(rows, m, Sides), u)
        over == Mechanism(m) # "fixed_odds"
    IN  /\ Of("PARIMUTUEL_STAKE") = staked
        /\ Of("LMSR_TRADE_STAKE") = market.costs[u]
        /\ Mechanism(m) # "parimutuel" => staked = 0
        /\ Mechanism(m) # "lmsr" => market.costs[u] = 0
        /\ ~over \/ market.status \in Live =>
               /\ Of("SETTLEMENT_WIN") = 0 /\ Of("PARIMUTUEL_REFUND") = 0
               /\ Of("MARKET_CANCEL_REFUND") = 0
        /\ Mechanism(m) = "parimutuel" /\ market.status = "cancelled" =>
               Of("MARKET_CANCEL_REFUND") = Staked(rows, On(rows, m, Sides) \ left, u)
        /\ Mechanism(m) = "lmsr" /\ market.status = "cancelled" =>
               Of("MARKET_CANCEL_REFUND") = IF u \in left THEN 0 ELSE market.costs[u]
        /\ Mechanism(m) = "lmsr" /\ market.status = "settled" =>
               Of("SETTLEMENT_WIN") = IF u \in left THEN 0 ELSE 100 * market.held[u][market.outcome]
        /\ Mechanism(m) = "parimutuel" /\ market.status = "settled" =>
               Divided(ledger, rows, m, market.outcome, left, u)

\* Sums over stakes are natural numbers.
LEMMA StakesAddUp ==
    ASSUME NEW rows \in [StakeIds -> Stake], NEW set \in SUBSET StakeIds, NEW u
    PROVE  /\ Staked(rows, set, u) \in Nat /\ Counted(rows, set, u) \in Nat
           /\ AllStaked(rows, set) \in Nat
<1>1. /\ Mine(rows, set, u) \in SUBSET StakeIds
      /\ \A i \in StakeIds : Amounts(rows)[i] \in Nat /\ Ones[i] \in Nat
  BY DEF Mine, Amounts, Ones, Stake
<1>2. IsFiniteSet(Mine(rows, set, u)) /\ IsFiniteSet(set)
  BY <1>1, StakeIdsFinite, FS_Subset
<1>3. \A i \in Mine(rows, set, u) : Amounts(rows)[i] \in Nat /\ Ones[i] \in Nat
  BY <1>1
<1>4. Staked(rows, set, u) \in Nat
  BY <1>2, <1>3, SumNat DEF Staked
<1>5. Counted(rows, set, u) \in Nat
  BY <1>2, <1>3, SumNat DEF Counted
<1>6. AllStaked(rows, set) \in Nat
  BY <1>1, <1>2, SumNat DEF AllStaked
<1>. QED
  BY <1>4, <1>5, <1>6

\* The stakes of a market are those of its sides.
LEMMA SidesTogether ==
    ASSUME NEW rows \in [StakeIds -> Stake], NEW m
    PROVE  /\ \A side : AllStaked(rows, On(rows, m, {side})) = TotalOf(rows, m, side)
           /\ AllStaked(rows, On(rows, m, Sides))
                = TotalOf(rows, m, "YES") + TotalOf(rows, m, "NO")
<1>1. \A side : AllStaked(rows, On(rows, m, {side})) = TotalOf(rows, m, side)
  BY DEF AllStaked, On, TotalOf, Amounts
<1>2. PICK all, yes, no :
          /\ all = [i \in StakeIds |-> IF i \in On(rows, m, Sides) THEN rows[i].amount ELSE 0]
          /\ yes = [i \in StakeIds |-> InColumn(rows[i], m, "YES")]
          /\ no = [i \in StakeIds |-> InColumn(rows[i], m, "NO")]
  OBVIOUS
<1>3. On(rows, m, Sides) \in SUBSET StakeIds
  BY DEF On
<1>4. \A i \in StakeIds : rows[i].amount \in Nat /\ rows[i].side \in Sides
  BY DEF Stake
<1>5. AllStaked(rows, On(rows, m, Sides)) = SumFunctionOnSet(all, StakeIds)
  <2>1. \A i \in On(rows, m, Sides) : Amounts(rows)[i] \in Int /\ all[i] = Amounts(rows)[i]
    BY <1>2, <1>3, <1>4 DEF Amounts
  <2>2. \A i \in StakeIds \ On(rows, m, Sides) : all[i] = 0
    BY <1>2
  <2>. QED
    BY <1>3, <2>1, <2>2, StakeIdsFinite, SumOfSome DEF AllStaked
<1>6. \A i \in StakeIds : yes[i] \in Int /\ no[i] \in Int /\ all[i] = yes[i] + no[i]
  BY <1>2, <1>4 DEF InColumn, On, Sides
<1>7. SumFunctionOnSet(all, StakeIds)
        = SumFunctionOnSet(yes, StakeIds) + SumFunctionOnSet(no, StakeIds)
  BY <1>6, StakeIdsFinite, SumPlus
<1>. QED
  BY <1>1, <1>2, <1>5, <1>7, TotalIsColumn

\* One more stake is visited.
LEMMA OneVisited ==
    ASSUME NEW rows \in [StakeIds -> Stake], NEW set \in SUBSET StakeIds, NEW left,
           NEW k \in set, k \in left, NEW u
    PROVE  /\ rows[k].user = u =>
                  /\ Staked(rows, set \ (left \ {k}), u)
                       = Staked(rows, set \ left, u) + rows[k].amount
                  /\ Counted(rows, set \ (left \ {k}), u) = Counted(rows, set \ left, u) + 1
           /\ rows[k].user # u =>
                  /\ Staked(rows, set \ (left \ {k}), u) = Staked(rows, set \ left, u)
                  /\ Counted(rows, set \ (left \ {k}), u) = Counted(rows, set \ left, u)
<1>1. PICK before : before = Mine(rows, set \ left, u)
  OBVIOUS
<1>2. /\ before \in SUBSET StakeIds /\ k \notin before
      /\ Mine(rows, set \ (left \ {k}), u) = IF rows[k].user = u THEN before \cup {k} ELSE before
  BY <1>1 DEF Mine
<1>3. IsFiniteSet(before)
  BY <1>2, StakeIdsFinite, FS_Subset
<1>4. \A i \in StakeIds : Amounts(rows)[i] \in Int /\ Ones[i] \in Int
  BY DEF Amounts, Ones, Stake
<1>5. Amounts(rows)[k] = rows[k].amount /\ Ones[k] = 1
  BY DEF Amounts, Ones
<1>6. /\ SumFunctionOnSet(Amounts(rows), before \cup {k})
           = SumFunctionOnSet(Amounts(rows), before) + rows[k].amount
      /\ SumFunctionOnSet(Ones, before \cup {k}) = SumFunctionOnSet(Ones, before) + 1
  BY <1>2, <1>3, <1>4, <1>5, SumAdded
<1>7. SumFunctionOnSet(Amounts(rows), before) \in Int /\ SumFunctionOnSet(Ones, before) \in Int
  BY <1>2, <1>3, <1>4, SumInt
<1>. QED
  BY <1>1, <1>2, <1>6, <1>7 DEF Staked, Counted

\* Before the first of them is visited.
LEMMA NoneVisited ==
    ASSUME NEW rows, NEW set, NEW u
    PROVE  Staked(rows, set \ set, u) = 0 /\ Counted(rows, set \ set, u) = 0
<1>1. Mine(rows, set \ set, u) = {}
  BY DEF Mine
<1>. QED
  BY <1>1, SumEmpty DEF Staked, Counted

\* The stakes in a market are the same among both rows.
SameOn(old, new, m) ==
    /\ On(new, m, Sides) = On(old, m, Sides)
    /\ \A i \in On(old, m, Sides) : new[i] = old[i]

LEMMA SameSide ==
    ASSUME NEW old \in [StakeIds -> Stake], NEW new \in [StakeIds -> Stake], NEW m,
           SameOn(old, new, m), NEW side
    PROVE  On(new, m, {side}) = On(old, m, {side})
<1>1. \A i \in StakeIds : old[i].side \in Sides /\ new[i].side \in Sides
  BY DEF Stake
<1>2. On(new, m, {side}) \subseteq On(new, m, Sides) /\ On(old, m, {side}) \subseteq On(old, m, Sides)
  BY <1>1 DEF On
<1>3. \A i \in On(old, m, Sides) : i \in On(new, m, {side}) <=> i \in On(old, m, {side})
  BY DEF SameOn, On
<1>. QED
  BY <1>2, <1>3 DEF SameOn

LEMMA SameSums ==
    ASSUME NEW old \in [StakeIds -> Stake], NEW new \in [StakeIds -> Stake], NEW m,
           SameOn(old, new, m)
    PROVE  /\ \A set \in SUBSET On(old, m, Sides) :
                  /\ AllStaked(new, set) = AllStaked(old, set)
                  /\ \A u : /\ Staked(new, set, u) = Staked(old, set, u)
                            /\ Counted(new, set, u) = Counted(old, set, u)
           /\ After(new, m) = After(old, m)
<1>3. ASSUME NEW set \in SUBSET On(old, m, Sides)
      PROVE  /\ AllStaked(new, set) = AllStaked(old, set)
             /\ \A u : /\ Staked(new, set, u) = Staked(old, set, u)
                       /\ Counted(new, set, u) = Counted(old, set, u)
  <2>1. set \in SUBSET StakeIds /\ \A i \in set : new[i] = old[i]
    BY DEF On, SameOn
  <2>2. \A i \in set : Amounts(new)[i] = Amounts(old)[i]
    BY <2>1 DEF Amounts
  <2>3. AllStaked(new, set) = AllStaked(old, set)
    <3>1. IsFiniteSet(set)
      BY <2>1, StakeIdsFinite, FS_Subset
    <3>. QED
      BY <2>2, <3>1, SumEqual DEF AllStaked
  <2>4. ASSUME NEW u
        PROVE  /\ Staked(new, set, u) = Staked(old, set, u)
               /\ Counted(new, set, u) = Counted(old, set, u)
    <3>1. Mine(new, set, u) = Mine(old, set, u)
      BY <2>1 DEF Mine
    <3>2. IsFiniteSet(Mine(old, set, u)) /\ \A i \in Mine(old, set, u) : i \in set
      BY <2>1, StakeIdsFinite, FS_Subset DEF Mine
    <3>3. SumFunctionOnSet(Amounts(new), Mine(old, set, u))
            = SumFunctionOnSet(Amounts(old), Mine(old, set, u))
      BY <2>2, <3>2, SumEqual
    <3>. QED
      BY <3>1, <3>3 DEF Staked, Counted
  <2>. QED
    BY <2>3, <2>4
<1>4. After(new, m) = After(old, m)
  BY <1>3 DEF After, SameOn
<1>. QED
  BY <1>3, <1>4

\* The types of a market's ledger entries, fees apart; and a ledger with nothing new about
\* market m, or so much more of one type.
MarketTypes ==
    {"PARIMUTUEL_STAKE", "PARIMUTUEL_REFUND", "LMSR_TRADE_STAKE", "SETTLEMENT_WIN",
     "MARKET_CANCEL_REFUND"}

SameLines(old, new, m) == \A type \in MarketTypes : new[Entry(type, m)] = old[Entry(type, m)]

Gains(old, new, m, type, amount) ==
    \A t \in MarketTypes :
        new[Entry(t, m)] = old[Entry(t, m)] + (IF t = type THEN amount ELSE 0)

\* What a market's payments depend on stays the same, or is not looked at.
LEMMA StillSquare ==
    ASSUME NEW ledger, NEW market, NEW rows \in [StakeIds -> Stake], NEW m, NEW left, NEW u,
           Square(ledger, market, rows, m, left, u),
           NEW ledger2, NEW market2, NEW rows2 \in [StakeIds -> Stake], NEW left2,
           SameLines(ledger, ledger2, m), SameOn(rows, rows2, m),
           market2.costs[u] = market.costs[u],
           \/ Mechanism(m) = "fixed_odds"
           \/ market.status \in Live /\ market2.status \in Live
           \/ /\ market2.status = market.status /\ market2.outcome = market.outcome
              /\ market2.held[u] = market.held[u] /\ left2 = left
    PROVE  Square(ledger2, market2, rows2, m, left2, u)
<1>1. PICK all : all = On(rows, m, Sides) /\ On(rows2, m, Sides) = all
  BY DEF SameOn
<1>2. /\ Staked(rows2, all, u) = Staked(rows, all, u)
      /\ Staked(rows2, all \ left, u) = Staked(rows, all \ left, u)
  BY <1>1, SameSums
<1>3. \A type \in MarketTypes : ledger2[Entry(type, m)] = ledger[Entry(type, m)]
  BY DEF SameLines
<1>4. ASSUME NEW side, Divided(ledger, rows, m, side, left, u)
      PROVE  Divided(ledger2, rows2, m, side, left, u)
  <2>0. On(rows2, m, {side}) = On(rows, m, {side})
    BY SameSide
  <2>1. PICK won : won = On(rows, m, {side}) /\ On(rows2, m, {side}) = won
    BY <2>0
  <2>2. won \in SUBSET On(rows, m, Sides)
    BY <2>1 DEF On, Stake
  <2>3. /\ AllStaked(rows2, won) = AllStaked(rows, won)
        /\ Staked(rows2, won \ left, u) = Staked(rows, won \ left, u)
        /\ Counted(rows2, won \ left, u) = Counted(rows, won \ left, u)
        /\ After(rows2, m) = After(rows, m)
    BY <2>2, SameSums
  <2>4. /\ ledger2[Entry("PARIMUTUEL_REFUND", m)] = ledger[Entry("PARIMUTUEL_REFUND", m)]
        /\ ledger2[Entry("SETTLEMENT_WIN", m)] = ledger[Entry("SETTLEMENT_WIN", m)]
    BY <1>3 DEF MarketTypes
  <2>5. CASE won = {}
    BY <1>1, <1>2, <1>4, <2>1, <2>4, <2>5 DEF Divided
  <2>6. CASE won # {}
    BY <1>4, <2>1, <2>3, <2>4, <2>6 DEF Divided
  <2>. QED
    BY <2>5, <2>6
<1>5. /\ ledger2[Entry("PARIMUTUEL_STAKE", m)] = ledger[Entry("PARIMUTUEL_STAKE", m)]
      /\ ledger2[Entry("LMSR_TRADE_STAKE", m)] = ledger[Entry("LMSR_TRADE_STAKE", m)]
      /\ ledger2[Entry("SETTLEMENT_WIN", m)] = ledger[Entry("SETTLEMENT_WIN", m)]
      /\ ledger2[Entry("PARIMUTUEL_REFUND", m)] = ledger[Entry("PARIMUTUEL_REFUND", m)]
      /\ ledger2[Entry("MARKET_CANCEL_REFUND", m)] = ledger[Entry("MARKET_CANCEL_REFUND", m)]
  BY <1>3 DEF MarketTypes
<1>6. CASE Mechanism(m) = "fixed_odds"
  BY <1>1, <1>2, <1>5, <1>6 DEF Square
<1>7. CASE market.status \in Live /\ market2.status \in Live
  BY <1>1, <1>2, <1>5, <1>7 DEF Square, Live
<1>8. CASE /\ market2.status = market.status /\ market2.outcome = market.outcome
           /\ market2.held[u] = market.held[u] /\ left2 = left
  BY <1>1, <1>2, <1>4, <1>5, <1>8 DEF Square
<1>. QED
  BY <1>6, <1>7, <1>8

\* A stake is banked in a market: its owner has staked so much more there.
LEMMA OneBanked ==
    ASSUME NEW old \in [StakeIds -> Stake], NEW i \in StakeIds, old[i].amount = 0,
           NEW new \in [StakeIds -> Stake], \A j \in StakeIds \ {i} : new[j] = old[j],
           new[i].amount > 0, NEW m, NEW u
    PROVE  /\ new[i].market # m => SameOn(old, new, m)
           /\ new[i].market = m /\ new[i].user = u =>
                  Staked(new, On(new, m, Sides), u)
                    = Staked(old, On(old, m, Sides), u) + new[i].amount
           /\ new[i].market = m /\ new[i].user # u =>
                  Staked(new, On(new, m, Sides), u) = Staked(old, On(old, m, Sides), u)
<1>1. i \notin On(old, m, Sides) /\ \A j \in On(old, m, Sides) : new[j] = old[j]
  BY DEF On, Stake
<1>2. CASE new[i].market # m
  BY <1>1, <1>2 DEF SameOn, On
<1>3. CASE new[i].market = m
  <2>1. new[i].side \in Sides
    BY DEF Stake
  <2>2. On(new, m, Sides) = On(old, m, Sides) \cup {i}
    BY <1>1, <1>3, <2>1 DEF On, Stake
  <2>3. PICK before : before = Mine(old, On(old, m, Sides), u)
    OBVIOUS
  <2>4. /\ before \in SUBSET StakeIds /\ i \notin before
        /\ \A j \in before : new[j] = old[j]
    BY <1>1, <2>3 DEF Mine, On
  <2>5. Mine(new, On(new, m, Sides), u) = IF new[i].user = u THEN before \cup {i} ELSE before
    BY <1>1, <2>2, <2>3 DEF Mine
  <2>6. IsFiniteSet(before)
    BY <2>4, StakeIdsFinite, FS_Subset
  <2>7. /\ \A j \in StakeIds : Amounts(new)[j] \in Int /\ Amounts(old)[j] \in Int
        /\ \A j \in before : Amounts(new)[j] = Amounts(old)[j]
        /\ Amounts(new)[i] = new[i].amount
    BY <2>4 DEF Amounts, Stake
  <2>8. SumFunctionOnSet(Amounts(new), before) = SumFunctionOnSet(Amounts(old), before)
    BY <2>6, <2>7, SumEqual
  <2>9. SumFunctionOnSet(Amounts(new), before \cup {i})
          = SumFunctionOnSet(Amounts(new), before) + new[i].amount
    BY <2>4, <2>6, <2>7, SumAdded
  <2>10. SumFunctionOnSet(Amounts(old), before) \in Int
    BY <2>4, <2>6, <2>7, SumInt
  <2>. QED
    BY <1>3, <2>3, <2>5, <2>8, <2>9, <2>10 DEF Staked
<1>. QED
  BY <1>2, <1>3

\* Five lines of a ledger, before and after one of them grows.
LEMMA FiveLines ==
    ASSUME NEW ledger \in [Line -> Nat], NEW ledger2, NEW m \in Markets, NEW type,
           NEW amount \in Int, Gains(ledger, ledger2, m, type, amount)
    PROVE  LET Of(t) == ledger[Entry(t, m)]
               Now(t) == ledger2[Entry(t, m)]
               Gain(t) == IF t = type THEN amount ELSE 0
           IN  /\ Now("PARIMUTUEL_STAKE") = Of("PARIMUTUEL_STAKE") + Gain("PARIMUTUEL_STAKE")
               /\ Now("LMSR_TRADE_STAKE") = Of("LMSR_TRADE_STAKE") + Gain("LMSR_TRADE_STAKE")
               /\ Now("SETTLEMENT_WIN") = Of("SETTLEMENT_WIN") + Gain("SETTLEMENT_WIN")
               /\ Now("PARIMUTUEL_REFUND") = Of("PARIMUTUEL_REFUND") + Gain("PARIMUTUEL_REFUND")
               /\ Now("MARKET_CANCEL_REFUND")
                      = Of("MARKET_CANCEL_REFUND") + Gain("MARKET_CANCEL_REFUND")
               /\ \A t \in MarketTypes : Of(t) \in Nat
<1>1. \A t \in MarketTypes : Entry(t, m) \in Line
  BY DEF MarketTypes, Entry, Line, MarketLine
<1>2. \A t \in MarketTypes : ledger[Entry(t, m)] \in Nat
  BY <1>1
<1>. QED
  BY <1>2 DEF Gains, MarketTypes

\* A holder of winning contracts is paid, and a trader is paid back.
LEMMA HolderPaid ==
    ASSUME NEW ledger \in [Line -> Nat], NEW ledger2, NEW market \in Market, NEW rows,
           NEW m \in Markets, NEW left, NEW u \in Users, NEW k \in left,
           Square(ledger, market, rows, m, left, u), Mechanism(m) = "lmsr",
           NEW type, NEW amount \in Int,
           Gains(ledger, ledger2, m, type, IF u = k THEN amount ELSE 0),
           \/ /\ type = "SETTLEMENT_WIN" /\ market.status = "settled"
              /\ amount = 100 * market.held[k][market.outcome]
           \/ type = "MARKET_CANCEL_REFUND" /\ market.status = "cancelled" /\ amount = market.costs[k]
    PROVE  Square(ledger2, market, rows, m, left \ {k}, u)
<1>1. PICK gain \in Int : gain = IF u = k THEN amount ELSE 0
  OBVIOUS
<1>2. Gains(ledger, ledger2, m, type, gain)
  BY <1>1
<1>3. /\ ledger2[Entry("PARIMUTUEL_STAKE", m)] = ledger[Entry("PARIMUTUEL_STAKE", m)]
      /\ ledger2[Entry("LMSR_TRADE_STAKE", m)] = ledger[Entry("LMSR_TRADE_STAKE", m)]
      /\ ledger2[Entry("SETTLEMENT_WIN", m)] = ledger[Entry("SETTLEMENT_WIN", m)]
             + (IF type = "SETTLEMENT_WIN" THEN gain ELSE 0)
      /\ ledger2[Entry("MARKET_CANCEL_REFUND", m)] = ledger[Entry("MARKET_CANCEL_REFUND", m)]
             + (IF type = "MARKET_CANCEL_REFUND" THEN gain ELSE 0)
      /\ ledger[Entry("SETTLEMENT_WIN", m)] \in Nat
      /\ ledger[Entry("MARKET_CANCEL_REFUND", m)] \in Nat
      /\ ledger[Entry("PARIMUTUEL_STAKE", m)] \in Nat
      /\ ledger[Entry("LMSR_TRADE_STAKE", m)] \in Nat
  <2>1. type # "PARIMUTUEL_STAKE" /\ type # "LMSR_TRADE_STAKE"
    OBVIOUS
  <2>2. \A t \in MarketTypes : ledger[Entry(t, m)] \in Nat
    BY <1>2, FiveLines
  <2>3. \A t \in MarketTypes :
            ledger2[Entry(t, m)] = ledger[Entry(t, m)] + (IF t = type THEN gain ELSE 0)
    BY <1>2 DEF Gains
  <2>. QED
    BY <2>1, <2>2, <2>3 DEF MarketTypes
<1>4. u \in left \ {k} <=> u \in left /\ u # k
  OBVIOUS
<1>5. CASE u = k
  BY <1>1, <1>3, <1>4, <1>5 DEF Square, Live
<1>6. CASE u # k
  <2>1. gain = 0
    BY <1>1, <1>6
  <2>2. /\ ledger2[Entry("SETTLEMENT_WIN", m)] = ledger[Entry("SETTLEMENT_WIN", m)]
        /\ ledger2[Entry("MARKET_CANCEL_REFUND", m)] = ledger[Entry("MARKET_CANCEL_REFUND", m)]
    BY <1>3, <2>1
  <2>. QED
    BY <1>3, <1>4, <1>6, <2>2 DEF Square, Live
<1>. QED
  BY <1>5, <1>6

\* A stake of a cancelled pool is paid back.
LEMMA StakePaidBack ==
    ASSUME NEW ledger \in [Line -> Nat], NEW ledger2, NEW market,
           NEW rows \in [StakeIds -> Stake], NEW m \in Markets, NEW left, NEW u \in Users,
           NEW k \in left, k \in On(rows, m, Sides),
           Square(ledger, market, rows, m, left, u), Mechanism(m) = "parimutuel",
           market.status = "cancelled",
           Gains(ledger, ledger2, m, "MARKET_CANCEL_REFUND",
                 IF rows[k].user = u THEN rows[k].amount ELSE 0)
    PROVE  Square(ledger2, market, rows, m, left \ {k}, u)
<1>1. PICK gain \in Int : gain = IF rows[k].user = u THEN rows[k].amount ELSE 0
  BY DEF On, Stake
<1>2. Gains(ledger, ledger2, m, "MARKET_CANCEL_REFUND", gain)
  BY <1>1
<1>3. /\ ledger2[Entry("PARIMUTUEL_STAKE", m)] = ledger[Entry("PARIMUTUEL_STAKE", m)]
      /\ ledger2[Entry("LMSR_TRADE_STAKE", m)] = ledger[Entry("LMSR_TRADE_STAKE", m)]
      /\ ledger2[Entry("MARKET_CANCEL_REFUND", m)]
           = ledger[Entry("MARKET_CANCEL_REFUND", m)] + gain
      /\ ledger[Entry("PARIMUTUEL_STAKE", m)] \in Nat
      /\ ledger[Entry("LMSR_TRADE_STAKE", m)] \in Nat
  BY <1>2, FiveLines DEF MarketTypes
<1>4. PICK all \in SUBSET StakeIds : all = On(rows, m, Sides)
  BY DEF On
<1>5. Staked(rows, all \ (left \ {k}), u) = Staked(rows, all \ left, u) + gain
  <2>1. CASE rows[k].user = u
    <3>1. Staked(rows, all \ (left \ {k}), u) = Staked(rows, all \ left, u) + rows[k].amount
      BY <1>4, <2>1, OneVisited
    <3>. QED
      BY <1>1, <2>1, <3>1
  <2>2. CASE rows[k].user # u
    <3>1. Staked(rows, all \ (left \ {k}), u) = Staked(rows, all \ left, u)
      BY <1>4, <2>2, OneVisited
    <3>2. Staked(rows, all \ left, u) \in Nat
      BY StakesAddUp
    <3>. QED
      BY <1>1, <2>2, <3>1, <3>2
  <2>. QED
    BY <2>1, <2>2
<1>. QED
  BY <1>3, <1>4, <1>5 DEF Square, Live

LEMMA Division ==
    ASSUME NEW q \in Nat, NEW p \in Nat \ {0}
    PROVE  q = p * (q \div p) + (q % p) /\ q % p >= 0 /\ q % p < p /\ q % p \in Nat
<1>1. p \in Nat /\ p > 0
  OBVIOUS
<1>2. q = p * (q \div p) + (q % p)
  BY <1>1, SMTT(30)
<1>3. q % p >= 0 /\ q % p < p /\ q % p \in Int
  BY <1>1, SMTT(30)
<1>. QED
  BY <1>2, <1>3

\* A share of what is left: rounded down, and at most a cent less than that.
LEMMA ShareBounds ==
    ASSUME NEW m \in Markets, NEW pool \in [Sides -> Nat], NEW side \in Sides,
           pool[side] # 0, NEW amount \in Nat, NEW share \in PoolShares(m, pool, side, amount),
           NEW total \in Nat, total = pool["YES"] + pool["NO"],
           NEW after \in Nat, after = total - Takeout(m, total)
    PROVE  /\ share \in Nat
           /\ pool[side] * share <= amount * after
           /\ amount * after <= pool[side] * (share + 1)
<1>1. PICK p \in Nat \ {0}, q \in Nat : p = pool[side] /\ q = amount * after
  BY Product
<1>2. PICK whole \in Nat : whole = q \div p
  BY <1>1, Quotient
<1>3. p * whole <= q /\ q < p * (whole + 1) /\ (q % p = 0 => p * whole = q)
  <2>1. PICK rest \in Nat, part \in Nat : rest = q % p /\ part = p * whole
    BY <1>1, <1>2, Division, Product
  <2>2. q = part + rest /\ rest < p
    <3>1. q = p * (q \div p) + (q % p) /\ q % p < p
      BY Division
    <3>. QED
      BY <1>2, <2>1, <3>1
  <2>3. p * (whole + 1) = part + p
    BY <1>1, <1>2, <2>1
  <2>. QED
    BY <2>1, <2>2, <2>3
<1>4. \/ share = whole
      \/ share = whole - 1 /\ q % p = 0
  BY <1>1, <1>2 DEF PoolShares
<1>5. share \in Nat
  BY SharesAreNat
<1>6. CASE share = whole
  BY <1>1, <1>3, <1>6
<1>7. CASE share = whole - 1 /\ q % p = 0
  <2>1. p * share = q - p /\ p * (share + 1) = q
    BY <1>1, <1>3, <1>5, <1>7
  <2>. QED
    BY <1>1, <1>5, <2>1
<1>. QED
  BY <1>4, <1>6, <1>7

\* Bounds on two shares are bounds on both together.
LEMMA SharesTogether ==
    ASSUME NEW prize \in Nat, NEW win \in Nat, NEW share \in Nat, NEW after \in Nat,
           NEW staked \in Nat, NEW amount \in Nat, NEW count \in Nat,
           prize * win <= after * staked, after * staked <= prize * (win + count),
           prize * share <= amount * after, amount * after <= prize * (share + 1)
    PROVE  /\ prize * (win + share) <= after * (staked + amount)
           /\ after * (staked + amount) <= prize * ((win + share) + (count + 1))
<1>1. /\ prize * (win + share) = prize * win + prize * share
      /\ after * (staked + amount) = after * staked + amount * after
      /\ prize * ((win + share) + (count + 1)) = prize * (win + count) + prize * (share + 1)
  BY SMTT(30)
<1>2. PICK a \in Nat, b \in Nat, c \in Nat, d \in Nat, e \in Nat, f \in Nat :
          /\ a = prize * win /\ b = prize * share /\ c = after * staked /\ d = amount * after
          /\ e = prize * (win + count) /\ f = prize * (share + 1)
  BY Product
<1>. QED
  BY <1>1, <1>2

\* Nobody has won just when the winning side's pool is empty.
LEMMA NoPrize ==
    ASSUME NEW rows \in [StakeIds -> Stake], NEW m, NEW side
    PROVE  AllStaked(rows, On(rows, m, {side})) = 0 <=> On(rows, m, {side}) = {}
<1>1. PICK won \in SUBSET StakeIds : won = On(rows, m, {side})
  BY DEF On
<1>2. \A i \in won : Amounts(rows)[i] \in Nat /\ Amounts(rows)[i] > 0
  BY <1>1 DEF On, Amounts, Stake
<1>3. IsFiniteSet(won)
  BY StakeIdsFinite, FS_Subset
<1>4. CASE won = {}
  BY <1>1, <1>4, SumEmpty DEF AllStaked
<1>5. CASE won # {}
  <2>1. PICK i \in won : TRUE
    BY <1>5
  <2>2. Amounts(rows)[i] <= SumFunctionOnSet(Amounts(rows), won)
    BY <1>2, <1>3, <2>1, SumBounds
  <2>3. SumFunctionOnSet(Amounts(rows), won) \in Nat
    BY <1>2, <1>3, SumNat
  <2>. QED
    BY <1>1, <1>2, <1>5, <2>1, <2>2, <2>3 DEF AllStaked
<1>. QED
  BY <1>4, <1>5

\* A pool to be divided: what is in it, after the takeout, and on the winning side.
LEMMA PoolOfStakes ==
    ASSUME NEW rows \in [StakeIds -> Stake], NEW m \in Markets, NEW side \in Sides,
           NEW pool \in [Sides -> Nat], \A s \in Sides : pool[s] = TotalOf(rows, m, s)
    PROVE  /\ AllStaked(rows, On(rows, m, {side})) = pool[side]
           /\ pool[side] = 0 <=> On(rows, m, {side}) = {}
           /\ pool["YES"] + pool["NO"] \in Nat /\ After(rows, m) \in Nat
           /\ After(rows, m) = (pool["YES"] + pool["NO"]) - Takeout(m, pool["YES"] + pool["NO"])
<1>1. AllStaked(rows, On(rows, m, {side})) = pool[side]
  BY SidesTogether
<1>2. pool[side] = 0 <=> On(rows, m, {side}) = {}
  BY <1>1, NoPrize
<1>3. PICK total \in Nat : total = pool["YES"] + pool["NO"]
  BY DEF Sides
<1>4. AllStaked(rows, On(rows, m, Sides)) = total
  BY <1>3, SidesTogether DEF Sides
<1>5. Takeout(m, total) \in Nat /\ Takeout(m, total) <= total
  BY TakeoutOfPool
<1>6. After(rows, m) = total - Takeout(m, total)
  BY <1>4 DEF After
<1>7. After(rows, m) \in Nat
  <2>1. PICK taken \in Nat : taken = Takeout(m, total) /\ taken <= total
    BY <1>5
  <2>. QED
    BY <1>6, <2>1
<1>. QED
  BY <1>1, <1>2, <1>3, <1>6, <1>7

\* A stake of a settled pool is visited: it gets its share, or itself when nobody has won.
LEMMA ShareOfPool ==
    ASSUME NEW ledger \in [Line -> Nat], NEW ledger2, NEW market, NEW rows \in [StakeIds -> Stake],
           NEW m \in Markets, NEW left, NEW u \in Users, NEW k \in left,
           Square(ledger, market, rows, m, left, u), Mechanism(m) = "parimutuel",
           market.status = "settled", NEW side \in Sides, side = market.outcome,
           NEW pool \in [Sides -> Nat], \A s \in Sides : pool[s] = TotalOf(rows, m, s),
           NEW type, NEW amount,
           \/ /\ pool[side] = 0 /\ k \in On(rows, m, Sides)
              /\ type = "PARIMUTUEL_REFUND" /\ amount = rows[k].amount
           \/ /\ pool[side] # 0 /\ k \in On(rows, m, {side})
              /\ type = "SETTLEMENT_WIN" /\ amount \in PoolShares(m, pool, side, rows[k].amount),
           Gains(ledger, ledger2, m, type, IF rows[k].user = u THEN amount ELSE 0)
    PROVE  Square(ledger2, market, rows, m, left \ {k}, u)
<1>1. PICK all \in SUBSET StakeIds, won \in SUBSET StakeIds :
          all = On(rows, m, Sides) /\ won = On(rows, m, {side})
  BY DEF On
<1>2. /\ AllStaked(rows, won) = pool[side] /\ (pool[side] = 0 <=> won = {})
      /\ pool["YES"] + pool["NO"] \in Nat /\ After(rows, m) \in Nat
      /\ After(rows, m) = (pool["YES"] + pool["NO"]) - Takeout(m, pool["YES"] + pool["NO"])
  BY <1>1, PoolOfStakes
<1>3. k \in StakeIds /\ rows[k].amount \in Nat
  BY <1>1 DEF On, Stake
<1>4. /\ Staked(rows, won \ left, u) \in Nat /\ Counted(rows, won \ left, u) \in Nat
      /\ Staked(rows, all \ left, u) \in Nat
  BY StakesAddUp
<1>5. Divided(ledger, rows, m, side, left, u)
  BY DEF Square
<1>6. CASE pool[side] = 0
  <2>1. PICK gain \in Int : gain = IF rows[k].user = u THEN rows[k].amount ELSE 0
    BY <1>3
  <2>2. Gains(ledger, ledger2, m, "PARIMUTUEL_REFUND", gain)
    BY <1>6, <2>1
  <2>3. /\ ledger2[Entry("PARIMUTUEL_STAKE", m)] = ledger[Entry("PARIMUTUEL_STAKE", m)]
        /\ ledger2[Entry("LMSR_TRADE_STAKE", m)] = ledger[Entry("LMSR_TRADE_STAKE", m)]
        /\ ledger2[Entry("PARIMUTUEL_REFUND", m)] = ledger[Entry("PARIMUTUEL_REFUND", m)] + gain
    BY <2>2, FiveLines DEF MarketTypes
  <2>4. Staked(rows, all \ (left \ {k}), u) = Staked(rows, all \ left, u) + gain
    <3>1. k \in all
      BY <1>1, <1>6
    <3>2. CASE rows[k].user = u
      <4>1. Staked(rows, all \ (left \ {k}), u) = Staked(rows, all \ left, u) + rows[k].amount
        BY <3>1, <3>2, OneVisited
      <4>. QED
        BY <2>1, <3>2, <4>1
    <3>3. CASE rows[k].user # u
      <4>1. Staked(rows, all \ (left \ {k}), u) = Staked(rows, all \ left, u)
        BY <3>1, <3>3, OneVisited
      <4>. QED
        BY <1>4, <2>1, <3>3, <4>1
    <3>. QED
      BY <3>2, <3>3
  <2>5. Divided(ledger2, rows, m, side, left \ {k}, u)
    BY <1>1, <1>2, <1>5, <1>6, <2>3, <2>4 DEF Divided
  <2>. QED
    BY <2>3, <2>5 DEF Square, Live
<1>7. CASE pool[side] # 0
  <2>1. k \in won /\ amount \in PoolShares(m, pool, side, rows[k].amount)
    BY <1>1, <1>7
  <2>2. PICK prize \in Nat, after \in Nat, staked \in Nat, count \in Nat, stake \in Nat :
            /\ prize = pool[side] /\ after = After(rows, m)
            /\ staked = Staked(rows, won \ left, u) /\ count = Counted(rows, won \ left, u)
            /\ stake = rows[k].amount
    BY <1>2, <1>3, <1>4
  <2>3. /\ amount \in Nat /\ prize * amount <= stake * after
        /\ stake * after <= prize * (amount + 1)
    BY <1>2, <1>7, <2>1, <2>2, ShareBounds
  <2>4. PICK gain \in Nat : gain = IF rows[k].user = u THEN amount ELSE 0
    BY <2>3
  <2>5. Gains(ledger, ledger2, m, "SETTLEMENT_WIN", gain)
    BY <1>7, <2>4
  <2>6. /\ ledger2[Entry("PARIMUTUEL_STAKE", m)] = ledger[Entry("PARIMUTUEL_STAKE", m)]
        /\ ledger2[Entry("LMSR_TRADE_STAKE", m)] = ledger[Entry("LMSR_TRADE_STAKE", m)]
        /\ ledger2[Entry("SETTLEMENT_WIN", m)] = ledger[Entry("SETTLEMENT_WIN", m)] + gain
        /\ ledger[Entry("SETTLEMENT_WIN", m)] \in Nat
    BY <2>5, FiveLines DEF MarketTypes
  <2>7. PICK win \in Nat : win = ledger[Entry("SETTLEMENT_WIN", m)]
    BY <2>6
  <2>8. prize * win <= after * staked /\ after * staked <= prize * (win + count)
    BY <1>1, <1>2, <1>5, <1>7, <2>2, <2>7 DEF Divided
  <2>9. /\ rows[k].user = u => /\ Staked(rows, won \ (left \ {k}), u) = staked + stake
                               /\ Counted(rows, won \ (left \ {k}), u) = count + 1
        /\ rows[k].user # u => /\ Staked(rows, won \ (left \ {k}), u) = staked
                               /\ Counted(rows, won \ (left \ {k}), u) = count
    <3>1. CASE rows[k].user = u
      <4>1. Staked(rows, won \ (left \ {k}), u) = Staked(rows, won \ left, u) + rows[k].amount
        BY <2>1, <3>1, OneVisited
      <4>2. Counted(rows, won \ (left \ {k}), u) = Counted(rows, won \ left, u) + 1
        BY <1>4, <2>1, <3>1, <4>1, OneVisited, SMTT(30)
      <4>. QED
        BY <2>2, <3>1, <4>1, <4>2
    <3>2. CASE rows[k].user # u
      <4>1. /\ Staked(rows, won \ (left \ {k}), u) = Staked(rows, won \ left, u)
            /\ Counted(rows, won \ (left \ {k}), u) = Counted(rows, won \ left, u)
        BY <2>1, <3>2, OneVisited
      <4>. QED
        BY <2>2, <3>2, <4>1
    <3>. QED
      BY <3>1, <3>2
  <2>10. /\ prize * (win + amount) <= after * (staked + stake)
         /\ after * (staked + stake) <= prize * ((win + amount) + (count + 1))
    <3>1. PICK x \in Nat, y \in Nat : x = prize /\ y = after
      OBVIOUS
    <3>2. /\ x * win <= y * staked /\ y * staked <= x * (win + count)
          /\ x * amount <= stake * y /\ stake * y <= x * (amount + 1)
      BY <2>3, <2>8, <3>1
    <3>3. /\ x * (win + amount) <= y * (staked + stake)
          /\ y * (staked + stake) <= x * ((win + amount) + (count + 1))
      BY <2>3, <3>2, SharesTogether
    <3>. QED
      BY <3>1, <3>3
  <2>11. Divided(ledger2, rows, m, side, left \ {k}, u)
    <3>1. CASE rows[k].user = u
      <4>1. /\ ledger2[Entry("SETTLEMENT_WIN", m)] = win + amount
            /\ Staked(rows, won \ (left \ {k}), u) = staked + stake
            /\ Counted(rows, won \ (left \ {k}), u) = count + 1
        BY <2>4, <2>6, <2>7, <2>9, <3>1
      <4>. QED
        BY <1>1, <1>2, <1>7, <2>2, <2>10, <4>1 DEF Divided
    <3>2. CASE rows[k].user # u
      <4>1. /\ ledger2[Entry("SETTLEMENT_WIN", m)] = win
            /\ Staked(rows, won \ (left \ {k}), u) = staked
            /\ Counted(rows, won \ (left \ {k}), u) = count
        BY <2>4, <2>6, <2>7, <2>9, <3>2
      <4>. QED
        BY <1>1, <1>2, <1>7, <2>2, <2>8, <4>1 DEF Divided
    <3>. QED
      BY <3>1, <3>2
  <2>. QED
    BY <2>6, <2>11 DEF Square, Live
<1>. QED
  BY <1>6, <1>7

\* A stake is banked, or a trade is made, in a market that is not over.
LEMMA StakeSquare ==
    ASSUME NEW ledger \in [Line -> Nat], NEW ledger2, NEW market, NEW rows \in [StakeIds -> Stake],
           NEW m \in Markets, NEW left, NEW u \in Users, Square(ledger, market, rows, m, left, u),
           Mechanism(m) = "parimutuel", market.status \in Live,
           NEW i \in StakeIds, rows[i].amount = 0, NEW rows2 \in [StakeIds -> Stake],
           \A j \in StakeIds \ {i} : rows2[j] = rows[j],
           rows2[i].amount > 0, rows2[i].market = m,
           Gains(ledger, ledger2, m, "PARIMUTUEL_STAKE",
                 IF rows2[i].user = u THEN rows2[i].amount ELSE 0)
    PROVE  Square(ledger2, market, rows2, m, left, u)
<1>1. PICK gain \in Int : gain = IF rows2[i].user = u THEN rows2[i].amount ELSE 0
  BY DEF Stake
<1>2. Gains(ledger, ledger2, m, "PARIMUTUEL_STAKE", gain)
  BY <1>1
<1>3. /\ ledger2[Entry("PARIMUTUEL_STAKE", m)] = ledger[Entry("PARIMUTUEL_STAKE", m)] + gain
      /\ ledger2[Entry("LMSR_TRADE_STAKE", m)] = ledger[Entry("LMSR_TRADE_STAKE", m)]
      /\ ledger2[Entry("SETTLEMENT_WIN", m)] = ledger[Entry("SETTLEMENT_WIN", m)]
      /\ ledger2[Entry("PARIMUTUEL_REFUND", m)] = ledger[Entry("PARIMUTUEL_REFUND", m)]
      /\ ledger2[Entry("MARKET_CANCEL_REFUND", m)] = ledger[Entry("MARKET_CANCEL_REFUND", m)]
  <2>1. \A t \in MarketTypes : ledger[Entry(t, m)] \in Nat
    BY <1>2, FiveLines
  <2>. QED
    BY <1>2, <2>1, FiveLines DEF MarketTypes
<1>4. Staked(rows2, On(rows2, m, Sides), u) = Staked(rows, On(rows, m, Sides), u) + gain
  <2>1. CASE rows2[i].user = u
    <3>1. Staked(rows2, On(rows2, m, Sides), u)
            = Staked(rows, On(rows, m, Sides), u) + rows2[i].amount
      BY <2>1, OneBanked
    <3>. QED
      BY <1>1, <2>1, <3>1
  <2>2. CASE rows2[i].user # u
    <3>1. Staked(rows2, On(rows2, m, Sides), u) = Staked(rows, On(rows, m, Sides), u)
      BY <2>2, OneBanked
    <3>2. Staked(rows, On(rows, m, Sides), u) \in Nat
      BY StakesAddUp DEF On
    <3>. QED
      BY <1>1, <2>2, <3>1, <3>2
  <2>. QED
    BY <2>1, <2>2
<1>. QED
  BY <1>3, <1>4 DEF Square, Live

LEMMA TradeSquare ==
    ASSUME NEW ledger \in [Line -> Nat], NEW ledger2, NEW market, NEW market2,
           NEW rows \in [StakeIds -> Stake], NEW m \in Markets, NEW left, NEW u \in Users,
           Square(ledger, market, rows, m, left, u), Mechanism(m) = "lmsr",
           market.status \in Live, market2.status = market.status, NEW cost \in Int,
           market2.costs[u] = market.costs[u] + cost,
           Gains(ledger, ledger2, m, "LMSR_TRADE_STAKE", cost)
    PROVE  Square(ledger2, market2, rows, m, left, u)
<1>1. /\ ledger2[Entry("PARIMUTUEL_STAKE", m)] = ledger[Entry("PARIMUTUEL_STAKE", m)]
      /\ ledger2[Entry("LMSR_TRADE_STAKE", m)] = ledger[Entry("LMSR_TRADE_STAKE", m)] + cost
      /\ ledger2[Entry("SETTLEMENT_WIN", m)] = ledger[Entry("SETTLEMENT_WIN", m)]
      /\ ledger2[Entry("PARIMUTUEL_REFUND", m)] = ledger[Entry("PARIMUTUEL_REFUND", m)]
      /\ ledger2[Entry("MARKET_CANCEL_REFUND", m)] = ledger[Entry("MARKET_CANCEL_REFUND", m)]
  <2>1. \A t \in MarketTypes : ledger[Entry(t, m)] \in Nat
    BY FiveLines
  <2>. QED
    BY <2>1, FiveLines DEF MarketTypes
<1>. QED
  BY <1>1 DEF Square, Live

\* A market begins to end: nobody has had anything yet, and those who get something are
\* all still to come.
LEMMA EndsSquare ==
    ASSUME NEW ledger \in [Line -> Nat], NEW market \in Market, NEW market2,
           NEW rows \in [StakeIds -> Stake], NEW m \in Markets, NEW old, NEW left,
           NEW u \in Users, Square(ledger, market, rows, m, old, u), market.status \in Live,
           market2.costs = market.costs,
           \/ /\ Mechanism(m) = "lmsr" /\ market2.status = "settled"
              /\ market2.held = market.held /\ market2.outcome \in Sides
              /\ left = {v \in Users : market.held[v][market2.outcome] > 0}
           \/ /\ Mechanism(m) = "lmsr" /\ market2.status = "cancelled"
              /\ left = {v \in Users : market.costs[v] > 0}
           \/ /\ Mechanism(m) = "parimutuel" /\ market2.status = "cancelled"
              /\ left = On(rows, m, Sides)
           \/ /\ Mechanism(m) = "parimutuel" /\ market2.status = "settled"
              /\ \/ left = On(rows, m, {market2.outcome}) /\ left # {}
                 \/ left = On(rows, m, Sides) /\ On(rows, m, {market2.outcome}) = {}
    PROVE  Square(ledger, market2, rows, m, left, u)
<1>1. /\ ledger[Entry("PARIMUTUEL_STAKE", m)] = Staked(rows, On(rows, m, Sides), u)
      /\ ledger[Entry("LMSR_TRADE_STAKE", m)] = market2.costs[u]
      /\ Mechanism(m) # "parimutuel" => Staked(rows, On(rows, m, Sides), u) = 0
      /\ Mechanism(m) # "lmsr" => market2.costs[u] = 0
      /\ ledger[Entry("SETTLEMENT_WIN", m)] = 0 /\ ledger[Entry("PARIMUTUEL_REFUND", m)] = 0
      /\ ledger[Entry("MARKET_CANCEL_REFUND", m)] = 0
  BY DEF Square
<1>2. market.held[u] \in [Sides -> Nat] /\ market.costs[u] \in Nat
  BY DEF Market
<1>3. CASE /\ Mechanism(m) = "lmsr" /\ market2.status = "settled"
           /\ market2.held = market.held /\ market2.outcome \in Sides
           /\ left = {v \in Users : market.held[v][market2.outcome] > 0}
  <2>1. market2.held[u][market2.outcome] \in Nat
    BY <1>2, <1>3
  <2>2. u \notin left => market2.held[u][market2.outcome] = 0
    BY <1>3, <2>1
  <2>. QED
    BY <1>1, <1>3, <2>2 DEF Square, Live
<1>4. CASE /\ Mechanism(m) = "lmsr" /\ market2.status = "cancelled"
           /\ left = {v \in Users : market.costs[v] > 0}
  BY <1>1, <1>2, <1>4 DEF Square, Live
<1>5. CASE /\ Mechanism(m) = "parimutuel" /\ market2.status = "cancelled"
           /\ left = On(rows, m, Sides)
  <2>1. Staked(rows, On(rows, m, Sides) \ left, u) = 0
    BY <1>5, NoneVisited
  <2>. QED
    BY <1>1, <1>5, <2>1 DEF Square, Live
<1>6. CASE /\ Mechanism(m) = "parimutuel" /\ market2.status = "settled"
           /\ \/ left = On(rows, m, {market2.outcome}) /\ left # {}
              \/ left = On(rows, m, Sides) /\ On(rows, m, {market2.outcome}) = {}
  <2>1. CASE left = On(rows, m, {market2.outcome}) /\ left # {}
    <3>1. Staked(rows, left \ left, u) = 0 /\ Counted(rows, left \ left, u) = 0
      BY NoneVisited
    <3>2. AllStaked(rows, left) \in Nat /\ AllStaked(rows, On(rows, m, Sides)) \in Nat
      BY <2>1, StakesAddUp DEF On
    <3>3. After(rows, m) \in Nat
      <4>1. PICK total \in Nat : total = AllStaked(rows, On(rows, m, Sides))
        BY <3>2
      <4>2. PICK taken \in Nat : taken = Takeout(m, total) /\ taken <= total
        BY TakeoutOfPool
      <4>. QED
        BY <4>1, <4>2 DEF After
    <3>4. /\ AllStaked(rows, left) * 0 = 0 /\ After(rows, m) * 0 = 0
          /\ AllStaked(rows, left) * (0 + 0) = 0
      BY <3>2, <3>3
    <3>5. PICK win, staked, count :
              /\ win = ledger[Entry("SETTLEMENT_WIN", m)] /\ win = 0
              /\ staked = Staked(rows, left \ left, u) /\ staked = 0
              /\ count = Counted(rows, left \ left, u) /\ count = 0
      BY <1>1, <3>1
    <3>6. /\ AllStaked(rows, left) * win <= After(rows, m) * staked
          /\ After(rows, m) * staked <= AllStaked(rows, left) * (win + count)
      BY <3>4, <3>5
    <3>7. Divided(ledger, rows, m, market2.outcome, left, u)
      BY <2>1, <3>5, <3>6 DEF Divided
    <3>. QED
      BY <1>1, <1>6, <3>7 DEF Square, Live
  <2>2. CASE left = On(rows, m, Sides) /\ On(rows, m, {market2.outcome}) = {}
    <3>1. Staked(rows, left \ left, u) = 0
      BY NoneVisited
    <3>2. Divided(ledger, rows, m, market2.outcome, left, u)
      BY <1>1, <2>2, <3>1 DEF Divided
    <3>. QED
      BY <1>1, <1>6, <3>2 DEF Square, Live
  <2>. QED
    BY <1>6, <2>1, <2>2
<1>. QED
  BY <1>3, <1>4, <1>5, <1>6

\* As many ones as there are members.
LEMMA OnesCount ==
    ASSUME NEW set \in SUBSET StakeIds
    PROVE  SumFunctionOnSet(Ones, set) = Cardinality(set)
<1> DEFINE good == {T \in SUBSET set : SumFunctionOnSet(Ones, T) = Cardinality(T)}
<1>1. IsFiniteSet(set)
  BY StakeIdsFinite, FS_Subset
<1>2. ASSUME NEW T \in SUBSET set, \A R \in SUBSET T : R # T => R \in good
      PROVE  T \in good
  <2>1. IsFiniteSet(T)
    BY <1>1, FS_Subset
  <2>2. CASE T = {}
    BY <2>2, SumEmpty, FS_EmptySet
  <2>3. CASE T # {}
    <3>1. PICK i \in T : TRUE
      BY <2>3
    <3>2. T \ {i} \in good
      BY <1>2, <3>1
    <3>3. \A j \in T : Ones[j] \in Int /\ Ones[j] = 1
      BY DEF Ones
    <3>4. SumFunctionOnSet(Ones, T) = 1 + SumFunctionOnSet(Ones, T \ {i})
      BY <2>1, <3>1, <3>3, SumMember
    <3>5. Cardinality(T \ {i}) = Cardinality(T) - 1 /\ Cardinality(T) \in Nat
      BY <2>1, <3>1, FS_RemoveElement, FS_CardinalityType
    <3>. QED
      BY <3>2, <3>4, <3>5
  <2>. QED
    BY <2>2, <2>3
<1>3. good = {T \in SUBSET set : SumFunctionOnSet(Ones, T) = Cardinality(T)}
  OBVIOUS
<1> HIDE DEF good
<1>4. set \in good
  BY <1>1, <1>2, FiniteInduction
<1>. QED
  BY <1>3, <1>4

\* The customers' stakes are all the stakes.
LEMMA UsersTogether ==
    ASSUME NEW rows \in [StakeIds -> Stake], NEW set \in SUBSET StakeIds
    PROVE  /\ SumFunctionOnSet([u \in Users |-> Staked(rows, set, u)], Users) = AllStaked(rows, set)
           /\ SumFunctionOnSet([u \in Users |-> Counted(rows, set, u)], Users) = Cardinality(set)
<1>1. PICK key : key = [i \in StakeIds |-> rows[i].user]
  OBVIOUS
<1>2. IsFiniteSet(set) /\ IsFiniteSet(Users)
  BY StakeIdsFinite, FS_Subset, FiniteAssumption
<1>3. \A i \in set : /\ Amounts(rows)[i] \in Int /\ Ones[i] \in Int /\ key[i] \in Users
                     /\ key[i] = rows[i].user
  BY <1>1 DEF Amounts, Ones, Stake
<1>4. \A u \in Users : Mine(rows, set, u) = {i \in set : key[i] = u}
  BY <1>3 DEF Mine
<1>5. SumFunctionOnSet([u \in Users |-> SumFunctionOnSet(Amounts(rows), {i \in set : key[i] = u})],
                       Users) = SumFunctionOnSet(Amounts(rows), set)
  BY <1>2, <1>3, SumByKey
<1>6. SumFunctionOnSet([u \in Users |-> SumFunctionOnSet(Ones, {i \in set : key[i] = u})], Users)
        = SumFunctionOnSet(Ones, set)
  BY <1>2, <1>3, SumByKey
<1>7. /\ [u \in Users |-> Staked(rows, set, u)]
           = [u \in Users |-> SumFunctionOnSet(Amounts(rows), {i \in set : key[i] = u})]
      /\ [u \in Users |-> Counted(rows, set, u)]
           = [u \in Users |-> SumFunctionOnSet(Ones, {i \in set : key[i] = u})]
  BY <1>4 DEF Staked, Counted
<1>. QED
  BY <1>5, <1>6, <1>7, OnesCount DEF AllStaked

\* A sum of what is never more is not more.
LEMMA SumLess ==
    ASSUME NEW f, NEW g, NEW S, IsFiniteSet(S),
           \A x \in S : f[x] \in Int /\ g[x] \in Int /\ f[x] <= g[x]
    PROVE  SumFunctionOnSet(f, S) <= SumFunctionOnSet(g, S)
<1>1. PICK d : d = [x \in S |-> g[x] - f[x]]
  OBVIOUS
<1>2. \A x \in S : f[x] \in Int /\ d[x] \in Nat /\ g[x] = f[x] + d[x]
  BY <1>1
<1>3. SumFunctionOnSet(d, S) \in Nat
  BY <1>2, SumNat
<1>4. SumFunctionOnSet(f, S) \in Int
  BY SumInt
<1>5. SumFunctionOnSet(g, S) = SumFunctionOnSet(f, S) + SumFunctionOnSet(d, S)
  <2>1. \A x \in S : f[x] \in Int /\ d[x] \in Int /\ g[x] = f[x] + d[x]
    BY <1>2
  <2>. QED
    BY <2>1, SumPlus
<1>. QED
  BY <1>3, <1>4, <1>5

LEMMA Cancels ==
    ASSUME NEW p \in Nat \ {0}, NEW a \in Nat, NEW b \in Nat, p * a <= p * b
    PROVE  a <= b
<1> SUFFICES ASSUME b + 1 <= a
             PROVE  FALSE
  OBVIOUS
<1>1. PICK d \in Nat : a = b + 1 + d
  <2>1. a - (b + 1) \in Nat /\ a = b + 1 + (a - (b + 1))
    OBVIOUS
  <2>. QED
    BY <2>1
<1>2. p * a = p * b + p + p * d
  BY <1>1, SMTT(30)
<1>3. p * d \in Nat /\ p * b \in Nat
  BY Product
<1>. QED
  BY <1>2, <1>3

\* All the shares of a settled pool.
LEMMA PoolDivided ==
    ASSUME NEW rows \in [StakeIds -> Stake], NEW m \in Markets, NEW side,
           NEW ledgers \in [Users -> [Line -> Nat]],
           \A u \in Users : Divided(ledgers[u], rows, m, side, {}, u),
           NEW won \in SUBSET StakeIds, won = On(rows, m, {side}), won # {},
           NEW paid, paid = SumFunctionOnSet(
                                [u \in Users |-> ledgers[u][Entry("SETTLEMENT_WIN", m)]], Users)
    PROVE  /\ paid \in Nat /\ paid <= After(rows, m)
           /\ After(rows, m) <= paid + Cardinality(won)
           /\ \A u \in Users : (\A i \in won : rows[i].user # u) =>
                  ledgers[u][Entry("SETTLEMENT_WIN", m)] = 0
<1>1. IsFiniteSet(Users) /\ IsFiniteSet(won)
  BY StakeIdsFinite, FS_Subset, FiniteAssumption
<1>2. PICK prize \in Nat \ {0} : prize = AllStaked(rows, won)
  BY NoPrize, StakesAddUp
<1>3. PICK after \in Nat : after = After(rows, m)
  <2>1. PICK total \in Nat : total = AllStaked(rows, On(rows, m, Sides))
    BY StakesAddUp DEF On
  <2>2. PICK taken \in Nat : taken = Takeout(m, total) /\ taken <= total
    BY TakeoutOfPool
  <2>3. After(rows, m) = total - taken
    BY <2>1, <2>2 DEF After
  <2>. QED
    BY <2>2, <2>3
<1>4. Entry("SETTLEMENT_WIN", m) \in Line
  BY DEF Entry, Line, MarketLine
<1>5. PICK win, staked, count :
          /\ win = [u \in Users |-> ledgers[u][Entry("SETTLEMENT_WIN", m)]]
          /\ staked = [u \in Users |-> Staked(rows, won, u)]
          /\ count = [u \in Users |-> Counted(rows, won, u)]
  OBVIOUS
<1>6. \A u \in Users : win[u] \in Nat /\ staked[u] \in Nat /\ count[u] \in Nat
  BY <1>4, <1>5, StakesAddUp
<1>7. ASSUME NEW u \in Users
      PROVE  /\ prize * win[u] <= after * staked[u]
             /\ after * staked[u] <= prize * (win[u] + count[u])
  <2>1. won \ {} = won
    OBVIOUS
  <2>. QED
    BY <1>2, <1>3, <1>5, <2>1 DEF Divided
<1>8. PICK wins \in Nat, counts \in Nat :
          /\ wins = SumFunctionOnSet(win, Users)
          /\ counts = SumFunctionOnSet(count, Users)
  BY <1>1, <1>6, SumNat
<1>9. SumFunctionOnSet(staked, Users) = prize /\ counts = Cardinality(won)
  BY <1>2, <1>5, <1>8, UsersTogether
<1>10. PICK all : all = [u \in Users |-> win[u] + count[u]]
  OBVIOUS
<1>11. SumFunctionOnSet(all, Users) = wins + counts
  <2>1. \A u \in Users : win[u] \in Int /\ count[u] \in Int /\ all[u] = win[u] + count[u]
    BY <1>6, <1>10
  <2>. QED
    BY <1>1, <1>8, <2>1, SumPlus
<1>12. PICK low, fair, high :
           /\ low = [u \in Users |-> prize * win[u]]
           /\ fair = [u \in Users |-> after * staked[u]]
           /\ high = [u \in Users |-> prize * all[u]]
  OBVIOUS
<1>13. \A u \in Users : /\ low[u] \in Int /\ fair[u] \in Int /\ high[u] \in Int
                        /\ low[u] <= fair[u] /\ fair[u] <= high[u]
  <2> SUFFICES ASSUME NEW u \in Users
               PROVE  /\ low[u] \in Int /\ fair[u] \in Int /\ high[u] \in Int
                      /\ low[u] <= fair[u] /\ fair[u] <= high[u]
    OBVIOUS
  <2>1. /\ low[u] = prize * win[u] /\ fair[u] = after * staked[u]
        /\ high[u] = prize * (win[u] + count[u])
    BY <1>10, <1>12
  <2>2. /\ prize * win[u] \in Nat /\ after * staked[u] \in Nat
        /\ prize * (win[u] + count[u]) \in Nat
    BY <1>6, Product
  <2>. QED
    BY <1>7, <2>1, <2>2
<1>14. /\ SumFunctionOnSet(low, Users) <= SumFunctionOnSet(fair, Users)
       /\ SumFunctionOnSet(fair, Users) <= SumFunctionOnSet(high, Users)
  BY <1>1, <1>13, SumLess
<1>15. /\ SumFunctionOnSet(low, Users) = prize * wins
       /\ SumFunctionOnSet(fair, Users) = after * prize
       /\ SumFunctionOnSet(high, Users) = prize * (wins + counts)
  <2>1. \A u \in Users : /\ win[u] \in Int /\ staked[u] \in Int /\ all[u] \in Int
    BY <1>6, <1>10
  <2>2. SumFunctionOnSet([u \in Users |-> prize * win[u]], Users)
          = prize * SumFunctionOnSet(win, Users)
    BY <1>1, <2>1, SumScaled
  <2>3. SumFunctionOnSet([u \in Users |-> after * staked[u]], Users)
          = after * SumFunctionOnSet(staked, Users)
    BY <1>1, <2>1, SumScaled
  <2>4. SumFunctionOnSet([u \in Users |-> prize * all[u]], Users)
          = prize * SumFunctionOnSet(all, Users)
    BY <1>1, <2>1, SumScaled
  <2>. QED
    BY <1>8, <1>9, <1>11, <1>12, <2>2, <2>3, <2>4
<1>16. prize * wins <= prize * after /\ prize * after <= prize * (wins + counts)
  BY <1>14, <1>15
<1>17. wins <= after /\ after <= wins + counts
  <2>1. wins <= after
    BY <1>16, Cancels
  <2>2. PICK most \in Nat : most = wins + counts
    OBVIOUS
  <2>3. after <= most
    BY <1>16, <2>2, Cancels
  <2>. QED
    BY <2>1, <2>2, <2>3
<1>18. ASSUME NEW u \in Users, \A i \in won : rows[i].user # u
       PROVE  win[u] = 0
  <2>1. Mine(rows, won, u) = {}
    BY <1>18 DEF Mine
  <2>2. staked[u] = 0
    BY <1>5, <2>1, SumEmpty DEF Staked
  <2>3. PICK x \in Nat : x = win[u]
    BY <1>6
  <2>4. prize * x <= 0
    BY <1>7, <2>2, <2>3
  <2>5. prize * x <= prize * 0
    BY <2>4
  <2>6. x <= 0
    BY <2>5, Cancels
  <2>. QED
    BY <2>3, <2>6
<1>. QED
  BY <1>3, <1>5, <1>8, <1>9, <1>17, <1>18

(***************************************************************************)
(* What one worker sees of it, statement by statement.                     *)
(***************************************************************************)

RowsNow == [i \in StakeIds |-> stakes[i].now]
RowsSeen(w) == [i \in StakeIds |-> Seen(stakes[i], w)]

\* All that a market row says but for its pool.
Standing(market) ==
    <<market.status, market.outcome, market.shares, market.held, market.costs>>

\* Is w in the loop that ends market m?  In a parimutuel market's the row will only be
\* marked when all shares are paid.
Ending(w, m) ==
    pc[w] \in {"share", "credit"} /\ req[w].market = m /\ Mechanism(m) # "fixed_odds"

Dividing(w, m) == Ending(w, m) /\ pc[w] = "share" /\ IsPool(m)

ToCome(w, m) == IF Ending(w, m) THEN tx[w].batch ELSE {}

MarketFor(w, m) ==
    IF Dividing(w, m)
    THEN [Seen(markets[m], w) EXCEPT !.status = "settled", !.outcome = req[w].outcome]
    ELSE Seen(markets[m], w)

\* The committed rows are square, and so is what w sees.
SquareNow ==
    \A m \in Markets : \A u \in Users :
        Square(wallets[u].now.ledger, markets[m].now, RowsNow, m, {}, u)

SquareFor(w) ==
    \A m \in Markets : \A u \in Users :
        Square(Seen(wallets[u], w).ledger, MarketFor(w, m), RowsSeen(w), m, ToCome(w, m), u)

\* What w has found out is still so.
PoolKnown(w) == \A s \in Sides : tx[w].pool[s] = TotalOf(RowsNow, req[w].market, s)

Sharing(w) ==
    LET m == req[w].market
        row == markets[m]
    IN  IF Mechanism(m) = "lmsr"
        THEN row.by = w /\ row.new.status = "settled" /\ row.new.outcome = req[w].outcome
        ELSE /\ row.by # w /\ row.now.status \in Live /\ PoolKnown(w)
             /\ tx[w].batch \subseteq
                    On(RowsNow, m, IF tx[w].pool[req[w].outcome] = 0 THEN Sides
                                   ELSE {req[w].outcome})

Crediting(w) ==
    LET m == req[w].market
        row == markets[m]
    IN  Mechanism(m) # "fixed_odds" =>
            /\ row.by = w /\ row.new.status = "cancelled" /\ row.new.costs = row.now.costs
            /\ Mechanism(m) = "parimutuel" => tx[w].batch \subseteq On(RowsNow, m, Sides)

Timely(w) ==
    LET m == req[w].market
    IN  /\ req[w].op \in {"stake", "trade"} => Seen(markets[m], w).status \in Live
        /\ req[w].op = "trade" => Mechanism(m) = "lmsr"
        /\ pc[w] \in {"decide", "divide"} => markets[m].now.status \in Live
        /\ pc[w] = "divide" => PoolKnown(w)
        /\ pc[w] = "share" => Sharing(w)
        /\ pc[w] = "credit" => Crediting(w)
        /\ pc[w] = "unbet" => Mechanism(m) = "fixed_odds"

\* Who is not at a statement that may hold a market's row sees what is committed.
LEMMA MarketSeen ==
    ASSUME MarketsHeld, NEW w \in Workers, pc[w] \notin MarketAt, NEW m \in Markets
    PROVE  Seen(markets[m], w) = markets[m].now /\ markets[m].by # w
  BY DEF MarketsHeld, MarketsOK, Seen

LEMMA MarketWritten ==
    ASSUME NEW w \in Workers, NEW k \in Markets, markets \in [Markets -> RowOf(Market)],
           NEW value, markets' = [markets EXCEPT ![k] = Written(@, w, value)]
    PROVE  /\ Seen(markets[k], w)' = value /\ markets'[k].by = w /\ markets'[k].new = value
           /\ \A m \in Markets : markets'[m].now = markets[m].now
           /\ \A m \in Markets \ {k} : markets'[m] = markets[m]
<1>1. markets[k] \in RowOf(Market) /\ markets'[k] = Written(markets[k], w, value)
  OBVIOUS
<1>2. /\ markets'[k].by = w /\ markets'[k].new = value /\ markets'[k].now = markets[k].now
  BY <1>1 DEF Written, RowOf
<1>3. \A m \in Markets \ {k} : markets'[m] = markets[m]
  OBVIOUS
<1>. QED
  BY <1>2, <1>3 DEF Seen

\* Most statements leave a market as it stands.
LEMMA TermsStay ==
    ASSUME NEW w \in Workers, MarketsHeld, WorkerStep(w), ~Rollback(w), ~PayTrade(w),
           ~Decide(w), ~FinishSettle(w), ~LockToCancel(w), ~WritePatch(w), NEW m \in Markets
    PROVE  Standing(Seen(markets[m], w))' = Standing(Seen(markets[m], w))
<1>0. HouseHeld
  BY DEF MarketsHeld
<1>1. markets \in [Markets -> RowOf(Market)] /\ w # Nobody
  BY <1>0, Holding, Typed, NobodyAssumption DEF TablesTypedNow
<1>2. ASSUME markets' = markets
      PROVE  Standing(Seen(markets[m], w))' = Standing(Seen(markets[m], w))
  BY <1>2 DEF Standing, Seen
<1>3. CASE \/ StartPlace(w) \/ StartExecute(w) \/ StartQuote(w) \/ StartLeave(w)
           \/ StartStake(w) \/ StartTrade(w) \/ StartSettle(w) \/ StartAnnul(w)
           \/ Patch(w) \/ StartReview(w)
  BY <1>0, <1>2, <1>3, NewcomersHoldNothing
<1>4. CASE \/ Claim(w) \/ Look(w) \/ Assess(w) \/ DebitStake(w) \/ InsertBet(w) \/ Register(w)
           \/ LockBet(w) \/ RefundStake(w) \/ CashOut(w) \/ BankStake(w)
           \/ Approve(w) \/ GrantFunds(w) \/ Reject(w)
           \/ Result(w) \/ PayWinner(w) \/ Divide(w) \/ PayShare(w)
           \/ CreditBet(w) \/ VoidBet(w) \/ CreditPool(w) \/ FinishCancel(w)
  <2>1. markets' = markets
    BY <1>4 DEF Claim, Look, Assess, DebitStake, InsertBet, Register, LockBet, RefundStake,
       CashOut, BankStake, Approve, GrantFunds, Reject, Result, PayWinner, Divide, PayShare,
       CreditBet, VoidBet, CreditPool, FinishCancel, tables
  <2>. QED
    BY <1>2, <2>1
<1>5. CASE TouchMarket(w) \/ Price(w)
  <2>1. PICK k : /\ markets' = [markets EXCEPT ![k] = Locked(@, w)] /\ pc[w] \notin MarketAt
                 /\ Free(markets[k], w)
    BY <1>5, Zenon DEF TouchMarket, Price, FreeForUpdate, MarketAt
  <2>2. CASE m = k
    <3>1. markets[m].by = Nobody /\ Seen(markets[m], w) = markets[m].now
      BY <2>1, <2>2, MarketSeen DEF Free
    <3>2. markets[m].new = markets[m].now
      BY <3>1 DEF MarketsHeld, Clean
    <3>3. markets'[m].by = w /\ markets'[m].new = markets[m].new
      BY <1>1, <2>1, <2>2 DEF Locked, RowOf
    <3>. QED
      BY <3>1, <3>2, <3>3 DEF Seen, Standing
  <2>3. CASE m # k
    <3>1. markets'[m] = markets[m]
      BY <1>1, <2>1, <2>3
    <3>. QED
      BY <3>1 DEF Seen, Standing
  <2>. QED
    BY <2>2, <2>3
<1>6. CASE AddToPool(w)
  <2>1. pc[w] = "pool" /\ req[w].market \in Markets
    BY <1>0, <1>6, PoolAdded
  <2>2. PICK k \in Markets : k = req[w].market
    BY <2>1
  <2>3. PICK old \in Market : old = markets[k].now
    BY <1>1 DEF RowOf
  <2>4. PICK value : value = [old EXCEPT !.pool[req[w].side] = @ + req[w].amount]
    OBVIOUS
  <2>5. Standing(value) = Standing(old)
    BY <2>4 DEF Market, Standing
  <2>6. markets' = [markets EXCEPT ![k] = Written(@, w, value)]
    BY <1>6, <2>2, <2>3, <2>4, Zenon DEF AddToPool
  <2>7. Seen(markets[k], w) = old
    BY <2>1, <2>3, MarketSeen DEF MarketAt
  <2>8. /\ Seen(markets[k], w)' = value
        /\ \A j \in Markets \ {k} : markets'[j] = markets[j]
    BY <1>1, <2>6, MarketWritten
  <2>9. CASE m = k
    <3>1. Standing(Seen(markets[m], w))' = Standing(value)
      BY <2>8, <2>9 DEF Standing
    <3>. QED
      BY <2>5, <2>7, <2>9, <3>1
  <2>10. CASE m # k
    <3>1. markets'[m] = markets[m]
      BY <2>8, <2>10
    <3>. QED
      BY <3>1 DEF Seen, Standing
  <2>. QED
    BY <2>9, <2>10
<1>. QED
  BY <1>3, <1>4, <1>5, <1>6 DEF WorkerStep, FixedOddsStep, PoolStep, FinalStep

\* Only four statements write the lines that are about a market as a whole.
LEMMA MarketLinesKept ==
    ASSUME NEW w \in Workers, HouseHeld, WorkerStep(w), ~Rollback(w), ~BankStake(w),
           ~PayTrade(w), ~PayShare(w), ~CreditPool(w)
    PROVE  Keeps(w, MarketLine)
<1>1. /\ MarketLine \subseteq Line
      /\ \A b : /\ MarketLine \subseteq Line \ {Entry("BET_STAKE", b)}
                /\ MarketLine \subseteq Line \ {Entry("BET_VOID_REFUND", b)}
                /\ MarketLine \subseteq Line \ {Entry("BET_CASHOUT_PAYOUT", b),
                                                Entry("BET_CASHOUT_FEE", b)}
                /\ MarketLine \subseteq Line \ {Entry("BET_WIN_PAYOUT", b)}
                /\ MarketLine \subseteq Line \ {Entry("BET_CANCEL_REFUND", b)}
                /\ MarketLine \subseteq Line \ {Entry("FAUCET_GRANT", b)}
  BY DEF Line, MarketLine, Entry
<1>2. CASE FixedOddsStep(w)
  BY <1>1, <1>2, ArrivalsOwn, BetStatementsOwn, RegisterOwn, DebitStakeOwn, InsertBetOwn,
     RefundStakeOwn, CashOutOwn, WalletsKept, KeepsLess
     DEF FixedOddsStep
<1>3. CASE PoolStep(w)
  BY <1>1, <1>3, ArrivalsOwn, PoolStatementsOwn, WalletsKept, KeepsLess DEF PoolStep
<1>4. CASE FinalStep(w)
  BY <1>1, <1>4, ArrivalsOwn, SettlementOwn, BetRowsOwn, OfficeOwn, ReviewOwn, PayWinnerOwn,
     CreditBetOwn, GrantFundsOwn, WalletsKept, KeepsLess DEF FinalStep
<1> QED
  BY <1>2, <1>3, <1>4 DEF WorkerStep

LEMMA EndsStayCancelled ==
    ASSUME NEW mix, EndsStand(mix)
    PROVE  PoolsStayCancelled(mix)
  BY DEF EndsStand, PoolsStayCancelled

\* Only a stake's own worker sees one that is not committed.
LEMMA StakesSeen ==
    ASSUME NEW w \in Workers, StakeOK(w), req[w].op # "stake"
    PROVE  RowsSeen(w) = RowsNow /\ \A i \in StakeIds : stakes[i].by # w
<1>1. \A i \in StakeIds : stakes[i].by # w
  BY DEF StakeOK, Banked
<1>. QED
  BY <1>1 DEF RowsSeen, RowsNow, Seen

LEMMA RowsTyped ==
    ASSUME HouseHeld, NEW w \in Workers
    PROVE  /\ RowsSeen(w) \in [StakeIds -> Stake] /\ RowsNow \in [StakeIds -> Stake]
           /\ \A u \in Users : /\ Seen(wallets[u], w) \in Wallet /\ wallets[u].now \in Wallet
                               /\ Seen(wallets[u], w).ledger \in [Line -> Nat]
                               /\ wallets[u].now.ledger \in [Line -> Nat]
           /\ \A m \in Markets : Seen(markets[m], w) \in Market /\ markets[m].now \in Market
<1>1. TablesTypedNow
  BY Holding, Typed
<1>2. /\ \A i \in StakeIds : Seen(stakes[i], w) \in Stake /\ stakes[i].now \in Stake
      /\ \A u \in Users : Seen(wallets[u], w) \in Wallet /\ wallets[u].now \in Wallet
      /\ \A m \in Markets : Seen(markets[m], w) \in Market /\ markets[m].now \in Market
  BY <1>1, VersionsTyped DEF TablesTypedNow
<1>. QED
  BY <1>2 DEF RowsSeen, RowsNow, Wallet

LEMMA MarketEntries ==
    ASSUME NEW m \in Markets
    PROVE  \A t \in MarketTypes : Entry(t, m) \in MarketLine /\ Entry(t, m) \in Line
  BY DEF MarketTypes, Entry, MarketLine, Line

\* What w sees of market m and user u stays square when none of it changes.
LEMMA SquareStays ==
    ASSUME NEW w \in Workers, HouseHeld, HouseHeld', NEW m \in Markets, NEW u \in Users,
           Square(Seen(wallets[u], w).ledger, MarketFor(w, m), RowsSeen(w), m, ToCome(w, m), u),
           SameLines(Seen(wallets[u], w).ledger, Seen(wallets[u], w)'.ledger, m),
           SameOn(RowsSeen(w), RowsSeen(w)', m),
           Standing(MarketFor(w, m))' = Standing(MarketFor(w, m)),
           ToCome(w, m)' = ToCome(w, m)
    PROVE  Square(Seen(wallets[u], w)'.ledger, MarketFor(w, m)', RowsSeen(w)', m,
                  ToCome(w, m)', u)
<1>1. PICK rows \in [StakeIds -> Stake] : rows = RowsSeen(w)
  BY RowsTyped
<1>2. RowsSeen(w)' \in [StakeIds -> Stake]
  <2>1. TablesTypedNow'
    BY DEF HouseHeld, HouseTyped, TypeOK, TablesTypedNow
  <2>2. \A i \in StakeIds : Seen(stakes'[i], w) \in Stake
    BY <2>1, VersionsTyped DEF TablesTypedNow
  <2>. QED
    BY <2>2 DEF RowsSeen, Seen
<1>3. PICK rows2 \in [StakeIds -> Stake] : rows2 = RowsSeen(w)'
  BY <1>2
<1>4. PICK market, market2 : market = MarketFor(w, m) /\ market2 = MarketFor(w, m)'
  OBVIOUS
<1>5. PICK ledger, ledger2 : /\ ledger = Seen(wallets[u], w).ledger
                             /\ ledger2 = Seen(wallets[u], w)'.ledger
  OBVIOUS
<1>6. PICK left : left = ToCome(w, m) /\ left = ToCome(w, m)'
  OBVIOUS
<1>7. /\ market2.status = market.status /\ market2.outcome = market.outcome
      /\ market2.held = market.held /\ market2.costs = market.costs
  BY <1>4 DEF Standing
<1>8. /\ Square(ledger, market, rows, m, left, u) /\ SameLines(ledger, ledger2, m)
      /\ SameOn(rows, rows2, m)
  BY <1>1, <1>3, <1>4, <1>5, <1>6
<1>9. Square(ledger2, market2, rows2, m, left, u)
  BY <1>7, <1>8, StillSquare
<1>. QED
  BY <1>3, <1>4, <1>5, <1>6, <1>9

LEMMA KeptLines ==
    ASSUME NEW w, Keeps(w, MarketLine), NEW m \in Markets, NEW u \in Users
    PROVE  SameLines(Seen(wallets[u], w).ledger, Seen(wallets[u], w)'.ledger, m)
  BY MarketEntries DEF Keeps, SameLines

LEMMA SameStakes ==
    ASSUME NEW w, stakes' = stakes, NEW m
    PROVE  /\ RowsSeen(w)' = RowsSeen(w) /\ RowsNow' = RowsNow
           /\ SameOn(RowsSeen(w), RowsSeen(w)', m)
<1>1. RowsSeen(w)' = RowsSeen(w) /\ RowsNow' = RowsNow
  BY DEF RowsSeen, RowsNow, Seen
<1>. QED
  BY <1>1 DEF SameOn

\* The statements that neither move a market's money nor begin or end its loop.
QuietStep(w) ==
    /\ WorkerStep(w) /\ ~Rollback(w)
    /\ ~BankStake(w) /\ ~PayTrade(w) /\ ~WritePatch(w) /\ ~Decide(w) /\ ~Divide(w)
    /\ ~PayShare(w) /\ ~FinishSettle(w) /\ ~LockToCancel(w) /\ ~CreditPool(w)

\* They are not in a loop, or at its end.
OutsideLoop(w) ==
    \A m \in Markets : ToCome(w, m)' = ToCome(w, m) /\ ~Dividing(w, m) /\ ~Dividing(w, m)'

LEMMA NotInLoop ==
    ASSUME NEW w,
           pc[w] \notin {"share", "credit"} \/ Mechanism(req[w].market) = "fixed_odds",
           pc'[w] \notin {"share", "credit"} \/ Mechanism(req'[w].market) = "fixed_odds"
    PROVE  OutsideLoop(w)
  BY DEF OutsideLoop, ToCome, Dividing, Ending, Mechanism

LEMMA StepPlaces ==
    ASSUME NEW w \in Workers, HouseHeld, QuietStep(w)
    PROVE  \/ /\ pc[w] \notin {"share", "credit", "unbet", "decide", "divide"}
              /\ pc'[w] \notin {"share", "credit", "unbet", "decide", "divide"}
              /\ \/ req' = req \/ req'[w] = NoRequest
                 \/ pc[w] = "idle" /\ req'[w].op \notin {"stake", "trade"}
           \/ (StartSettle(w) \/ StartStake(w) \/ StartTrade(w)) /\ pc[w] = "idle"
           \/ VoidBet(w) \/ CreditBet(w) \/ FinishCancel(w)
<1>1. pc \in [Workers -> Statement] /\ req \in [Workers -> Request \cup {NoRequest}]
  BY Holding, Typed
<1>2. CASE \/ StartPlace(w) \/ StartExecute(w) \/ StartQuote(w) \/ StartLeave(w)
           \/ StartAnnul(w) \/ Patch(w) \/ StartReview(w)
  BY <1>1, <1>2 DEF StartPlace, StartExecute, StartQuote, StartLeave, StartAnnul, Patch,
     StartReview, Accept, Goto
<1>3. CASE StartSettle(w) \/ StartStake(w) \/ StartTrade(w)
  BY <1>3 DEF StartSettle, StartStake, StartTrade, Accept
<1>4. CASE Claim(w) \/ Look(w) \/ Assess(w) \/ DebitStake(w) \/ LockBet(w) \/ CashOut(w)
           \/ Approve(w) \/ PayWinner(w)
  BY <1>1, <1>4 DEF QuietStep, Claim, Look, Assess, DebitStake, LockBet, CashOut, Approve,
     PayWinner, Goto
<1>5. CASE InsertBet(w) \/ RefundStake(w) \/ TouchMarket(w) \/ AddToPool(w) \/ Price(w)
           \/ Result(w) \/ GrantFunds(w) \/ Reject(w)
  BY <1>1, <1>5, Zenon DEF InsertBet, RefundStake, TouchMarket, AddToPool, Price, Result,
     GrantFunds, Reject, Goto
<1>6. CASE Register(w)
  BY <1>1, <1>6 DEF Register, EndRequest, Goto
<1>7. CASE VoidBet(w) \/ CreditBet(w) \/ FinishCancel(w)
  BY <1>7
<1>. QED
  BY <1>2, <1>3, <1>4, <1>5, <1>6, <1>7
     DEF QuietStep, WorkerStep, FixedOddsStep, PoolStep, FinalStep

LEMMA QuietOutside ==
    ASSUME NEW w \in Workers, HouseHeld, QuietStep(w), Timely(w)
    PROVE  OutsideLoop(w)
<1>1. pc \in [Workers -> Statement]
  BY Holding, Typed
<1>2. CASE /\ pc[w] \notin {"share", "credit", "unbet", "decide", "divide"}
           /\ pc'[w] \notin {"share", "credit", "unbet", "decide", "divide"}
  BY <1>2, NotInLoop
<1>3. CASE StartSettle(w) \/ StartStake(w) \/ StartTrade(w)
  BY <1>1, <1>3, NotInLoop DEF StartSettle, StartStake, StartTrade, Accept, Goto
<1>4. CASE VoidBet(w)
  <2>1. pc[w] = "unbet" /\ req' = req
    BY <1>4 DEF VoidBet
  <2>2. Mechanism(req[w].market) = "fixed_odds"
    BY <2>1 DEF Timely
  <2>. QED
    BY <2>1, <2>2, NotInLoop
<1>5. CASE CreditBet(w)
  BY <1>5, NotInLoop DEF CreditBet
<1>6. CASE FinishCancel(w)
  <2>1. pc[w] = "credit" /\ tx[w].batch = {} /\ pc'[w] = "commit"
    BY <1>1, <1>6 DEF FinishCancel, Goto
  <2>. QED
    BY <2>1 DEF OutsideLoop, ToCome, Dividing, Ending
<1>. QED
  BY <1>2, <1>3, <1>4, <1>5, <1>6, StepPlaces

LEMMA QuietSquare ==
    ASSUME NEW w \in Workers, MarketsHeld, HouseHeld', QuietStep(w), Timely(w), SquareFor(w)
    PROVE  SquareFor(w)'
<1>0. HouseHeld
  BY DEF MarketsHeld
<1>1. Keeps(w, MarketLine)
  BY <1>0, MarketLinesKept DEF QuietStep
<1>2. stakes' = stakes
  BY <1>0, PoolStatements, PoolAdded DEF QuietStep, Arrival, OtherStatement
<1>3. OutsideLoop(w)
  BY <1>0, QuietOutside
<1> SUFFICES ASSUME NEW m \in Markets, NEW u \in Users
             PROVE  Square(Seen(wallets[u], w)'.ledger, MarketFor(w, m)', RowsSeen(w)', m,
                           ToCome(w, m)', u)
  BY DEF SquareFor
<1>4. Standing(Seen(markets[m], w))' = Standing(Seen(markets[m], w))
  BY TermsStay DEF QuietStep
<1>5. Standing(MarketFor(w, m))' = Standing(MarketFor(w, m))
  BY <1>3, <1>4 DEF OutsideLoop, MarketFor
<1>6. Square(Seen(wallets[u], w).ledger, MarketFor(w, m), RowsSeen(w), m, ToCome(w, m), u)
  BY DEF SquareFor
<1>7. ToCome(w, m)' = ToCome(w, m)
  BY <1>3 DEF OutsideLoop
<1>. QED
  BY <1>0, <1>1, <1>2, <1>5, <1>6, <1>7, KeptLines, SameStakes, SquareStays

\* The pool that a settlement loads is what the stakes' entries say.
LEMMA PoolLoaded ==
    ASSUME NEW mix, PoolInv(mix), NEW m \in Markets, IsPool(m), markets[m].now.status \in Live
    PROVE  \A s \in Sides : markets[m].now.pool[s] = TotalOf(RowsNow, m, s)
<1>1. Matched(m)
  BY DEF PoolInv, Matches, Live
<1>. QED
  BY <1>1, StakesTotal DEF Matched, RowsNow

LEMMA ArrivalTimely ==
    ASSUME NEW mix, PoolInv(mix), NEW w \in Workers,
           StartSettle(w) \/ StartStake(w) \/ StartTrade(w)
    PROVE  Timely(w)'
<1>0. HouseHeld
  BY DEF PoolInv, MarketsHeld
<1>1. /\ pc \in [Workers -> Statement] /\ req \in [Workers -> Request \cup {NoRequest}]
      /\ tx \in [Workers -> Tx] /\ \A r \in todo : r \in Request
  BY <1>0, Holding, Typed DEF HouseHeld, HouseTyped, TypeOK
<1>2. CASE StartStake(w) \/ StartTrade(w)
  <2>1. PICK r \in todo : /\ TakesBets(r.market, w) /\ req'[w] = r
                          /\ r.op = "trade" => Mechanism(r.market) = "lmsr"
                          /\ markets' = markets /\ pc'[w] \in {"bank", "price"}
    BY <1>1, <1>2 DEF StartStake, StartTrade, Accept, Goto, Mechanism, tables
  <2>2. Seen(markets[r.market], w)'.status \in Live
    BY <2>1 DEF TakesBets, Seen, Live
  <2>. QED
    BY <2>1, <2>2 DEF Timely
<1>3. CASE StartSettle(w)
  <2>1. PICK r \in todo :
            /\ r.op = "settle" /\ markets[r.market].now.status \in {"open", "closed"}
            /\ req'[w] = r /\ markets' = markets /\ stakes' = stakes
            /\ tx' = [tx EXCEPT ![w].pool = markets[r.market].now.pool]
            /\ pc'[w] = IF Mechanism(r.market) = "parimutuel" THEN "divide" ELSE "decide"
    BY <1>1, <1>3 DEF StartSettle, Accept, Goto, tables
  <2>2. tx'[w].pool = markets[r.market].now.pool
    BY <1>1, <2>1 DEF Tx
  <2>3. r.market \in Markets
    BY <1>1, <2>1, RequestForms
  <2>4. IsPool(r.market) => PoolKnown(w)'
    BY <2>1, <2>2, <2>3, PoolLoaded, SameStakes DEF PoolKnown, Live
  <2>. QED
    BY <2>1, <2>4 DEF Timely, IsPool, Live
<1>. QED
  BY <1>2, <1>3

LEMMA QuietTimely ==
    ASSUME NEW mix, PoolInv(mix), NEW w \in Workers, QuietStep(w), Timely(w)
    PROVE  Timely(w)'
<1>0. MarketsHeld /\ HouseHeld
  BY DEF PoolInv, MarketsHeld
<1>1. /\ pc \in [Workers -> Statement] /\ req[w] \in Request \cup {NoRequest}
      /\ ServingOK(w)
  BY <1>0, Holding, Typed
<1>2. ASSUME req'[w] = req[w], req[w].op \in {"stake", "trade"}
      PROVE  Seen(markets[req[w].market], w)'.status \in Live
  <2>1. PICK m \in Markets : m = req[w].market
    BY <1>1, <1>2, RequestForms
  <2>2. Standing(Seen(markets[m], w))' = Standing(Seen(markets[m], w))
    BY <1>0, TermsStay DEF QuietStep
  <2>3. Seen(markets[m], w)'.status = Seen(markets[m], w).status
    BY <2>2 DEF Standing
  <2>. QED
    BY <1>2, <2>1, <2>3 DEF Timely
<1>3. CASE /\ pc[w] \notin {"share", "credit", "unbet", "decide", "divide"}
           /\ pc'[w] \notin {"share", "credit", "unbet", "decide", "divide"}
           /\ \/ req' = req \/ req'[w] = NoRequest
              \/ pc[w] = "idle" /\ req'[w].op \notin {"stake", "trade"}
  BY <1>2, <1>3 DEF Timely, NoRequest
<1>4. CASE StartSettle(w) \/ StartStake(w) \/ StartTrade(w)
  BY <1>4, ArrivalTimely
<1>5. CASE VoidBet(w) \/ CreditBet(w) \/ FinishCancel(w)
  <2>1. /\ pc[w] \in {"unbet", "credit"} /\ pc'[w] \in {"unbet", "credit", "commit"}
        /\ req' = req
        /\ pc'[w] \in {"unbet", "credit"} => Mechanism(req[w].market) = "fixed_odds"
    BY <1>1, <1>5, Zenon DEF VoidBet, CreditBet, FinishCancel, Goto, Timely
  <2>2. req[w].op = "annul"
    BY <1>1, <2>1 DEF ServingOK, OpsAt
  <2>. QED
    BY <2>1, <2>2 DEF Timely, Crediting
<1>. QED
  BY <1>0, <1>3, <1>4, <1>5, StepPlaces

\* One more entry of market n in a wallet's ledger, and in k's ledger as w sees it.
Adds(old, new, type, n, amount) ==
    \A t \in MarketTypes : \A m \in Markets :
        new[Entry(t, m)] = old[Entry(t, m)] + (IF t = type /\ m = n THEN amount ELSE 0)

Moves(w, k, type, n, amount) ==
    \A u \in Users :
        /\ \A m \in Markets \ {n} :
               SameLines(Seen(wallets[u], w).ledger, Seen(wallets[u], w)'.ledger, m)
        /\ u = k => Gains(Seen(wallets[u], w).ledger, Seen(wallets[u], w)'.ledger, n, type, amount)
        /\ u # k => Gains(Seen(wallets[u], w).ledger, Seen(wallets[u], w)'.ledger, n, type, 0)

LEMMA EntryAdds ==
    ASSUME NEW wallet \in Wallet, NEW type, NEW n, NEW amount \in Int, NEW value,
           value \in {Record(wallet, type, n, amount), Credit(wallet, type, n, amount),
                     Debit(wallet, type, n, amount)}
    PROVE  Adds(wallet.ledger, value.ledger, type, n, amount)
<1>1. Shaped(wallet)
  BY WalletShaped
<1>2. \A l \in Line :
          value.ledger[l] = IF l = Entry(type, n) THEN wallet.ledger[l] + amount
                            ELSE wallet.ledger[l]
  BY <1>1, EntryWritten
<1>3. \A t, m : Entry(t, m) = Entry(type, n) <=> t = type /\ m = n
  BY DEF Entry
<1>4. \A l \in Line : wallet.ledger[l] \in Nat
  BY DEF Wallet
<1>. QED
  BY <1>2, <1>3, <1>4, MarketEntries DEF Adds

\* What a wallet that is written with one more entry of a market does to what w sees.
LEMMA LinePaid ==
    ASSUME NEW w \in Workers, HouseHeld, NEW k \in Users, NEW type, NEW n \in Markets,
           NEW amount \in Int, NEW wallet, wallet = Seen(wallets[k], w), NEW value,
           Adds(wallet.ledger, value.ledger, type, n, amount),
           wallets' = [wallets EXCEPT ![k] = Written(@, w, value)]
    PROVE  Moves(w, k, type, n, amount)
<1>1. wallets \in [Users -> RowOf(Wallet)]
  BY Holding, Typed DEF TablesTypedNow
<1>2. /\ Seen(wallets[k], w)' = value
      /\ \A v \in Users \ {k} : Seen(wallets[v], w)' = Seen(wallets[v], w)
  BY <1>1, WalletWritten
<1>3. \A u \in Users : \A t \in MarketTypes : \A m \in Markets :
          Seen(wallets[u], w).ledger[Entry(t, m)] \in Nat
  BY MarketEntries, RowsTyped
<1>4. ASSUME NEW u \in Users, u # k
      PROVE  /\ \A m \in Markets \ {n} :
                    SameLines(Seen(wallets[u], w).ledger, Seen(wallets[u], w)'.ledger, m)
             /\ Gains(Seen(wallets[u], w).ledger, Seen(wallets[u], w)'.ledger, n, type, 0)
  BY <1>2, <1>3, <1>4 DEF SameLines, Gains
<1>5. /\ \A m \in Markets \ {n} :
             SameLines(Seen(wallets[k], w).ledger, Seen(wallets[k], w)'.ledger, m)
      /\ Gains(Seen(wallets[k], w).ledger, Seen(wallets[k], w)'.ledger, n, type, amount)
  <2>1. PICK old, new : old = wallet.ledger /\ new = value.ledger
    OBVIOUS
  <2>2. Adds(old, new, type, n, amount)
    BY <2>1
  <2>3. \A t \in MarketTypes : \A m \in Markets : old[Entry(t, m)] \in Nat
    BY <1>3, <2>1
  <2>4. (\A m \in Markets \ {n} : SameLines(old, new, m)) /\ Gains(old, new, n, type, amount)
    BY <2>2, <2>3 DEF SameLines, Gains, Adds
  <2>. QED
    BY <1>2, <2>1, <2>4
<1>. QED
  BY <1>4, <1>5 DEF Moves

LEMMA BankStakeTimely ==
    ASSUME NEW mix, PoolInv(mix), NEW w \in Workers, BankStake(w), ~Rollback(w), Timely(w)
    PROVE  Timely(w)'
<1>1. HouseHeld
  BY DEF PoolInv, MarketsHeld
<1>2. req' = req /\ markets' = markets /\ pc'[w] = "pool"
  BY <1>1, StakeBanked
<1>. QED
  BY <1>2 DEF Timely, Seen

LEMMA BankStakeSquare ==
    ASSUME NEW mix, PoolInv(mix), HouseHeld', NEW w \in Workers, BankStake(w), ~Rollback(w),
           Timely(w), SquareFor(w)
    PROVE  SquareFor(w)'
<1>1. HouseHeld /\ MarketsHeld /\ StakeOK(w)
  BY DEF PoolInv, MarketsHeld
<1>2. /\ pc[w] = "bank" /\ req[w].op = "stake" /\ req[w] \in Request
      /\ pc'[w] = "pool" /\ req' = req /\ markets' = markets
  BY <1>1, StakeBanked
<1>3. PICK r : r = req[w]
  OBVIOUS
<1>4. /\ r.user \in Users /\ r.market \in Markets /\ r.side \in Sides /\ r.amount \in Nat
      /\ r.amount # 0
  BY <1>2, <1>3, RequestForms DEF Request
<1>5. PICK k \in Users, n \in Markets, amount \in Int :
          k = r.user /\ n = r.market /\ amount = r.amount
  BY <1>4
<1>6. PICK wallet \in Wallet : wallet = Seen(wallets[k], w) /\ wallet = wallets[k].now
  <2>1. wallets[k].by # w
    BY <1>1, <1>2, Holding DEF HoldingOK, WalletAt
  <2>. QED
    BY <1>1, <2>1, RowsTyped DEF Seen
<1>7. PICK value : value = Debit(wallet, "PARIMUTUEL_STAKE", n, amount)
  OBVIOUS
<1>8. wallets' = [wallets EXCEPT ![k] = Written(@, w, value)]
  BY <1>3, <1>5, <1>6, <1>7 DEF BankStake
<1>9. Adds(wallet.ledger, value.ledger, "PARIMUTUEL_STAKE", n, amount)
  <2>1. value \in {Record(wallet, "PARIMUTUEL_STAKE", n, amount),
                   Credit(wallet, "PARIMUTUEL_STAKE", n, amount),
                   Debit(wallet, "PARIMUTUEL_STAKE", n, amount)}
    BY <1>7
  <2>. QED
    BY <2>1, EntryAdds
<1>10. Moves(w, k, "PARIMUTUEL_STAKE", n, amount)
  BY <1>1, <1>6, <1>8, <1>9, LinePaid
<1>11. PICK i \in StakeIds :
           /\ stakes[i].by = Nobody /\ stakes[i].now.amount = 0
           /\ stakes' = [stakes EXCEPT ![i] = Written(@, w, StakeOf(r))]
  BY <1>1, <1>3, StakeBanked
<1>12. PICK rows \in [StakeIds -> Stake] : rows = RowsSeen(w)
  BY <1>1, RowsTyped
<1>13. stakes \in [StakeIds -> RowOf(Stake)] /\ w # Nobody
  BY <1>1, Holding, Typed, NobodyAssumption DEF TablesTypedNow
<1>14. rows[i].amount = 0
  BY <1>11, <1>12, <1>13 DEF RowsSeen, Seen
<1>15. PICK rows2 : rows2 = RowsSeen(w)'
  OBVIOUS
<1>16. rows2[i] = StakeOf(r) /\ \A j \in StakeIds \ {i} : rows2[j] = rows[j]
  <2>1. stakes'[i].by = w /\ stakes'[i].new = StakeOf(r)
    BY <1>11, <1>13 DEF Written, RowOf
  <2>2. \A j \in StakeIds \ {i} : stakes'[j] = stakes[j]
    BY <1>11, <1>13
  <2>3. \A j \in StakeIds : rows2[j] = IF stakes'[j].by = w THEN stakes'[j].new ELSE stakes'[j].now
    BY <1>15 DEF RowsSeen, Seen
  <2>4. \A j \in StakeIds : rows[j] = IF stakes[j].by = w THEN stakes[j].new ELSE stakes[j].now
    BY <1>12 DEF RowsSeen, Seen
  <2>. QED
    BY <2>1, <2>2, <2>3, <2>4
<1>17. /\ rows2[i].market = n /\ rows2[i].user = k /\ rows2[i].amount = amount
       /\ rows2[i].amount > 0
  BY <1>4, <1>5, <1>16 DEF StakeOf
<1>18. rows2 \in [StakeIds -> Stake]
  <2>1. StakeOf(r) \in Stake
    BY <1>4 DEF StakeOf, Stake
  <2>2. rows2 = [j \in StakeIds |-> rows2[j]]
    BY <1>15 DEF RowsSeen
  <2>. QED
    BY <1>16, <2>1, <2>2
<1>19. OutsideLoop(w) /\ \A m \in Markets : ToCome(w, m) = {} /\ ToCome(w, m)' = {}
  <2>1. \A m \in Markets : ToCome(w, m) = {} /\ ToCome(w, m)' = {}
    BY <1>2 DEF ToCome, Ending
  <2>. QED
    BY <1>2, <2>1, NotInLoop
<1> SUFFICES ASSUME NEW m \in Markets, NEW u \in Users
             PROVE  Square(Seen(wallets[u], w)'.ledger, MarketFor(w, m)', RowsSeen(w)', m,
                           ToCome(w, m)', u)
  BY DEF SquareFor
<1>20. Square(Seen(wallets[u], w).ledger, MarketFor(w, m), RowsSeen(w), m, ToCome(w, m), u)
  BY DEF SquareFor
<1>21. MarketFor(w, m)' = MarketFor(w, m) /\ MarketFor(w, m) = Seen(markets[m], w)
  BY <1>2, <1>19 DEF OutsideLoop, MarketFor, Seen
<1>22. CASE m = n
  <2>1. Mechanism(m) = "parimutuel" /\ Seen(markets[m], w).status \in Live
    BY <1>1, <1>2, <1>3, <1>5, <1>22 DEF StakeOK, Timely, IsPool
  <2>2. PICK ledger \in [Line -> Nat] : ledger = Seen(wallets[u], w).ledger
    BY <1>1, RowsTyped
  <2>3. PICK market, ledger2 :
            market = MarketFor(w, m) /\ ledger2 = Seen(wallets[u], w)'.ledger
    OBVIOUS
  <2>4. Gains(ledger, ledger2, m, "PARIMUTUEL_STAKE",
              IF rows2[i].user = u THEN rows2[i].amount ELSE 0)
    BY <1>10, <1>17, <1>22, <2>2, <2>3 DEF Moves
  <2>5. Square(ledger, market, rows, m, {}, u)
    BY <1>12, <1>19, <1>20, <2>2, <2>3
  <2>6. Square(ledger2, market, rows2, m, {}, u)
    BY <1>14, <1>16, <1>17, <1>18, <1>21, <1>22, <2>1, <2>3, <2>4, <2>5, StakeSquare
  <2>. QED
    BY <1>15, <1>19, <1>21, <2>2, <2>3, <2>6
<1>23. CASE m # n
  <2>1. SameOn(rows, rows2, m)
    BY <1>14, <1>16, <1>17, <1>18, <1>23, OneBanked
  <2>2. SameOn(RowsSeen(w), RowsSeen(w)', m)
    BY <1>12, <1>15, <2>1
  <2>3. SameLines(Seen(wallets[u], w).ledger, Seen(wallets[u], w)'.ledger, m)
    BY <1>10, <1>23 DEF Moves
  <2>4. Standing(MarketFor(w, m))' = Standing(MarketFor(w, m))
    BY <1>21 DEF Standing
  <2>. QED
    BY <1>1, <1>19, <1>20, <2>2, <2>3, <2>4, SquareStays
<1>. QED
  BY <1>22, <1>23

LEMMA TradePaid ==
    ASSUME NEW mix, PoolInv(mix), NEW w \in Workers, PayTrade(w), ~Rollback(w)
    PROVE  /\ pc[w] = "pay" /\ req[w].op = "trade" /\ pc'[w] = "commit"
           /\ req' = req /\ stakes' = stakes
           /\ req[w].user \in Users /\ req[w].market \in Markets /\ req[w].side \in Sides
           /\ req[w].amount \in Nat /\ tx[w].due \in Nat
           /\ Moves(w, req[w].user, "LMSR_TRADE_STAKE", req[w].market, tx[w].due)
           /\ \E old \in Market :
                  /\ old = Seen(markets[req[w].market], w) /\ old = markets[req[w].market].new
                  /\ markets' = [markets EXCEPT ![req[w].market].new =
                         [old EXCEPT !.shares = Bought(req[w], old.shares),
                                     !.held[req[w].user][req[w].side] = @ + req[w].amount,
                                     !.costs[req[w].user] = @ + tx[w].due, !.trades = @ + 1]]
                  /\ markets[req[w].market].by = w
<1>1. HouseHeld /\ HoldingOK(w)
  BY Holding DEF PoolInv, MarketsHeld
<1>2. /\ pc \in [Workers -> Statement] /\ req[w] \in Request \cup {NoRequest}
      /\ ServingOK(w) /\ tx[w] \in Tx /\ wallets \in [Users -> RowOf(Wallet)]
      /\ markets \in [Markets -> RowOf(Market)]
  BY <1>1, Holding, Typed DEF TablesTypedNow
<1>3. /\ pc[w] = "pay" /\ pc'[w] = "commit" /\ req' = req /\ stakes' = stakes
  BY <1>2, Zenon DEF PayTrade, Goto
<1>4. req[w].op = "trade"
  BY <1>2, <1>3 DEF ServingOK, OpsAt
<1>5. /\ req[w].user \in Users /\ req[w].market \in Markets /\ req[w].side \in Sides
      /\ req[w].amount \in Nat
  BY <1>2, <1>4, RequestForms
<1>6. tx[w].due \in Nat
  BY <1>2 DEF Tx
<1>7. PICK k \in Users, n \in Markets, cost \in Int :
          k = req[w].user /\ n = req[w].market /\ cost = tx[w].due
  BY <1>5, <1>6
<1>8. markets[n].by = w
  BY <1>1, <1>3, <1>7 DEF HoldingOK, LocksOK
<1>9. PICK wallet \in Wallet : wallet = Seen(wallets[k], w) /\ wallet = wallets[k].now
  <2>1. wallets[k].by # w
    BY <1>1, <1>3 DEF HoldingOK, WalletAt
  <2>. QED
    BY <1>1, <2>1, RowsTyped DEF Seen
<1>10. PICK fee, middle, value : /\ fee = SpreadFee(n, cost)
                                 /\ middle = Debit(wallet, "LMSR_TRADE_STAKE", n, cost)
                                 /\ value = Debit(middle, "LMSR_FEE", n, fee)
  OBVIOUS
<1>11. wallets' = [wallets EXCEPT ![k] = Written(@, w, value)]
  BY <1>3, <1>7, <1>9, <1>10, Zenon DEF PayTrade
<1>12. Adds(wallet.ledger, value.ledger, "LMSR_TRADE_STAKE", n, cost)
  <2>1. middle \in {Record(wallet, "LMSR_TRADE_STAKE", n, cost),
                    Credit(wallet, "LMSR_TRADE_STAKE", n, cost),
                    Debit(wallet, "LMSR_TRADE_STAKE", n, cost)}
    BY <1>10
  <2>2. Adds(wallet.ledger, middle.ledger, "LMSR_TRADE_STAKE", n, cost)
    BY <2>1, EntryAdds
  <2>3. Shaped(middle)
    BY <2>1, WalletShaped, EntryWritten
  <2>4. value \in {Record(middle, "LMSR_FEE", n, fee), Credit(middle, "LMSR_FEE", n, fee),
                   Debit(middle, "LMSR_FEE", n, fee)}
    BY <1>10
  <2>5. \A l \in Line : value.ledger[l] = IF l = Entry("LMSR_FEE", n) THEN middle.ledger[l] + fee
                                          ELSE middle.ledger[l]
    BY <2>3, <2>4, EntryWritten
  <2>6. \A t \in MarketTypes : \A m \in Markets : Entry(t, m) # Entry("LMSR_FEE", n)
    BY DEF Entry, MarketTypes
  <2>7. \A t \in MarketTypes : \A m \in Markets :
            value.ledger[Entry(t, m)] = middle.ledger[Entry(t, m)]
    BY <2>5, <2>6, MarketEntries
  <2>. QED
    BY <2>2, <2>7 DEF Adds
<1>13. Moves(w, k, "LMSR_TRADE_STAKE", n, cost)
  BY <1>1, <1>9, <1>11, <1>12, LinePaid
<1>14. PICK old \in Market : old = markets[n].new /\ old = Seen(markets[n], w)
  BY <1>2, <1>8 DEF RowOf, Seen
<1>15. markets' = [markets EXCEPT ![n].new =
           [old EXCEPT !.shares = Bought(req[w], old.shares),
                       !.held[req[w].user][req[w].side] = @ + req[w].amount,
                       !.costs[req[w].user] = @ + tx[w].due, !.trades = @ + 1]]
  BY <1>3, <1>7, <1>14 DEF PayTrade
<1>. QED
  BY <1>3, <1>4, <1>5, <1>6, <1>7, <1>8, <1>13, <1>14, <1>15, Zenon

\* A trade moves its market's costs with the buyer's entries, and nothing of its standing.
Grown(w, k, n, old, new) ==
    /\ \A m \in Markets \ {n} : markets'[m] = markets[m]
    /\ new.status = old.status /\ new.outcome = old.outcome
    /\ new.costs[k] = old.costs[k] + tx[w].due
    /\ \A u \in Users \ {k} : new.costs[u] = old.costs[u]
    /\ new.shares = Bought(req[w], old.shares)
    /\ new.held[k] = [old.held[k] EXCEPT ![req[w].side] = @ + req[w].amount]
    /\ \A u \in Users \ {k} : new.held[u] = old.held[u]
    /\ markets'[n].now = markets[n].now /\ markets'[n].new = new

Traded(w) ==
    LET n == req[w].market
    IN  Grown(w, req[w].user, n, Seen(markets[n], w), Seen(markets'[n], w))

LEMMA TradeWritten ==
    ASSUME NEW mix, PoolInv(mix), NEW w \in Workers, PayTrade(w), ~Rollback(w)
    PROVE  Traded(w)
<1>0. PICK k, n, old : k = req[w].user /\ n = req[w].market /\ old = Seen(markets[n], w)
  OBVIOUS
<1>1. k \in Users /\ n \in Markets /\ HouseHeld
  BY <1>0, TradePaid DEF PoolInv, MarketsHeld
<1>2. \E value \in Market :
          /\ value = Seen(markets[req[w].market], w) /\ value = markets[req[w].market].new
          /\ markets' = [markets EXCEPT ![req[w].market].new =
                 [value EXCEPT !.shares = Bought(req[w], value.shares),
                               !.held[req[w].user][req[w].side] = @ + req[w].amount,
                               !.costs[req[w].user] = @ + tx[w].due, !.trades = @ + 1]]
          /\ markets[req[w].market].by = w
  BY TradePaid, Zenon
<1>3. PICK new : new = [old EXCEPT !.shares = Bought(req[w], old.shares),
                                   !.held[k][req[w].side] = @ + req[w].amount,
                                   !.costs[k] = @ + tx[w].due, !.trades = @ + 1]
  OBVIOUS
<1>4. markets \in [Markets -> RowOf(Market)] /\ markets[n].by = w /\ old \in Market
  BY <1>0, <1>1, <1>2, Holding, Typed DEF TablesTypedNow
<1>5. markets' = [markets EXCEPT ![n].new = new]
  BY <1>0, <1>2, <1>3, Zenon
<1>6. /\ markets'[n].by = w /\ markets'[n].new = new /\ markets'[n].now = markets[n].now
      /\ \A m \in Markets \ {n} : markets'[m] = markets[m]
  BY <1>1, <1>4, <1>5 DEF RowOf
<1>7. Seen(markets'[n], w) = new
  BY <1>6 DEF Seen
<1>8. /\ new.status = old.status /\ new.outcome = old.outcome
      /\ new.costs = [old.costs EXCEPT ![k] = @ + tx[w].due]
      /\ new.shares = Bought(req[w], old.shares)
      /\ new.held = [old.held EXCEPT ![k][req[w].side] = @ + req[w].amount]
  BY <1>3, <1>4 DEF Market
<1>9. old.costs \in [Users -> Nat] /\ old.held \in [Users -> [Sides -> Nat]]
  BY <1>4 DEF Market
<1>10. /\ new.costs[k] = old.costs[k] + tx[w].due
       /\ \A u \in Users \ {k} : new.costs[u] = old.costs[u]
       /\ new.held[k] = [old.held[k] EXCEPT ![req[w].side] = @ + req[w].amount]
       /\ \A u \in Users \ {k} : new.held[u] = old.held[u]
  BY <1>1, <1>8, <1>9
<1>11. Grown(w, k, n, old, new)
  BY <1>6, <1>8, <1>10 DEF Grown
<1>12. Grown(w, k, n, old, Seen(markets'[n], w))
  BY <1>7, <1>11
<1>. QED
  BY <1>0, <1>12 DEF Traded

LEMMA PayTradeTimely ==
    ASSUME NEW mix, PoolInv(mix), NEW w \in Workers, PayTrade(w), ~Rollback(w), Timely(w)
    PROVE  Timely(w)'
<1>1. req' = req /\ pc'[w] = "commit" /\ req[w].op = "trade"
  BY TradePaid
<1>2. Seen(markets'[req[w].market], w).status = Seen(markets[req[w].market], w).status
  BY TradeWritten, Zenon DEF Traded, Grown
<1>. QED
  BY <1>1, <1>2 DEF Timely

LEMMA PayTradeSquare ==
    ASSUME NEW mix, PoolInv(mix), HouseHeld', NEW w \in Workers, PayTrade(w), ~Rollback(w),
           Timely(w), SquareFor(w)
    PROVE  SquareFor(w)'
<1>1. HouseHeld /\ MarketsHeld /\ StakeOK(w)
  BY DEF PoolInv, MarketsHeld
<1>2. /\ pc[w] = "pay" /\ req[w].op = "trade" /\ pc'[w] = "commit"
      /\ req' = req /\ stakes' = stakes /\ tx[w].due \in Nat
  BY TradePaid
<1>3. PICK k \in Users, n \in Markets, cost \in Int :
          k = req[w].user /\ n = req[w].market /\ cost = tx[w].due
  <2>1. req[w].user \in Users /\ req[w].market \in Markets /\ tx[w].due \in Nat
    BY TradePaid, Zenon
  <2>2. PICK k \in Users, n \in Markets : k = req[w].user /\ n = req[w].market
    BY <2>1
  <2>3. PICK cost \in Int : cost = tx[w].due
    BY <2>1
  <2>. QED
    BY <2>2, <2>3
<1>4. Moves(w, k, "LMSR_TRADE_STAKE", n, cost)
  BY <1>3, TradePaid, Zenon
<1>5. PICK old \in Market : old = Seen(markets[n], w)
  BY <1>1, RowsTyped
<1>6. PICK new : new = Seen(markets'[n], w)
  OBVIOUS
<1>7. /\ \A m \in Markets \ {n} : markets'[m] = markets[m]
      /\ new.status = old.status /\ new.costs[k] = old.costs[k] + cost
      /\ \A u \in Users \ {k} : new.costs[u] = old.costs[u]
  <2>1. Traded(w)
    BY TradeWritten
  <2>. QED
    BY <1>3, <1>5, <1>6, <2>1, Zenon DEF Traded, Grown
<1>8. Mechanism(n) = "lmsr" /\ old.status \in Live
  BY <1>2, <1>3, <1>5 DEF Timely
<1>9. OutsideLoop(w) /\ \A m \in Markets : ToCome(w, m) = {} /\ ToCome(w, m)' = {}
  <2>1. \A m \in Markets : ToCome(w, m) = {} /\ ToCome(w, m)' = {}
    BY <1>2 DEF ToCome, Ending
  <2>. QED
    BY <1>2, <2>1, NotInLoop
<1> SUFFICES ASSUME NEW m \in Markets, NEW u \in Users
             PROVE  Square(Seen(wallets[u], w)'.ledger, MarketFor(w, m)', RowsSeen(w)', m,
                           ToCome(w, m)', u)
  BY DEF SquareFor
<1>10. Square(Seen(wallets[u], w).ledger, MarketFor(w, m), RowsSeen(w), m, ToCome(w, m), u)
  BY DEF SquareFor
<1>11. MarketFor(w, m)' = Seen(markets[m], w)' /\ MarketFor(w, m) = Seen(markets[m], w)
  BY <1>9 DEF OutsideLoop, MarketFor
<1>12. PICK rows \in [StakeIds -> Stake] : rows = RowsSeen(w) /\ rows = RowsSeen(w)'
  <2>1. RowsSeen(w) \in [StakeIds -> Stake]
    BY <1>1, RowsTyped
  <2>2. RowsSeen(w)' = RowsSeen(w)
    BY <1>2, SameStakes
  <2>. QED
    BY <2>1, <2>2
<1>13. CASE m = n
  <2>1. PICK ledger \in [Line -> Nat] : ledger = Seen(wallets[u], w).ledger
    BY <1>1, RowsTyped
  <2>2. PICK ledger2 : ledger2 = Seen(wallets[u], w)'.ledger
    OBVIOUS
  <2>3. Square(ledger, old, rows, m, {}, u)
    BY <1>5, <1>9, <1>10, <1>11, <1>12, <1>13, <2>1
  <2>4. old.costs[u] \in Nat
    BY DEF Market
  <2>5. PICK paid \in Int : /\ new.costs[u] = old.costs[u] + paid
                            /\ Gains(ledger, ledger2, m, "LMSR_TRADE_STAKE", paid)
    <3>1. CASE u = k
      BY <1>4, <1>7, <1>13, <2>1, <2>2, <3>1 DEF Moves
    <3>2. CASE u # k
      <4>1. new.costs[u] = old.costs[u] + 0
        BY <1>7, <2>4, <3>2
      <4>2. Gains(ledger, ledger2, m, "LMSR_TRADE_STAKE", 0)
        BY <1>4, <1>13, <2>1, <2>2, <3>2 DEF Moves
      <4>. QED
        BY <4>1, <4>2
    <3>. QED
      BY <3>1, <3>2
  <2>6. Square(ledger2, new, rows, m, {}, u)
    BY <1>7, <1>8, <1>13, <2>3, <2>5, TradeSquare
  <2>. QED
    BY <1>6, <1>9, <1>11, <1>12, <1>13, <2>2, <2>6
<1>14. CASE m # n
  <2>1. SameLines(Seen(wallets[u], w).ledger, Seen(wallets[u], w)'.ledger, m)
    BY <1>4, <1>14 DEF Moves
  <2>2. markets'[m] = markets[m]
    BY <1>7, <1>14
  <2>3. Standing(MarketFor(w, m))' = Standing(MarketFor(w, m))
    BY <1>11, <2>2 DEF Standing, Seen
  <2>. QED
    BY <1>1, <1>2, <1>9, <1>10, <2>1, <2>3, SameStakes, SquareStays
<1>. QED
  BY <1>13, <1>14

(***************************************************************************)
(* The statements that end a market: to its own rows they do one thing, to *)
(* those of other markets nothing.                                         *)
(***************************************************************************)

LEMMA SquareElsewhere ==
    ASSUME NEW w \in Workers, HouseHeld, HouseHeld', SquareFor(w), NEW m \in Markets,
           NEW u \in Users, m # req[w].market, req'[w] = req[w], stakes' = stakes,
           markets'[m] = markets[m],
           SameLines(Seen(wallets[u], w).ledger, Seen(wallets[u], w)'.ledger, m)
    PROVE  Square(Seen(wallets[u], w)'.ledger, MarketFor(w, m)', RowsSeen(w)', m,
                  ToCome(w, m)', u)
<1>1. ToCome(w, m)' = ToCome(w, m) /\ ~Dividing(w, m) /\ ~Dividing(w, m)'
  BY DEF ToCome, Dividing, Ending
<1>2. Standing(MarketFor(w, m))' = Standing(MarketFor(w, m))
  BY <1>1 DEF MarketFor, Seen, Standing
<1>3. Square(Seen(wallets[u], w).ledger, MarketFor(w, m), RowsSeen(w), m, ToCome(w, m), u)
  BY DEF SquareFor
<1>. QED
  BY <1>1, <1>2, <1>3, SameStakes, SquareStays

LEMMA LinesUnmoved ==
    ASSUME NEW w, wallets' = wallets, NEW m, NEW u
    PROVE  /\ SameLines(Seen(wallets[u], w).ledger, Seen(wallets[u], w)'.ledger, m)
           /\ Seen(wallets[u], w)' = Seen(wallets[u], w)
<1>1. Seen(wallets[u], w)' = Seen(wallets[u], w)
  BY DEF Seen
<1>. QED
  BY <1>1 DEF SameLines

\* A statement that only writes the row of its market has only that to answer for.
LEMMA OneMarketEnds ==
    ASSUME NEW w \in Workers, HouseHeld, HouseHeld', SquareFor(w), NEW n \in Markets,
           n = req[w].market, req'[w] = req[w], stakes' = stakes, wallets' = wallets,
           \A m \in Markets \ {n} : markets'[m] = markets[m],
           \A u \in Users :
               Square(Seen(wallets[u], w).ledger, MarketFor(w, n)', RowsSeen(w), n,
                      ToCome(w, n)', u)
    PROVE  SquareFor(w)'
<1> SUFFICES ASSUME NEW m \in Markets, NEW u \in Users
             PROVE  Square(Seen(wallets[u], w)'.ledger, MarketFor(w, m)', RowsSeen(w)', m,
                           ToCome(w, m)', u)
  BY DEF SquareFor
<1>1. CASE m # n
  BY <1>1, LinesUnmoved, SquareElsewhere
<1>2. CASE m = n
  BY <1>2, LinesUnmoved, SameStakes
<1>. QED
  BY <1>1, <1>2

LEMMA SettlesNow ==
    ASSUME NEW mix, PoolInv(mix), NEW w \in Workers,
           pc[w] \in {"decide", "divide", "annul", "patch"}
    PROVE  /\ req[w].op \in {"settle", "annul", "patch"} /\ req[w].market \in Markets
           /\ req[w].op = "settle" => req[w].outcome \in Sides
           /\ pc[w] \in {"decide", "divide"} => req[w].op = "settle"
           /\ pc[w] = "annul" => req[w].op = "annul"
           /\ pc[w] = "patch" => req[w].op = "patch"
           /\ RowsSeen(w) = RowsNow
           /\ \A m \in Markets : /\ markets[m].by # w /\ Seen(markets[m], w) = markets[m].now
                                 /\ ToCome(w, m) = {} /\ MarketFor(w, m) = markets[m].now
<1>1. HouseHeld /\ MarketsHeld /\ StakeOK(w)
  BY DEF PoolInv, MarketsHeld
<1>2. req[w] \in Request \cup {NoRequest} /\ ServingOK(w)
  BY <1>1, Holding, Typed
<1>3. /\ pc[w] \in {"decide", "divide"} => req[w].op = "settle"
      /\ pc[w] = "annul" => req[w].op = "annul"
      /\ pc[w] = "patch" => req[w].op = "patch"
  BY <1>2 DEF ServingOK, OpsAt
<1>4. RowsSeen(w) = RowsNow
  BY <1>1, <1>3, StakesSeen
<1>5. \A m \in Markets : markets[m].by # w /\ Seen(markets[m], w) = markets[m].now
  BY <1>1, MarketSeen DEF MarketAt
<1>6. \A m \in Markets : ToCome(w, m) = {} /\ ~Dividing(w, m)
  BY DEF ToCome, Dividing, Ending
<1>7. \A m \in Markets : MarketFor(w, m) = markets[m].now
  BY <1>5, <1>6 DEF MarketFor
<1>. QED
  BY <1>2, <1>3, <1>4, <1>5, <1>6, <1>7, RequestForms

LEMMA DecideEnds ==
    ASSUME NEW mix, PoolInv(mix), HouseHeld', NEW w \in Workers, Decide(w), Timely(w),
           SquareFor(w)
    PROVE  Timely(w)' /\ SquareFor(w)'
<1>1. HouseHeld /\ MarketsHeld
  BY DEF PoolInv, MarketsHeld
<1>2. /\ pc \in [Workers -> Statement] /\ tx \in [Workers -> Tx] /\ ServingOK(w)
      /\ markets \in [Markets -> RowOf(Market)]
  BY <1>1, Holding, Typed DEF TablesTypedNow
<1>3. pc[w] = "decide" /\ req' = req /\ stakes' = stakes /\ wallets' = wallets
  BY DEF Decide
<1>4. PICK n \in Markets, side \in Sides : n = req[w].market /\ side = req[w].outcome
  BY <1>3, SettlesNow
<1>5. req[w].op = "settle"
  BY <1>3, SettlesNow
<1>6. PICK old \in Market : /\ old = markets[n].now /\ old = MarketFor(w, n)
                            /\ old.status \in Live
  <2>1. markets[n].now \in Market
    BY <1>2 DEF RowOf
  <2>. QED
    BY <1>3, <1>4, <2>1, SettlesNow DEF Timely
<1>7. PICK value : value = [old EXCEPT !.status = "settled", !.outcome = side]
  OBVIOUS
<1>8. /\ value.status = "settled" /\ value.outcome = side
      /\ value.held = old.held /\ value.costs = old.costs
  BY <1>7 DEF Market
<1>9. markets' = [markets EXCEPT ![n] = Written(@, w, value)]
  BY <1>4, <1>6, <1>7 DEF Decide
<1>10. /\ Seen(markets[n], w)' = value /\ markets'[n].by = w /\ markets'[n].new = value
       /\ \A m \in Markets \ {n} : markets'[m] = markets[m]
  BY <1>2, <1>9, MarketWritten
<1>11. Mechanism(n) \in {"fixed_odds", "lmsr"}
  BY <1>2, <1>3, <1>4, Batches DEF ServingOK, BatchOK
<1>12. PICK rows \in [StakeIds -> Stake] : rows = RowsSeen(w)
  BY <1>1, RowsTyped
<1>13. \A u \in Users : Square(Seen(wallets[u], w).ledger, old, rows, n, {}, u)
  <2>1. ToCome(w, n) = {}
    BY <1>3, SettlesNow
  <2>. QED
    BY <1>6, <1>12, <2>1 DEF SquareFor
<1>14. CASE Mechanism(n) = "lmsr"
  <2>1. PICK left : left = {u \in Users : old.held[u][side] > 0}
    OBVIOUS
  <2>2. /\ pc'[w] = "share"
        /\ tx' = [tx EXCEPT ![w].batch = {u \in Users : value.held[u][side] > 0}]
    BY <1>2, <1>4, <1>6, <1>7, <1>14 DEF Decide, Goto
  <2>3. tx'[w].batch = left
    BY <1>2, <1>8, <2>1, <2>2 DEF Tx
  <2>4. Timely(w)'
    BY <1>3, <1>4, <1>5, <1>8, <1>10, <1>14, <2>2 DEF Timely, Sharing
  <2>5. MarketFor(w, n)' = value /\ ToCome(w, n)' = left
    BY <1>3, <1>4, <1>10, <1>14, <2>2, <2>3 DEF MarketFor, Dividing, IsPool, ToCome, Ending
  <2>6. ASSUME NEW u \in Users
        PROVE  Square(Seen(wallets[u], w).ledger, value, rows, n, left, u)
    <3>1. PICK ledger \in [Line -> Nat] : ledger = Seen(wallets[u], w).ledger
      BY <1>1, RowsTyped
    <3>2. Square(ledger, old, rows, n, {}, u)
      BY <1>13, <3>1
    <3>3. Square(ledger, value, rows, n, left, u)
      BY <1>6, <1>8, <1>14, <2>1, <3>2, EndsSquare
    <3>. QED
      BY <3>1, <3>3
  <2>7. \A u \in Users : Square(Seen(wallets[u], w).ledger, MarketFor(w, n)', RowsSeen(w), n,
                                ToCome(w, n)', u)
    BY <1>12, <2>5, <2>6
  <2>. QED
    BY <1>1, <1>3, <1>4, <1>10, <2>4, <2>7, OneMarketEnds
<1>15. CASE Mechanism(n) = "fixed_odds"
  <2>1. pc'[w] = "result"
    BY <1>2, <1>4, <1>15 DEF Decide, Goto
  <2>2. Timely(w)'
    BY <1>3, <1>5, <2>1 DEF Timely
  <2>3. MarketFor(w, n)' = value /\ ToCome(w, n)' = {}
    BY <1>10, <2>1 DEF MarketFor, Dividing, ToCome, Ending
  <2>4. ASSUME NEW u \in Users
        PROVE  Square(Seen(wallets[u], w).ledger, value, rows, n, {}, u)
    <3>1. PICK ledger : ledger = Seen(wallets[u], w).ledger
      OBVIOUS
    <3>2. Square(ledger, old, rows, n, {}, u)
      BY <1>13, <3>1
    <3>3. SameLines(ledger, ledger, n) /\ SameOn(rows, rows, n)
      BY DEF SameLines, SameOn
    <3>4. value.costs[u] = old.costs[u]
      BY <1>8
    <3>5. Square(ledger, value, rows, n, {}, u)
      BY <1>15, <3>2, <3>3, <3>4, StillSquare
    <3>. QED
      BY <3>1, <3>5
  <2>5. \A u \in Users : Square(Seen(wallets[u], w).ledger, MarketFor(w, n)', RowsSeen(w), n,
                                ToCome(w, n)', u)
    BY <1>12, <2>3, <2>4
  <2>. QED
    BY <1>1, <1>3, <1>4, <1>10, <2>2, <2>5, OneMarketEnds
<1>. QED
  BY <1>11, <1>14, <1>15

LEMMA DivideEnds ==
    ASSUME NEW mix, PoolInv(mix), HouseHeld', NEW w \in Workers, Divide(w), Timely(w),
           SquareFor(w)
    PROVE  Timely(w)' /\ SquareFor(w)'
<1>1. HouseHeld /\ MarketsHeld
  BY DEF PoolInv, MarketsHeld
<1>2. /\ pc \in [Workers -> Statement] /\ tx \in [Workers -> Tx] /\ ServingOK(w)
      /\ markets \in [Markets -> RowOf(Market)] /\ tx[w].pool \in [Sides -> Nat]
  BY <1>1, Holding, Typed, Served DEF TablesTypedNow
<1>3. /\ pc[w] = "divide" /\ pc'[w] = "share" /\ req' = req /\ stakes' = stakes
      /\ wallets' = wallets /\ markets' = markets
  BY <1>2 DEF Divide, Goto, tables
<1>4. PICK n \in Markets, side \in Sides : n = req[w].market /\ side = req[w].outcome
  BY <1>3, SettlesNow
<1>5. req[w].op = "settle" /\ Mechanism(n) = "parimutuel"
  BY <1>2, <1>3, <1>4, SettlesNow DEF ServingOK, BatchOK
<1>6. PICK old \in Market : /\ old = markets[n].now /\ old = MarketFor(w, n)
                            /\ old.status \in Live
  <2>1. markets[n].now \in Market
    BY <1>2 DEF RowOf
  <2>. QED
    BY <1>3, <1>4, <2>1, SettlesNow DEF Timely
<1>7. PICK rows \in [StakeIds -> Stake] : rows = RowsSeen(w) /\ rows = RowsNow
  BY <1>1, <1>3, RowsTyped, SettlesNow
<1>8. PICK pool \in [Sides -> Nat] : pool = tx[w].pool
  BY <1>2
<1>9. \A s \in Sides : pool[s] = TotalOf(rows, n, s)
  BY <1>3, <1>4, <1>7, <1>8 DEF Timely, PoolKnown
<1>10. PICK left : left = On(rows, n, IF pool[side] = 0 THEN Sides ELSE {side})
  OBVIOUS
<1>11. tx' = [tx EXCEPT ![w].batch = left]
  <2>1. \A sides : StakesOn(n, sides) = On(rows, n, sides)
    BY <1>7 DEF StakesOn, On, RowsNow
  <2>. QED
    BY <1>4, <1>8, <1>10, <2>1 DEF Divide
<1>12. tx'[w].batch = left /\ tx'[w].pool = pool
  BY <1>2, <1>8, <1>11 DEF Tx
<1>13. markets[n].by # w /\ Seen(markets[n], w) = old
  BY <1>3, <1>6, SettlesNow
<1>14. Timely(w)'
  <2>1. RowsNow' = rows
    BY <1>3, <1>7, SameStakes
  <2>2. PoolKnown(w)'
    BY <1>3, <1>4, <1>9, <1>12, <2>1 DEF PoolKnown
  <2>3. Sharing(w)'
    BY <1>3, <1>4, <1>5, <1>6, <1>10, <1>12, <1>13, <2>1, <2>2 DEF Sharing
  <2>. QED
    BY <1>3, <1>5, <2>3 DEF Timely
<1>15. PICK value : value = [old EXCEPT !.status = "settled", !.outcome = side]
  OBVIOUS
<1>16. /\ value.status = "settled" /\ value.outcome = side /\ value.costs = old.costs
  BY <1>15 DEF Market
<1>17. MarketFor(w, n)' = value /\ ToCome(w, n)' = left
  <2>1. Dividing(w, n)' /\ Ending(w, n)'
    BY <1>3, <1>4, <1>5 DEF Dividing, Ending, IsPool
  <2>2. Seen(markets[n], w)' = old
    BY <1>3, <1>13 DEF Seen
  <2>. QED
    BY <1>3, <1>4, <1>12, <1>15, <2>1, <2>2 DEF MarketFor, ToCome
<1>18. \/ left = On(rows, n, {side}) /\ left # {}
       \/ left = On(rows, n, Sides) /\ On(rows, n, {side}) = {}
  <2>1. pool[side] = 0 <=> On(rows, n, {side}) = {}
    BY <1>9, PoolOfStakes
  <2>. QED
    BY <1>10, <2>1
<1>19. ASSUME NEW u \in Users
       PROVE  Square(Seen(wallets[u], w).ledger, value, rows, n, left, u)
  <2>1. PICK ledger \in [Line -> Nat] : ledger = Seen(wallets[u], w).ledger
    BY <1>1, RowsTyped
  <2>2. ToCome(w, n) = {}
    BY <1>3, SettlesNow
  <2>3. Square(ledger, old, rows, n, {}, u)
    BY <1>6, <1>7, <2>1, <2>2 DEF SquareFor
  <2>4. Square(ledger, value, rows, n, left, u)
    BY <1>5, <1>6, <1>16, <1>18, <2>3, EndsSquare
  <2>. QED
    BY <2>1, <2>4
<1>20. \A u \in Users : Square(Seen(wallets[u], w).ledger, MarketFor(w, n)', RowsSeen(w), n,
                               ToCome(w, n)', u)
  BY <1>7, <1>17, <1>19
<1>. QED
  BY <1>1, <1>3, <1>4, <1>14, <1>20, OneMarketEnds

LEMMA FixedStaysSquare ==
    ASSUME NEW ledger, NEW old, NEW rows \in [StakeIds -> Stake], NEW n, NEW u,
           Square(ledger, old, rows, n, {}, u), Mechanism(n) = "fixed_odds",
           NEW value, value.costs = old.costs
    PROVE  Square(ledger, value, rows, n, {}, u)
<1>1. SameLines(ledger, ledger, n) /\ SameOn(rows, rows, n)
  BY DEF SameLines, SameOn
<1>2. value.costs[u] = old.costs[u]
  OBVIOUS
<1>. QED
  BY <1>1, <1>2, StillSquare

LEMMA PatchSquare ==
    ASSUME NEW mix, EndsStand(mix), PoolInv(mix), HouseHeld', NEW w \in Workers, WritePatch(w),
           SquareFor(w)
    PROVE  Timely(w)' /\ SquareFor(w)'
<1>1. HouseHeld /\ MarketsHeld
  BY DEF PoolInv, MarketsHeld
<1>2. pc \in [Workers -> Statement] /\ markets \in [Markets -> RowOf(Market)]
  BY <1>1, Holding, Typed DEF TablesTypedNow
<1>3. /\ pc[w] = "patch" /\ pc'[w] = "commit" /\ req' = req /\ stakes' = stakes
      /\ wallets' = wallets
  BY <1>2 DEF WritePatch, Goto
<1>4. PICK n \in Markets : n = req[w].market
  BY <1>3, SettlesNow
<1>5. req[w].op = "patch"
  BY <1>3, SettlesNow
<1>6. Mechanism(n) = "fixed_odds"
  <2>1. req[w] \in mix.todo
    BY <1>5 DEF PoolInv, Fits, NoRequest
  <2>. QED
    BY <1>4, <1>5, <2>1 DEF EndsStand
<1>7. PICK old \in Market : old = markets[n].now /\ old = MarketFor(w, n)
  <2>1. markets[n].now \in Market
    BY <1>2 DEF RowOf
  <2>. QED
    BY <1>3, <2>1, SettlesNow
<1>8. PICK value : value = [old EXCEPT !.status = req[w].status]
  OBVIOUS
<1>9. value.costs = old.costs
  BY <1>8 DEF Market
<1>10. markets' = [markets EXCEPT ![n] = Written(@, w, value)]
  BY <1>4, <1>7, <1>8 DEF WritePatch
<1>11. /\ Seen(markets[n], w)' = value
       /\ \A m \in Markets \ {n} : markets'[m] = markets[m]
  BY <1>2, <1>10, MarketWritten
<1>12. PICK rows \in [StakeIds -> Stake] : rows = RowsSeen(w)
  BY <1>1, RowsTyped
<1>13. MarketFor(w, n)' = value /\ ToCome(w, n)' = {} /\ ToCome(w, n) = {}
  BY <1>3, <1>11 DEF MarketFor, Dividing, ToCome, Ending
<1>14. \A u \in Users : Square(Seen(wallets[u], w).ledger, old, rows, n, {}, u)
  BY <1>7, <1>12, <1>13 DEF SquareFor
<1>15. \A u \in Users : Square(Seen(wallets[u], w).ledger, value, rows, n, {}, u)
  BY <1>6, <1>9, <1>14, FixedStaysSquare
<1>16. \A u \in Users : Square(Seen(wallets[u], w).ledger, MarketFor(w, n)', RowsSeen(w), n,
                               ToCome(w, n)', u)
  BY <1>12, <1>13, <1>15
<1>17. Timely(w)'
  BY <1>3, <1>5 DEF Timely
<1>. QED
  BY <1>1, <1>3, <1>4, <1>11, <1>16, <1>17, OneMarketEnds

LEMMA CancelEnds ==
    ASSUME NEW mix, PoolInv(mix), HouseHeld', NEW w \in Workers, LockToCancel(w), ~Rollback(w),
           SquareFor(w)
    PROVE  Timely(w)' /\ SquareFor(w)'
<1>1. HouseHeld /\ MarketsHeld
  BY DEF PoolInv, MarketsHeld
<1>2. /\ pc \in [Workers -> Statement] /\ tx \in [Workers -> Tx]
      /\ markets \in [Markets -> RowOf(Market)]
  BY <1>1, Holding, Typed DEF TablesTypedNow
<1>3. /\ pc[w] = "annul" /\ pc'[w] = "credit" /\ req' = req /\ stakes' = stakes
      /\ wallets' = wallets
  BY <1>2 DEF LockToCancel, Goto
<1>4. PICK n \in Markets : n = req[w].market
  BY <1>3, SettlesNow
<1>5. req[w].op = "annul"
  BY <1>3, SettlesNow
<1>6. PICK old \in Market : /\ old = markets[n].now /\ old = MarketFor(w, n)
                            /\ old.status \in Live
  <2>1. markets[n].now \in Market
    BY <1>2 DEF RowOf
  <2>2. markets[n].now.status \in Live
    BY <1>4 DEF LockToCancel, Live
  <2>. QED
    BY <1>3, <2>1, <2>2, SettlesNow
<1>7. PICK pool, held, value :
          /\ pool = [s \in Sides |-> 0] /\ held = [u \in Users |-> [s \in Sides |-> 0]]
          /\ value = [old EXCEPT !.status = "cancelled", !.pool = pool, !.held = held]
  BY Zenon
<1>8. value.status = "cancelled" /\ value.costs = old.costs
  BY <1>7 DEF Market
<1>9. markets' = [markets EXCEPT ![n] = Written(@, w, value)]
  BY <1>3, <1>4, <1>6, <1>7 DEF LockToCancel
<1>10. /\ Seen(markets[n], w)' = value /\ markets'[n].by = w /\ markets'[n].new = value
       /\ markets'[n].now = old /\ \A m \in Markets \ {n} : markets'[m] = markets[m]
  BY <1>2, <1>6, <1>9, MarketWritten
<1>11. PICK rows \in [StakeIds -> Stake] : rows = RowsSeen(w) /\ rows = RowsNow
  BY <1>1, <1>3, RowsTyped, SettlesNow
<1>12. PICK left : left = tx'[w].batch
  OBVIOUS
<1>13. tx'[w].batch = ToRefund(w, n)
  BY <1>2, <1>3, <1>4 DEF LockToCancel, Tx
<1>14. /\ Mechanism(n) = "parimutuel" => left = On(rows, n, Sides)
       /\ Mechanism(n) = "lmsr" => left = {u \in Users : old.costs[u] > 0}
  <2>1. StakesOn(n, Sides) = On(rows, n, Sides)
    BY <1>11 DEF StakesOn, On, RowsNow
  <2>. QED
    BY <1>6, <1>12, <1>13, <2>1 DEF ToRefund
<1>15. Timely(w)'
  <2>1. RowsNow' = rows
    BY <1>3, <1>11, SameStakes
  <2>2. Crediting(w)'
    BY <1>3, <1>4, <1>8, <1>10, <1>12, <1>14, <2>1 DEF Crediting
  <2>. QED
    BY <1>3, <1>5, <2>2 DEF Timely
<1>16. MarketFor(w, n)' = value
  BY <1>3, <1>10 DEF MarketFor, Dividing
<1>17. ToCome(w, n)' = IF Mechanism(n) = "fixed_odds" THEN {} ELSE left
  BY <1>3, <1>4, <1>12 DEF ToCome, Ending, Mechanism
<1>18. \A u \in Users : Square(Seen(wallets[u], w).ledger, old, rows, n, {}, u)
  <2>1. ToCome(w, n) = {}
    BY <1>3, SettlesNow
  <2>. QED
    BY <1>6, <1>11, <2>1 DEF SquareFor
<1>19. ASSUME NEW u \in Users
       PROVE  Square(Seen(wallets[u], w).ledger, value, rows, n, ToCome(w, n)', u)
  <2>1. PICK ledger \in [Line -> Nat] : ledger = Seen(wallets[u], w).ledger
    BY <1>1, RowsTyped
  <2>2. Square(ledger, old, rows, n, {}, u)
    BY <1>18, <2>1
  <2>3. CASE Mechanism(n) = "fixed_odds"
    <3>1. Square(ledger, value, rows, n, {}, u)
      BY <1>8, <2>2, <2>3, FixedStaysSquare
    <3>. QED
      BY <1>17, <2>1, <2>3, <3>1
  <2>4. CASE Mechanism(n) # "fixed_odds"
    <3>1. Mechanism(n) \in {"parimutuel", "lmsr"}
      BY <2>4, Batches
    <3>2. Square(ledger, value, rows, n, left, u)
      BY <1>6, <1>8, <1>14, <2>2, <3>1, EndsSquare
    <3>. QED
      BY <1>17, <2>1, <2>4, <3>2
  <2>. QED
    BY <2>3, <2>4
<1>20. \A u \in Users : Square(Seen(wallets[u], w).ledger, MarketFor(w, n)', RowsSeen(w), n,
                               ToCome(w, n)', u)
  BY <1>11, <1>16, <1>19
<1>. QED
  BY <1>1, <1>3, <1>4, <1>10, <1>15, <1>20, OneMarketEnds

LEMMA SettleFinished ==
    ASSUME NEW mix, PoolInv(mix), HouseHeld', NEW w \in Workers, FinishSettle(w), Timely(w),
           SquareFor(w)
    PROVE  Timely(w)' /\ SquareFor(w)'
<1>1. HouseHeld /\ MarketsHeld
  BY DEF PoolInv, MarketsHeld
<1>2. /\ pc \in [Workers -> Statement] /\ ServingOK(w) /\ req[w] \in Request \cup {NoRequest}
      /\ markets \in [Markets -> RowOf(Market)]
  BY <1>1, Holding, Typed DEF TablesTypedNow
<1>3. /\ pc[w] \in {"result", "share"} /\ tx[w].batch = {} /\ pc'[w] = "commit" /\ req' = req
      /\ stakes' = stakes /\ wallets' = wallets
  BY <1>2 DEF FinishSettle, Goto
<1>4. req[w].op = "settle"
  BY <1>2, <1>3 DEF ServingOK, OpsAt
<1>5. PICK n \in Markets, side \in Sides : n = req[w].market /\ side = req[w].outcome
  BY <1>2, <1>4, RequestForms
<1>6. Timely(w)'
  BY <1>3, <1>4 DEF Timely
<1>7. \A m \in Markets : ToCome(w, m) = {} /\ ToCome(w, m)' = {} /\ ~Dividing(w, m)'
  BY <1>3 DEF ToCome, Ending, Dividing
<1>8. \A m \in Markets \ {n} : markets'[m] = markets[m]
  BY <1>2, <1>5 DEF FinishSettle
<1>9. Standing(MarketFor(w, n))' = Standing(MarketFor(w, n))
  <2>1. CASE Mechanism(n) # "parimutuel"
    <3>1. markets' = markets
      BY <1>5, <2>1 DEF FinishSettle
    <3>. QED
      BY <1>3, <2>1, <3>1 DEF MarketFor, Dividing, IsPool, Standing, Seen
  <2>2. CASE Mechanism(n) = "parimutuel"
    <3>1. pc[w] = "share" /\ Dividing(w, n)
      BY <1>2, <1>3, <1>5, <2>2 DEF ServingOK, BatchOK, Dividing, Ending, IsPool
    <3>2. PICK old : old = markets[n].now /\ old = Seen(markets[n], w)
      BY <1>5, <2>2, <3>1 DEF Timely, Sharing, Seen
    <3>3. PICK value : value = [old EXCEPT !.status = "settled", !.outcome = side]
      OBVIOUS
    <3>4. markets' = [markets EXCEPT ![n] = Written(@, w, value)]
      BY <1>5, <2>2, <3>2, <3>3 DEF FinishSettle
    <3>5. Seen(markets[n], w)' = value
      BY <1>2, <3>4, MarketWritten
    <3>6. MarketFor(w, n) = value
      BY <1>5, <3>1, <3>2, <3>3 DEF MarketFor
    <3>. QED
      BY <1>7, <3>5, <3>6 DEF MarketFor, Standing
  <2>. QED
    BY <2>1, <2>2
<1> SUFFICES ASSUME NEW m \in Markets, NEW u \in Users
             PROVE  Square(Seen(wallets[u], w)'.ledger, MarketFor(w, m)', RowsSeen(w)', m,
                           ToCome(w, m)', u)
  BY <1>6 DEF SquareFor
<1>10. CASE m # n
  BY <1>1, <1>3, <1>5, <1>8, <1>10, LinesUnmoved, SquareElsewhere
<1>11. CASE m = n
  <2>1. Square(Seen(wallets[u], w).ledger, MarketFor(w, m), RowsSeen(w), m, ToCome(w, m), u)
    BY DEF SquareFor
  <2>. QED
    BY <1>1, <1>3, <1>7, <1>9, <1>11, <2>1, LinesUnmoved, SameStakes, SquareStays
<1>. QED
  BY <1>10, <1>11

\* A statement that only pays one line of its market has only that to answer for.
LEMMA OneMarketPays ==
    ASSUME NEW w \in Workers, HouseHeld, HouseHeld', SquareFor(w), NEW n \in Markets,
           n = req[w].market, req'[w] = req[w], stakes' = stakes, markets' = markets,
           NEW k, NEW type, NEW amount, Moves(w, k, type, n, amount),
           MarketFor(w, n)' = MarketFor(w, n),
           \A u \in Users :
               Square(Seen(wallets[u], w)'.ledger, MarketFor(w, n), RowsSeen(w), n,
                      ToCome(w, n)', u)
    PROVE  SquareFor(w)'
<1> SUFFICES ASSUME NEW m \in Markets, NEW u \in Users
             PROVE  Square(Seen(wallets[u], w)'.ledger, MarketFor(w, m)', RowsSeen(w)', m,
                           ToCome(w, m)', u)
  BY DEF SquareFor
<1>1. CASE m # n
  <2>1. SameLines(Seen(wallets[u], w).ledger, Seen(wallets[u], w)'.ledger, m)
    BY <1>1 DEF Moves
  <2>. QED
    BY <1>1, <2>1, SquareElsewhere
<1>2. CASE m = n
  BY <1>2, SameStakes
<1>. QED
  BY <1>1, <1>2

LEMMA NothingMoves ==
    ASSUME NEW w \in Workers, HouseHeld, wallets' = wallets, NEW k, NEW type, NEW n \in Markets
    PROVE  Moves(w, k, type, n, 0)
<1>1. \A u : Seen(wallets[u], w)' = Seen(wallets[u], w)
  BY DEF Seen
<1>2. \A u \in Users : \A t \in MarketTypes : Seen(wallets[u], w).ledger[Entry(t, n)] \in Nat
  BY MarketEntries, RowsTyped
<1>. QED
  BY <1>1, <1>2 DEF Moves, SameLines, Gains

LEMMA CreditMoves ==
    ASSUME NEW w \in Workers, HouseHeld, NEW k \in Users, NEW type, NEW n \in Markets,
           NEW amount \in Int,
           wallets' = [wallets EXCEPT ![k] =
                           Written(@, w, Credit(Seen(@, w), type, n, amount))]
    PROVE  Moves(w, k, type, n, amount)
<1>1. PICK wallet \in Wallet : wallet = Seen(wallets[k], w)
  BY RowsTyped
<1>2. PICK value : value = Credit(wallet, type, n, amount)
  OBVIOUS
<1>3. wallets' = [wallets EXCEPT ![k] = Written(@, w, value)]
  BY <1>1, <1>2
<1>4. value \in {Record(wallet, type, n, amount), Credit(wallet, type, n, amount),
                 Debit(wallet, type, n, amount)}
  BY <1>2
<1>5. Adds(wallet.ledger, value.ledger, type, n, amount)
  BY <1>4, EntryAdds
<1>. QED
  BY <1>1, <1>3, <1>5, LinePaid

\* One turn of a loop: whose share it is, which line it gets, and how much.
ShareTurn(w, k, amount) ==
    /\ k \in tx[w].batch /\ amount \in ShareAmounts(w, k)
    /\ Moves(w, ShareOwner(w, k), ShareLine(w), req[w].market, amount)
    /\ tx'[w].batch = tx[w].batch \ {k} /\ tx'[w].pool = tx[w].pool

LEMMA SharePaid ==
    ASSUME NEW w \in Workers, HouseHeld, PayShare(w)
    PROVE  /\ pc[w] = "share" /\ req[w].op = "settle" /\ req[w].market \in Markets
           /\ req[w].outcome \in Sides
           /\ Mechanism(req[w].market) \in {"parimutuel", "lmsr"}
           /\ pc' = pc /\ req' = req /\ stakes' = stakes /\ markets' = markets
           /\ \E k, amount : ShareTurn(w, k, amount)
<1>1. pc[w] = "share" /\ pc' = pc /\ req' = req /\ stakes' = stakes /\ markets' = markets
  BY DEF PayShare
<1>2. ServingOK(w) /\ tx \in [Workers -> Tx]
  BY Holding, Typed
<1>3. req[w].op = "settle"
  BY <1>1, <1>2 DEF ServingOK, OpsAt
<1>4. PICK n \in Markets : n = req[w].market /\ req[w].outcome \in Sides
  BY <1>3, Holding, Served
<1>5. Mechanism(n) \in {"parimutuel", "lmsr"}
  BY <1>1, <1>2, <1>4, Batches DEF ServingOK, BatchOK
<1>6. PICK k \in tx[w].batch : \E amount \in ShareAmounts(w, k) :
          LET u == ShareOwner(w, k)
              paid == Credit(Seen(wallets[u], w), ShareLine(w), req[w].market, amount)
          IN  /\ amount # 0 => Free(wallets[u], w)
              /\ wallets' = IF amount = 0 THEN wallets
                            ELSE [wallets EXCEPT ![u] = Written(@, w, paid)]
              /\ tx' = [tx EXCEPT ![w].batch = @ \ {k}]
  BY DEF PayShare
<1>7. PICK amount \in ShareAmounts(w, k) :
          LET u == ShareOwner(w, k)
              paid == Credit(Seen(wallets[u], w), ShareLine(w), req[w].market, amount)
          IN  /\ wallets' = IF amount = 0 THEN wallets
                            ELSE [wallets EXCEPT ![u] = Written(@, w, paid)]
              /\ tx' = [tx EXCEPT ![w].batch = @ \ {k}]
  BY <1>6
<1>8. ShareOwner(w, k) \in Users /\ amount \in Nat
  BY <1>1, <1>6, <1>7, Holding, SharesTyped
<1>9. PICK u \in Users : u = ShareOwner(w, k)
  BY <1>8
<1>14. PICK type : type = ShareLine(w)
  OBVIOUS
<1>10. Moves(w, u, type, n, amount)
  <2>1. CASE amount = 0
    BY <1>7, <2>1, NothingMoves
  <2>2. CASE amount # 0
    <3>1. wallets' = [wallets EXCEPT ![u] = Written(@, w, Credit(Seen(@, w), type, n, amount))]
      BY <1>4, <1>7, <1>9, <1>14, <2>2
    <3>2. amount \in Int
      BY <1>8
    <3>. QED
      BY <3>1, <3>2, CreditMoves
  <2>. QED
    BY <2>1, <2>2
<1>11. tx'[w].batch = tx[w].batch \ {k} /\ tx'[w].pool = tx[w].pool
  BY <1>2, <1>7 DEF Tx
<1>12. ShareTurn(w, k, amount)
  BY <1>4, <1>6, <1>7, <1>9, <1>14, <1>10, <1>11 DEF ShareTurn
<1>. QED
  BY <1>1, <1>3, <1>4, <1>5, <1>12

LEMMA ShareTimely ==
    ASSUME NEW w \in Workers, pc[w] = "share", req[w].op = "settle", pc' = pc, req' = req,
           stakes' = stakes, markets' = markets, Timely(w), NEW k, NEW amount,
           ShareTurn(w, k, amount)
    PROVE  Timely(w)'
<1>1. tx'[w].batch = tx[w].batch \ {k} /\ tx'[w].pool = tx[w].pool
  BY DEF ShareTurn
<1>2. RowsNow' = RowsNow
  BY SameStakes
<1>3. PoolKnown(w)' <=> PoolKnown(w)
  BY <1>1, <1>2 DEF PoolKnown
<1>4. Sharing(w)
  BY DEF Timely
<1>5. Sharing(w)'
  <2>1. CASE Mechanism(req[w].market) = "lmsr"
    BY <1>4, <2>1 DEF Sharing
  <2>2. CASE Mechanism(req[w].market) # "lmsr"
    BY <1>1, <1>2, <1>3, <1>4, <2>2 DEF Sharing
  <2>. QED
    BY <2>1, <2>2
<1>. QED
  BY <1>5 DEF Timely

\* A holder of winning contracts is paid.
LEMMA HolderTurn ==
    ASSUME NEW w \in Workers, HouseHeld, HouseHeld', SquareFor(w), Timely(w), pc[w] = "share",
           pc' = pc, req' = req, stakes' = stakes, markets' = markets, NEW n \in Markets,
           n = req[w].market, Mechanism(n) = "lmsr", NEW k, NEW amount,
           ShareTurn(w, k, amount)
    PROVE  SquareFor(w)'
<1>1. /\ k \in tx[w].batch /\ amount \in ShareAmounts(w, k)
      /\ Moves(w, ShareOwner(w, k), ShareLine(w), n, amount) /\ tx'[w].batch = tx[w].batch \ {k}
  BY DEF ShareTurn
<1>2. PICK market \in Market : market = Seen(markets[n], w)
  BY RowsTyped
<1>3. market.status = "settled" /\ market.outcome = req[w].outcome
  BY <1>2 DEF Timely, Sharing, Seen
<1>4. /\ ShareOwner(w, k) = k /\ ShareLine(w) = "SETTLEMENT_WIN"
      /\ amount = 100 * market.held[k][market.outcome]
  BY <1>1, <1>2, <1>3 DEF ShareOwner, ShareLine, ShareAmounts
<1>5. amount \in Int /\ k \in Users
  BY <1>1, <1>4, Holding, SharesTyped
<1>6. MarketFor(w, n) = market /\ MarketFor(w, n)' = MarketFor(w, n)
  BY <1>2 DEF MarketFor, Dividing, Ending, IsPool, Seen
<1>7. ToCome(w, n) = tx[w].batch /\ ToCome(w, n)' = tx[w].batch \ {k}
  BY <1>1 DEF ToCome, Ending
<1>8. ASSUME NEW u \in Users
      PROVE  Square(Seen(wallets[u], w)'.ledger, market, RowsSeen(w), n, tx[w].batch \ {k}, u)
  <2>1. PICK old \in [Line -> Nat] : old = Seen(wallets[u], w).ledger
    BY RowsTyped
  <2>2. PICK new, rows : new = Seen(wallets[u], w)'.ledger /\ rows = RowsSeen(w)
    OBVIOUS
  <2>3. PICK left : left = tx[w].batch
    OBVIOUS
  <2>4. Square(old, market, rows, n, left, u)
    BY <1>6, <1>7, <2>1, <2>2, <2>3 DEF SquareFor
  <2>5. Gains(old, new, n, "SETTLEMENT_WIN", IF u = k THEN amount ELSE 0)
    BY <1>1, <1>4, <2>1, <2>2 DEF Moves
  <2>6. k \in left
    BY <1>1, <2>3
  <2>7. Square(old, market, rows, n, left, u) => Square(new, market, rows, n, left \ {k}, u)
    BY <1>3, <1>4, <1>5, <2>5, <2>6, HolderPaid
  <2>. QED
    BY <2>1, <2>2, <2>3, <2>4, <2>7
<1>. QED
  BY <1>1, <1>6, <1>7, <1>8, OneMarketPays

\* An entry of a pool gets its share of what is left, or is paid back.
LEMMA EntryTurn ==
    ASSUME NEW w \in Workers, HouseHeld, HouseHeld', SquareFor(w), Timely(w), pc[w] = "share",
           pc' = pc, req' = req, stakes' = stakes, markets' = markets, NEW n \in Markets,
           n = req[w].market, Mechanism(n) = "parimutuel", RowsSeen(w) = RowsNow,
           NEW side \in Sides, side = req[w].outcome, NEW k, NEW amount,
           ShareTurn(w, k, amount)
    PROVE  SquareFor(w)'
<1>1. /\ k \in tx[w].batch /\ amount \in ShareAmounts(w, k)
      /\ Moves(w, ShareOwner(w, k), ShareLine(w), n, amount) /\ tx'[w].batch = tx[w].batch \ {k}
  BY DEF ShareTurn
<1>2. PICK rows \in [StakeIds -> Stake] : rows = RowsNow
  BY RowsTyped
<1>3. PICK pool \in [Sides -> Nat] : pool = tx[w].pool
  BY Holding, Served
<1>4. \A s \in Sides : pool[s] = TotalOf(rows, n, s)
  BY <1>2, <1>3 DEF Timely, Sharing, PoolKnown
<1>5. tx[w].batch \subseteq On(rows, n, IF pool[side] = 0 THEN Sides ELSE {side})
  BY <1>2, <1>3 DEF Timely, Sharing
<1>6. k \in StakeIds /\ rows[k] = stakes[k].now
  BY <1>1, <1>2, <1>5 DEF On, RowsNow
<1>7. /\ ShareOwner(w, k) = rows[k].user
      /\ ShareLine(w) = IF pool[side] = 0 THEN "PARIMUTUEL_REFUND" ELSE "SETTLEMENT_WIN"
  BY <1>3, <1>6 DEF ShareOwner, ShareLine
<1>8. /\ pool[side] = 0 => amount = rows[k].amount
      /\ pool[side] # 0 => amount \in PoolShares(n, pool, side, rows[k].amount)
  BY <1>1, <1>3, <1>6 DEF ShareAmounts
<1>9. PICK market : market = MarketFor(w, n)
  OBVIOUS
<1>10. market.status = "settled" /\ market.outcome = side
  <2>1. Dividing(w, n) /\ Seen(markets[n], w) \in Market
    BY RowsTyped DEF Dividing, Ending, IsPool
  <2>. QED
    BY <1>9, <2>1 DEF MarketFor, Market
<1>11. MarketFor(w, n)' = MarketFor(w, n)
  BY DEF MarketFor, Dividing, Ending, IsPool, Seen
<1>12. ToCome(w, n) = tx[w].batch /\ ToCome(w, n)' = tx[w].batch \ {k}
  BY <1>1 DEF ToCome, Ending
<1>13. ASSUME NEW u \in Users
       PROVE  Square(Seen(wallets[u], w)'.ledger, MarketFor(w, n), RowsSeen(w), n,
                     tx[w].batch \ {k}, u)
  <2>1. PICK old \in [Line -> Nat] : old = Seen(wallets[u], w).ledger
    BY RowsTyped
  <2>2. PICK new, left : new = Seen(wallets[u], w)'.ledger /\ left = tx[w].batch
    OBVIOUS
  <2>3. PICK type : type = ShareLine(w)
    OBVIOUS
  <2>4. Square(old, market, rows, n, left, u)
    BY <1>2, <1>9, <1>12, <2>1, <2>2 DEF SquareFor
  <2>5. Gains(old, new, n, type, IF rows[k].user = u THEN amount ELSE 0)
    BY <1>1, <1>7, <2>1, <2>2, <2>3 DEF Moves
  <2>6. k \in left /\ k \in On(rows, n, IF pool[side] = 0 THEN Sides ELSE {side})
    BY <1>1, <1>5, <2>2
  <2>7. \/ /\ pool[side] = 0 /\ k \in On(rows, n, Sides)
           /\ type = "PARIMUTUEL_REFUND" /\ amount = rows[k].amount
        \/ /\ pool[side] # 0 /\ k \in On(rows, n, {side})
           /\ type = "SETTLEMENT_WIN" /\ amount \in PoolShares(n, pool, side, rows[k].amount)
    BY <1>7, <1>8, <2>3, <2>6
  <2>8. Square(new, market, rows, n, left \ {k}, u)
    BY <1>4, <1>10, <2>4, <2>5, <2>6, <2>7, ShareOfPool
  <2>. QED
    BY <1>2, <1>9, <2>2, <2>8
<1>14. PICK owner, line : owner = ShareOwner(w, k) /\ line = ShareLine(w)
  OBVIOUS
<1>15. Moves(w, owner, line, n, amount)
  BY <1>1, <1>14
<1>16. \A u \in Users :
           Square(Seen(wallets[u], w)'.ledger, MarketFor(w, n), RowsSeen(w), n, ToCome(w, n)', u)
  BY <1>12, <1>13
<1>. QED
  BY <1>11, <1>15, <1>16, OneMarketPays

LEMMA ShareEnds ==
    ASSUME NEW mix, PoolInv(mix), HouseHeld', NEW w \in Workers, PayShare(w), Timely(w),
           SquareFor(w)
    PROVE  Timely(w)' /\ SquareFor(w)'
<1>1. HouseHeld /\ StakeOK(w)
  BY DEF PoolInv, MarketsHeld
<1>2. PICK n \in Markets, side \in Sides : n = req[w].market /\ side = req[w].outcome
  BY <1>1, SharePaid
<1>3. /\ pc[w] = "share" /\ req[w].op = "settle" /\ Mechanism(n) \in {"parimutuel", "lmsr"}
      /\ pc' = pc /\ req' = req /\ stakes' = stakes /\ markets' = markets
  BY <1>1, <1>2, SharePaid
<1>4. PICK k, amount : ShareTurn(w, k, amount)
  BY <1>1, SharePaid
<1>5. RowsSeen(w) = RowsNow
  BY <1>1, <1>3, StakesSeen
<1>6. Timely(w)'
  BY <1>3, <1>4, ShareTimely
<1>7. CASE Mechanism(n) = "lmsr"
  BY <1>1, <1>2, <1>3, <1>4, <1>6, <1>7, HolderTurn
<1>8. CASE Mechanism(n) = "parimutuel"
  BY <1>1, <1>2, <1>3, <1>4, <1>5, <1>6, <1>8, EntryTurn
<1>. QED
  BY <1>3, <1>7, <1>8

\* One turn of the loop that pays back: to whom, and how much.
CreditTurn(w, k, u, amount) ==
    /\ k \in tx[w].batch
    /\ Moves(w, u, "MARKET_CANCEL_REFUND", req[w].market, amount)
    /\ tx'[w].batch = tx[w].batch \ {k}
    /\ IsPool(req[w].market) => u = stakes[k].now.user /\ amount = stakes[k].now.amount
    /\ ~IsPool(req[w].market) => u = k /\ amount = markets[req[w].market].now.costs[k]

LEMMA CreditPaid ==
    ASSUME NEW w \in Workers, HouseHeld, CreditPool(w)
    PROVE  /\ pc[w] = "credit" /\ req[w].op = "annul" /\ req[w].market \in Markets
           /\ Mechanism(req[w].market) \in {"parimutuel", "lmsr"}
           /\ tx[w].batch \subseteq (IF IsPool(req[w].market) THEN StakeIds ELSE Users)
           /\ pc' = pc /\ req' = req /\ stakes' = stakes /\ markets' = markets
           /\ \E k, u, amount : u \in Users /\ amount \in Nat /\ CreditTurn(w, k, u, amount)
<1>1. pc[w] = "credit" /\ pc' = pc /\ req' = req /\ stakes' = stakes /\ markets' = markets
  BY DEF CreditPool
<1>2. ServingOK(w) /\ tx \in [Workers -> Tx] /\ TablesTypedNow
  BY Holding, Typed
<1>3. req[w].op = "annul"
  BY <1>1, <1>2 DEF ServingOK, OpsAt
<1>4. PICK n \in Markets : n = req[w].market
  BY <1>3, Holding, Served
<1>5. Mechanism(n) \in {"parimutuel", "lmsr"}
  BY <1>4, Batches DEF CreditPool
<1>6. tx[w].batch \subseteq (IF IsPool(n) THEN StakeIds ELSE Users)
  BY <1>1, <1>2, <1>4, <1>5 DEF ServingOK, BatchOK, IsPool
<1>7. PICK k \in tx[w].batch :
          LET u == IF IsPool(n) THEN stakes[k].now.user ELSE k
              amount == IF IsPool(n) THEN stakes[k].now.amount ELSE markets[n].now.costs[k]
          IN  /\ wallets' = [wallets EXCEPT ![u] =
                     Written(@, w, Credit(Seen(@, w), "MARKET_CANCEL_REFUND", n, amount))]
              /\ tx' = [tx EXCEPT ![w].batch = @ \ {k}]
  BY <1>4, Zenon DEF CreditPool, IsPool
<1>8. PICK u : u = IF IsPool(n) THEN stakes[k].now.user ELSE k
  OBVIOUS
<1>9. PICK amount : amount = IF IsPool(n) THEN stakes[k].now.amount ELSE markets[n].now.costs[k]
  OBVIOUS
<1>10. u \in Users /\ amount \in Nat
  <2>1. CASE IsPool(n)
    <3>1. k \in StakeIds
      BY <1>6, <2>1
    <3>2. stakes[k].now \in Stake
      BY <1>2, <3>1 DEF TablesTypedNow, RowOf
    <3>. QED
      BY <1>8, <1>9, <2>1, <3>2 DEF Stake
  <2>2. CASE ~IsPool(n)
    <3>1. k \in Users
      BY <1>6, <2>2
    <3>2. markets[n].now \in Market
      BY RowsTyped
    <3>. QED
      BY <1>8, <1>9, <2>2, <3>1, <3>2 DEF Market
  <2>. QED
    BY <2>1, <2>2
<1>11. amount \in Int
  BY <1>10
<1>12. wallets' = [wallets EXCEPT ![u] =
              Written(@, w, Credit(Seen(@, w), "MARKET_CANCEL_REFUND", n, amount))]
  BY <1>7, <1>8, <1>9
<1>13. Moves(w, u, "MARKET_CANCEL_REFUND", n, amount)
  BY <1>10, <1>11, <1>12, CreditMoves
<1>14. tx'[w].batch = tx[w].batch \ {k}
  BY <1>2, <1>7 DEF Tx
<1>15. CreditTurn(w, k, u, amount)
  BY <1>4, <1>7, <1>8, <1>9, <1>13, <1>14, Zenon DEF CreditTurn
<1>. QED
  BY <1>1, <1>3, <1>4, <1>5, <1>6, <1>10, <1>15

LEMMA CreditEnds ==
    ASSUME NEW mix, PoolInv(mix), HouseHeld', NEW w \in Workers, CreditPool(w), Timely(w),
           SquareFor(w)
    PROVE  Timely(w)' /\ SquareFor(w)'
<1>1. HouseHeld /\ StakeOK(w)
  BY DEF PoolInv, MarketsHeld
<1>2. PICK n \in Markets : n = req[w].market
  BY <1>1, CreditPaid
<1>3. /\ pc[w] = "credit" /\ req[w].op = "annul" /\ Mechanism(n) \in {"parimutuel", "lmsr"}
      /\ tx[w].batch \subseteq (IF IsPool(n) THEN StakeIds ELSE Users)
      /\ pc' = pc /\ req' = req /\ stakes' = stakes /\ markets' = markets
  BY <1>1, <1>2, CreditPaid
<1>4. PICK k, u0, amount : u0 \in Users /\ amount \in Nat /\ CreditTurn(w, k, u0, amount)
  BY <1>1, CreditPaid
<1>5. RowsSeen(w) = RowsNow /\ RowsNow' = RowsNow
  BY <1>1, <1>3, StakesSeen, SameStakes
<1>6. k \in tx[w].batch /\ tx'[w].batch = tx[w].batch \ {k}
  BY <1>4 DEF CreditTurn
<1>7. Crediting(w)
  BY <1>3 DEF Timely
<1>8. Crediting(w)'
  BY <1>3, <1>5, <1>6, <1>7 DEF Crediting
<1>9. Timely(w)'
  BY <1>3, <1>8 DEF Timely
<1>10. PICK market \in Market : market = Seen(markets[n], w)
  BY <1>1, RowsTyped
<1>11. market.status = "cancelled" /\ market.costs = markets[n].now.costs
  BY <1>2, <1>3, <1>7, <1>10 DEF Crediting, Seen
<1>12. MarketFor(w, n) = market /\ MarketFor(w, n)' = MarketFor(w, n)
  BY <1>3, <1>10 DEF MarketFor, Dividing, Ending, IsPool, Seen
<1>13. ToCome(w, n) = tx[w].batch /\ ToCome(w, n)' = tx[w].batch \ {k}
  BY <1>2, <1>3, <1>6 DEF ToCome, Ending
<1>14. PICK rows \in [StakeIds -> Stake] : rows = RowsSeen(w)
  BY <1>1, RowsTyped
<1>15. Moves(w, u0, "MARKET_CANCEL_REFUND", n, amount)
  BY <1>2, <1>4 DEF CreditTurn
<1>16. ASSUME NEW u \in Users
       PROVE  Square(Seen(wallets[u], w)'.ledger, market, rows, n, tx[w].batch \ {k}, u)
  <2>1. PICK old \in [Line -> Nat] : old = Seen(wallets[u], w).ledger
    BY <1>1, RowsTyped
  <2>2. PICK new, left : new = Seen(wallets[u], w)'.ledger /\ left = tx[w].batch
    OBVIOUS
  <2>3. Square(old, market, rows, n, left, u) /\ k \in left
    BY <1>6, <1>12, <1>13, <1>14, <2>1, <2>2 DEF SquareFor
  <2>4. Gains(old, new, n, "MARKET_CANCEL_REFUND", IF u = u0 THEN amount ELSE 0)
    BY <1>15, <2>1, <2>2 DEF Moves
  <2>5. CASE Mechanism(n) = "lmsr"
    <3>1. u0 = k /\ amount = market.costs[k]
      BY <1>2, <1>4, <1>11, <2>5 DEF CreditTurn, IsPool
    <3>2. amount \in Int
      BY <1>4
    <3>3. Gains(old, new, n, "MARKET_CANCEL_REFUND", IF u = k THEN amount ELSE 0)
      BY <2>4, <3>1
    <3>4. Square(new, market, rows, n, left \ {k}, u)
      BY <1>11, <2>3, <2>5, <3>1, <3>2, <3>3, HolderPaid
    <3>. QED
      BY <2>2, <3>4
  <2>6. CASE Mechanism(n) = "parimutuel"
    <3>1. k \in On(rows, n, Sides)
      BY <1>2, <1>5, <1>6, <1>7, <1>14, <2>6 DEF Crediting
    <3>2. k \in StakeIds /\ rows[k] = stakes[k].now
      BY <1>5, <1>14, <3>1 DEF On, RowsNow
    <3>3. u0 = rows[k].user /\ amount = rows[k].amount
      BY <1>2, <1>4, <2>6, <3>2 DEF CreditTurn, IsPool
    <3>4. Gains(old, new, n, "MARKET_CANCEL_REFUND",
                IF rows[k].user = u THEN rows[k].amount ELSE 0)
      BY <2>4, <3>3
    <3>5. Square(new, market, rows, n, left \ {k}, u)
      BY <1>11, <2>3, <2>6, <3>1, <3>4, StakePaidBack
    <3>. QED
      BY <2>2, <3>5
  <2>. QED
    BY <1>3, <2>5, <2>6
<1>17. ASSUME NEW u \in Users
       PROVE  Square(Seen(wallets[u], w)'.ledger, MarketFor(w, n), RowsSeen(w), n,
                     ToCome(w, n)', u)
  BY <1>12, <1>13, <1>14, <1>16
<1>18. SquareFor(w)'
  BY <1>1, <1>2, <1>3, <1>12, <1>15, <1>17, OneMarketPays
<1>. QED
  BY <1>9, <1>18

\* Every statement of a worker that is alone leaves what it sees square.
LEMMA StatementKeepsSquare ==
    ASSUME NEW mix, EndsStand(mix), PoolInv(mix), HouseHeld', NEW w \in Workers, WorkerStep(w),
           ~Rollback(w), Timely(w), SquareFor(w)
    PROVE  Timely(w)' /\ SquareFor(w)'
<1>1. MarketsHeld
  BY DEF PoolInv
<1>2. CASE BankStake(w)
  BY <1>2, BankStakeTimely, BankStakeSquare
<1>3. CASE PayTrade(w)
  BY <1>3, PayTradeTimely, PayTradeSquare
<1>4. CASE WritePatch(w)
  BY <1>4, PatchSquare
<1>5. CASE Decide(w)
  BY <1>5, DecideEnds
<1>6. CASE Divide(w)
  BY <1>6, DivideEnds
<1>7. CASE PayShare(w)
  BY <1>7, ShareEnds
<1>8. CASE FinishSettle(w)
  BY <1>8, SettleFinished
<1>9. CASE LockToCancel(w)
  BY <1>9, CancelEnds
<1>10. CASE CreditPool(w)
  BY <1>10, CreditEnds
<1>11. CASE QuietStep(w)
  BY <1>1, <1>11, QuietTimely, QuietSquare
<1>. QED
  BY <1>2, <1>3, <1>4, <1>5, <1>6, <1>7, <1>8, <1>9, <1>10, <1>11 DEF QuietStep

\* What is committed is square as long as nothing is committed.
LEMMA SameNow ==
    ASSUME SquareNow, \A u \in Users : wallets'[u].now = wallets[u].now,
           \A m \in Markets : markets'[m].now = markets[m].now,
           \A i \in StakeIds : stakes'[i].now = stakes[i].now
    PROVE  SquareNow' /\ RowsNow' = RowsNow
<1>1. RowsNow' = RowsNow
  BY DEF RowsNow
<1>. QED
  BY <1>1 DEF SquareNow

LEMMA StatementKeepsNow ==
    ASSUME NEW w \in Workers, HouseHeld, WorkerStep(w), ~Rollback(w), SquareNow
    PROVE  SquareNow' /\ load' = load
<1>1. OwnStep(w) /\ OwnRows(stakes, stakes', w)
  BY WorkersOwn, StakeRowsOwn
<1>2. /\ wallets \in [Users -> RowOf(Wallet)] /\ markets \in [Markets -> RowOf(Market)]
      /\ stakes \in [StakeIds -> RowOf(Stake)]
  BY Holding, Typed DEF TablesTypedNow
<1>3. /\ \A u \in Users : wallets'[u].now = wallets[u].now
      /\ \A m \in Markets : markets'[m].now = markets[m].now
      /\ \A i \in StakeIds : stakes'[i].now = stakes[i].now
  BY <1>1, <1>2 DEF OwnStep, OwnRows
<1>. QED
  BY <1>1, <1>3, SameNow DEF OwnStep

\* A worker that has no request has nothing to be in time for, and nothing to come.
LEMMA IdleTimely ==
    ASSUME NEW w, pc[w] = "idle", req[w] = NoRequest
    PROVE  Timely(w) /\ \A m \in Markets : ToCome(w, m) = {} /\ MarketFor(w, m) = Seen(markets[m], w)
  BY DEF Timely, ToCome, MarketFor, Dividing, Ending, NoRequest

\* A rollback takes what the worker sees back to what is committed, and a commit is the
\* other way round.
LEMMA EndIsSquare ==
    ASSUME NEW w \in Workers, HouseHeld, Rollback(w) \/ Commit(w), SquareNow, SquareFor(w)
    PROVE  SquareNow' /\ Timely(w)' /\ SquareFor(w)'
<1>1. /\ wallets \in [Users -> RowOf(Wallet)] /\ markets \in [Markets -> RowOf(Market)]
      /\ stakes \in [StakeIds -> RowOf(Stake)] /\ pc \in [Workers -> Statement]
      /\ req \in [Workers -> Request \cup {NoRequest}]
  BY Holding, Typed DEF TablesTypedNow
<1>2. pc'[w] = "idle" /\ req'[w] = NoRequest
  BY <1>1 DEF Rollback, Commit, EndRequest, Goto
<1>3. Timely(w)' /\ \A m \in Markets : ToCome(w, m)' = {} /\ MarketFor(w, m)' = Seen(markets[m], w)'
  BY <1>2 DEF Timely, ToCome, MarketFor, Dividing, Ending, NoRequest
<1>4. /\ wallets' \in {Published(wallets, w), Discarded(wallets, w)}
      /\ markets' \in {Published(markets, w), Discarded(markets, w)}
      /\ stakes' \in {Published(stakes, w), Discarded(stakes, w)}
  BY DEF Rollback, Commit
<1>5. /\ \A u \in Users : Seen(wallets'[u], w) = wallets'[u].now
      /\ \A m \in Markets : Seen(markets'[m], w) = markets'[m].now
      /\ \A i \in StakeIds : Seen(stakes'[i], w) = stakes'[i].now
  BY <1>1, <1>4, RowsEnd
<1>6. RowsSeen(w)' = RowsNow'
  BY <1>5 DEF RowsSeen, RowsNow
<1>7. SquareNow' => SquareFor(w)'
  BY <1>3, <1>5, <1>6 DEF SquareNow, SquareFor
<1>8. CASE Rollback(w)
  <2>1. /\ wallets' = Discarded(wallets, w) /\ markets' = Discarded(markets, w)
        /\ stakes' = Discarded(stakes, w)
    BY <1>8 DEF Rollback
  <2>2. /\ \A u \in Users : wallets'[u].now = wallets[u].now
        /\ \A m \in Markets : markets'[m].now = markets[m].now
        /\ \A i \in StakeIds : stakes'[i].now = stakes[i].now
    BY <1>1, <2>1, RowsEnd
  <2>. QED
    BY <1>3, <1>7, <2>2, SameNow
<1>9. CASE Commit(w)
  <2>1. /\ wallets' = Published(wallets, w) /\ markets' = Published(markets, w)
        /\ stakes' = Published(stakes, w) /\ pc[w] = "commit"
    BY <1>9 DEF Commit
  <2>2. /\ \A u \in Users : wallets'[u].now = Seen(wallets[u], w)
        /\ \A m \in Markets : markets'[m].now = Seen(markets[m], w)
        /\ \A i \in StakeIds : stakes'[i].now = Seen(stakes[i], w)
    BY <1>1, <2>1, RowsEnd
  <2>3. \A m \in Markets : ToCome(w, m) = {} /\ MarketFor(w, m) = Seen(markets[m], w)
    BY <2>1 DEF ToCome, MarketFor, Dividing, Ending
  <2>4. RowsNow' = RowsSeen(w)
    BY <2>2 DEF RowsNow, RowsSeen
  <2>5. SquareNow'
    BY <2>2, <2>3, <2>4 DEF SquareNow, SquareFor
  <2>. QED
    BY <1>3, <1>7, <2>5
<1>. QED
  BY <1>8, <1>9

\* The job closes an open market: it stays one that is not decided.
LEMMA MarketCloses ==
    ASSUME HouseHeld, NEW k \in Markets, CloseMarket(k)
    PROVE  /\ UNCHANGED <<wallets, stakes, load, pc, req, tx>>
           /\ \A m \in Markets \ {k} : markets'[m] = markets[m]
           /\ markets[k].by = Nobody /\ markets'[k].by = Nobody
           /\ markets[k].now.status = "open" /\ markets'[k].now.status = "closed"
           /\ markets'[k].new = markets'[k].now
           /\ markets'[k].now.costs = markets[k].now.costs
           /\ markets'[k].now.held = markets[k].now.held
           /\ markets'[k].now.shares = markets[k].now.shares
<1>1. markets \in [Markets -> RowOf(Market)]
  BY DEF HouseHeld, HouseTyped, TypeOK
<1>2. PICK old \in Market : old = markets[k].now
  BY RowsTyped, <1>1 DEF RowOf
<1>3. PICK value : value = [old EXCEPT !.status = "closed"]
  OBVIOUS
<1>4. /\ value.status = "closed" /\ value.costs = old.costs /\ value.held = old.held
      /\ value.shares = old.shares
  BY <1>3 DEF Market
<1>5. markets' = [markets EXCEPT ![k] = Fresh(value)]
  BY <1>2, <1>3 DEF CloseMarket
<1>6. markets'[k].now = value /\ markets'[k].new = value /\ markets'[k].by = Nobody
  BY <1>1, <1>5 DEF Fresh
<1>7. \A m \in Markets \ {k} : markets'[m] = markets[m]
  BY <1>1, <1>5
<1>. QED
  BY <1>2, <1>4, <1>6, <1>7 DEF CloseMarket

LEMMA CloseTimely ==
    ASSUME HouseHeld, NEW k \in Markets, CloseMarket(k), NEW w \in Workers, Timely(w)
    PROVE  Timely(w)'
<1>1. /\ UNCHANGED <<wallets, stakes, load, pc, req, tx>>
      /\ \A m \in Markets \ {k} : markets'[m] = markets[m]
      /\ markets[k].by = Nobody /\ markets'[k].by = Nobody
      /\ markets[k].now.status = "open" /\ markets'[k].now.status = "closed"
      /\ markets'[k].new = markets'[k].now
  BY MarketCloses
<1>2. w # Nobody
  BY NobodyAssumption
<1>3. RowsNow' = RowsNow
  BY <1>1 DEF RowsNow
<1>4. PoolKnown(w)' <=> PoolKnown(w)
  BY <1>1, <1>3 DEF PoolKnown
<1>5. ServingOK(w) /\ req[w] \in Request \cup {NoRequest}
  BY Holding, Typed
<1>6. req[w].op \in {"stake", "trade", "settle", "annul"} => req[w].market \in Markets
  BY <1>5, RequestForms
<1>7. /\ pc[w] \in {"decide", "divide", "share"} => req[w].op = "settle"
      /\ pc[w] = "credit" => req[w].op = "annul"
  BY <1>5 DEF ServingOK, OpsAt
<1>8. CASE req[w].market = k
  <2>1. Seen(markets[k], w)' = markets'[k].now
    BY <1>1, <1>2 DEF Seen
  <2>2. pc[w] = "credit" => Mechanism(k) = "fixed_odds"
    BY <1>1, <1>2, <1>8 DEF Timely, Crediting
  <2>3. pc[w] = "share" => Sharing(w)'
    BY <1>1, <1>2, <1>3, <1>4, <1>8 DEF Timely, Sharing, Live
  <2>4. pc[w] = "credit" => Crediting(w)'
    BY <1>1, <1>8, <2>2 DEF Crediting
  <2>. QED
    BY <1>1, <1>4, <1>8, <2>1, <2>3, <2>4 DEF Timely, Live
<1>9. CASE req[w].market # k
  <2>1. req[w].op \in {"stake", "trade", "settle", "annul"} =>
            markets'[req[w].market] = markets[req[w].market]
    BY <1>1, <1>6, <1>9
  <2>2. pc[w] = "share" => Sharing(w)'
    BY <1>1, <1>3, <1>4, <1>7, <2>1 DEF Timely, Sharing
  <2>3. pc[w] = "credit" => Crediting(w)'
    BY <1>1, <1>3, <1>7, <2>1 DEF Timely, Crediting
  <2>. QED
    BY <1>1, <1>4, <1>7, <2>1, <2>2, <2>3 DEF Timely, Seen
<1>. QED
  BY <1>8, <1>9

LEMMA CloseNow ==
    ASSUME HouseHeld, NEW k \in Markets, CloseMarket(k), SquareNow
    PROVE  SquareNow'
<1>1. /\ UNCHANGED <<wallets, stakes, load, pc, req, tx>>
      /\ \A m \in Markets \ {k} : markets'[m] = markets[m]
      /\ markets[k].now.status = "open" /\ markets'[k].now.status = "closed"
      /\ markets'[k].now.costs = markets[k].now.costs
  BY MarketCloses
<1>2. RowsNow' = RowsNow /\ RowsNow \in [StakeIds -> Stake]
  BY <1>1 DEF RowsNow, HouseHeld, HouseTyped, TypeOK, RowOf
<1>3. \A rows, m : SameOn(rows, rows, m)
  BY DEF SameOn
<1>4. \A ledger, m : SameLines(ledger, ledger, m)
  BY DEF SameLines
<1>5. "open" \in Live /\ "closed" \in Live
  BY DEF Live
<1> SUFFICES ASSUME NEW m \in Markets, NEW u \in Users
             PROVE  Square(wallets'[u].now.ledger, markets'[m].now, RowsNow', m, {}, u)
  BY DEF SquareNow
<1>6. Square(wallets[u].now.ledger, markets[m].now, RowsNow, m, {}, u)
  BY DEF SquareNow
<1>7. CASE m = k
  <2>1. PICK ledger, old, new : /\ ledger = wallets[u].now.ledger
                                /\ old = markets[k].now /\ new = markets'[k].now
    OBVIOUS
  <2>2. old.status \in Live /\ new.status \in Live /\ new.costs[u] = old.costs[u]
    BY <1>1, <1>5, <2>1
  <2>3. PICK rows \in [StakeIds -> Stake] : rows = RowsNow
    BY <1>2
  <2>4. Square(ledger, old, rows, k, {}, u)
    BY <1>6, <1>7, <2>1, <2>3
  <2>5. Square(ledger, new, rows, k, {}, u)
    BY <1>3, <1>4, <2>2, <2>4, StillSquare
  <2>. QED
    BY <1>1, <1>2, <1>7, <2>1, <2>3, <2>5
<1>8. CASE m # k
  BY <1>1, <1>2, <1>6, <1>8
<1>. QED
  BY <1>7, <1>8

LEMMA CloseSquare ==
    ASSUME HouseHeld, HouseHeld', NEW k \in Markets, CloseMarket(k), NEW w \in Workers
    PROVE  SquareFor(w) => SquareFor(w)'
<1>1. /\ UNCHANGED <<wallets, stakes, load, pc, req, tx>>
      /\ \A m \in Markets \ {k} : markets'[m] = markets[m]
      /\ markets[k].by = Nobody /\ markets'[k].by = Nobody
      /\ markets[k].now.status = "open" /\ markets'[k].now.status = "closed"
      /\ markets'[k].now.costs = markets[k].now.costs
  BY MarketCloses
<1>2. w # Nobody
  BY NobodyAssumption
<1>3. RowsNow' = RowsNow /\ RowsSeen(w)' = RowsSeen(w)
  BY <1>1, SameStakes
<1>4. \A rows, m : SameOn(rows, rows, m)
  BY DEF SameOn
<1>5. \A ledger, m : SameLines(ledger, ledger, m)
  BY DEF SameLines
<1>6. "open" \in Live /\ "closed" \in Live
  BY DEF Live
<1>7. \A rows \in [StakeIds -> Stake] : \A u \in Users : \A ledger, old, value, left :
          /\ old.status \in Live /\ value.status \in Live /\ value.costs[u] = old.costs[u]
          /\ Square(ledger, old, rows, k, left, u)
          => Square(ledger, value, rows, k, left, u)
  BY <1>4, <1>5, StillSquare
<1>8. SquareFor(w) => SquareFor(w)'
  <2>1. SUFFICES ASSUME SquareFor(w), NEW m \in Markets, NEW u \in Users
                 PROVE  Square(Seen(wallets[u], w)'.ledger, MarketFor(w, m)', RowsSeen(w)', m,
                               ToCome(w, m)', u)
    BY DEF SquareFor
  <2>2. Square(Seen(wallets[u], w).ledger, MarketFor(w, m), RowsSeen(w), m, ToCome(w, m), u)
    BY <2>1 DEF SquareFor
  <2>3. Seen(wallets[u], w)' = Seen(wallets[u], w) /\ ToCome(w, m)' = ToCome(w, m)
    BY <1>1 DEF Seen, ToCome, Ending
  <2>4. Dividing(w, m)' <=> Dividing(w, m)
    BY <1>1 DEF Dividing, Ending
  <2>5. CASE m # k
    <3>1. MarketFor(w, m)' = MarketFor(w, m)
      BY <1>1, <2>4, <2>5 DEF MarketFor, Seen
    <3>. QED
      BY <1>3, <2>2, <2>3, <3>1
  <2>6. CASE m = k
    <3>1. PICK ledger, left : ledger = Seen(wallets[u], w).ledger /\ left = ToCome(w, k)
      OBVIOUS
    <3>2. PICK old \in Market : old = markets[k].now
      BY RowsTyped
    <3>3. PICK value \in Market : value = markets'[k].now
      <4>1. HouseHeld' => \A n \in Markets : markets'[n].now \in Market
        BY DEF HouseHeld, HouseTyped, TypeOK, RowOf
      <4>. QED
        BY <4>1
    <3>4. Seen(markets[k], w) = old /\ Seen(markets[k], w)' = value
      BY <1>1, <1>2, <3>2, <3>3 DEF Seen
    <3>5. value.costs[u] = old.costs[u] /\ old.status \in Live /\ value.status \in Live
      BY <1>1, <1>6, <3>2, <3>3
    <3>6. CASE ~Dividing(w, k)
      <4>1. MarketFor(w, k) = old /\ MarketFor(w, k)' = value
        BY <2>4, <2>6, <3>4, <3>6 DEF MarketFor
      <4>2. Square(ledger, value, RowsSeen(w), k, left, u)
        BY <1>7, <2>2, <2>6, <3>1, <3>5, <4>1, RowsTyped
      <4>. QED
        BY <1>3, <2>3, <2>6, <3>1, <4>1, <4>2
    <3>7. CASE Dividing(w, k)
      <4>1. PICK out : out = req[w].outcome
        OBVIOUS
      <4>2. PICK before : before = [old EXCEPT !.status = "settled", !.outcome = out]
        OBVIOUS
      <4>3. PICK after : after = [value EXCEPT !.status = "settled", !.outcome = out]
        OBVIOUS
      <4>4. MarketFor(w, k) = before /\ MarketFor(w, k)' = after
        BY <1>1, <2>4, <2>6, <3>4, <3>7, <4>1, <4>2, <4>3 DEF MarketFor
      <4>5. /\ before.status = "settled" /\ after.status = "settled"
            /\ before.outcome = after.outcome
            /\ before.costs = old.costs /\ after.costs = value.costs
            /\ before.held = old.held /\ after.held = value.held
        BY <4>2, <4>3 DEF Market
      <4>6. value.held = old.held
        BY <3>2, <3>3, MarketCloses
      <4>7. after.held[u] = before.held[u] /\ after.costs[u] = before.costs[u]
        BY <3>5, <4>5, <4>6
      <4>8. PICK rows \in [StakeIds -> Stake] : rows = RowsSeen(w)
        BY RowsTyped
      <4>9. Square(ledger, before, rows, k, left, u)
        BY <2>2, <2>6, <3>1, <4>4, <4>8
      <4>10. Square(ledger, after, rows, k, left, u)
        BY <1>4, <1>5, <4>5, <4>7, <4>9, StillSquare
      <4>. QED
        BY <1>3, <2>3, <2>6, <3>1, <4>4, <4>8, <4>10
    <3>. QED
      BY <3>6, <3>7
  <2>. QED
    BY <2>5, <2>6
<1>. QED
  BY <1>8

----------------------------------------------------------------------------
(***************************************************************************)
(* Contracts and those who hold them.                                      *)
(***************************************************************************)

\* The contracts that are held on a side, together.
HeldOn(market, side) == SumFunction([u \in Users |-> market.held[u][side]])

\* The shares that set the price are contracts that somebody holds, as long as no
\* cancellation has taken the contracts away.
Backed(mix, m, market) ==
    \/ \A side \in Sides : market.shares[side] = HeldOn(market, side)
    \/ market.status = "cancelled" /\ Annulable(mix, m)

ContractsInv(mix) ==
    \A m \in Markets : Mechanism(m) = "lmsr" =>
        Backed(mix, m, markets[m].now) /\ Backed(mix, m, markets[m].new)

\* A purchase adds as much to the shares as to what its buyer holds.
LEMMA PurchaseBacked ==
    ASSUME NEW mix, NEW m, NEW old \in Market, NEW new \in Market, Backed(mix, m, old),
           NEW k \in Users, NEW r, NEW amount \in Nat, NEW side \in Sides,
           new.status = old.status,
           new.shares = [old.shares EXCEPT ![side] = @ + amount],
           new.held[k] = [old.held[k] EXCEPT ![side] = @ + amount],
           \A u \in Users \ {k} : new.held[u] = old.held[u]
    PROVE  Backed(mix, m, new)
<1>1. CASE old.status = "cancelled" /\ Annulable(mix, m)
  BY <1>1 DEF Backed
<1>2. CASE \A s \in Sides : old.shares[s] = HeldOn(old, s)
  <2>1. /\ old.held \in [Users -> [Sides -> Nat]] /\ new.held \in [Users -> [Sides -> Nat]]
        /\ old.shares \in [Sides -> Nat] /\ new.shares \in [Sides -> Nat]
    BY DEF Market
  <2>2. IsFiniteSet(Users)
    BY FiniteAssumption
  <2>3. ASSUME NEW s \in Sides
        PROVE  new.shares[s] = HeldOn(new, s)
    <3>1. PICK f : f = [u \in Users |-> old.held[u][s]]
      OBVIOUS
    <3>2. PICK g : g = [u \in Users |-> new.held[u][s]]
      OBVIOUS
    <3>3. HeldOn(old, s) = SumFunctionOnSet(f, Users) /\ HeldOn(new, s) = SumFunctionOnSet(g, Users)
      BY <3>1, <3>2 DEF HeldOn, SumFunction
    <3>4. \A u \in Users : f[u] \in Int /\ g[u] \in Int
      BY <2>1, <3>1, <3>2
    <3>5. \A u \in Users \ {k} : g[u] = f[u]
      BY <3>1, <3>2
    <3>6. SumFunctionOnSet(g, Users) = SumFunctionOnSet(f, Users) + (g[k] - f[k])
      BY <2>2, <3>4, <3>5, SumChanged
    <3>7. SumFunctionOnSet(f, Users) \in Int
      BY <2>2, <3>4, SumInt
    <3>8. g[k] - f[k] = IF s = side THEN amount ELSE 0
      BY <2>1, <3>1, <3>2
    <3>9. new.shares[s] = old.shares[s] + (IF s = side THEN amount ELSE 0)
      BY <2>1
    <3>. QED
      BY <1>2, <3>3, <3>6, <3>7, <3>8, <3>9
  <2>. QED
    BY <2>3 DEF Backed
<1>. QED
  BY <1>1, <1>2 DEF Backed

LEMMA BackedStays ==
    ASSUME NEW mix, NEW m, NEW old, NEW new, Backed(mix, m, old),
           new.shares = old.shares, new.held = old.held,
           new.status = old.status \/ old.status # "cancelled"
    PROVE  Backed(mix, m, new)
  BY DEF Backed, HeldOn

\* An order that two workers could not both serve: one of them settles what the other
\* might cancel.
LEMMA SettlerAlone ==
    ASSUME NEW mix, EndsStand(mix), Fits(mix), IsFiniteSet(load.crew), HouseHeld,
           NEW w \in Workers, req[w].op = "settle", Annulable(mix, req[w].market),
           Mechanism(req[w].market) # "fixed_odds"
    PROVE  Alone
<1>1. req[w] \in mix.todo /\ load.crew = mix.crew
  BY DEF Fits, NoRequest
<1>2. \A u, v \in load.crew : u = v
  BY <1>1 DEF EndsStand, Annulable
<1>3. CASE load.crew = {}
  <2>1. Cardinality(load.crew) = 0
    BY <1>3, FS_EmptySet
  <2>. QED
    BY <2>1 DEF Alone
<1>4. CASE load.crew # {}
  <2>1. PICK v : load.crew = {v}
    BY <1>2, <1>4
  <2>2. Cardinality(load.crew) = 1
    BY <2>1, FS_Singleton
  <2>. QED
    BY <2>2 DEF Alone
<1>. QED
  BY <1>3, <1>4

LEMMA StatementBacked ==
    ASSUME NEW mix, EndsStand(mix), PoolInv(mix), HouseHeld', IsFiniteSet(load.crew),
           ContractsInv(mix), NEW w \in Workers, WorkerStep(w), ~Rollback(w), Alone => Timely(w)
    PROVE  ContractsInv(mix)'
<1>1. HouseHeld /\ MarketsHeld /\ Fits(mix)
  BY DEF PoolInv, MarketsHeld
<1>2. /\ markets \in [Markets -> RowOf(Market)] /\ ServingOK(w)
      /\ req[w] \in Request \cup {NoRequest} /\ pc \in [Workers -> Statement]
  BY <1>1, Holding, Typed DEF TablesTypedNow
<1>3. markets' \in [Markets -> RowOf(Market)]
  BY DEF HouseHeld, HouseTyped, TypeOK
<1> SUFFICES ASSUME NEW m \in Markets, Mechanism(m) = "lmsr"
             PROVE  Backed(mix, m, markets'[m].now) /\ Backed(mix, m, markets'[m].new)
  BY DEF ContractsInv, Backed, HeldOn, Annulable, Mechanism
<1>4. OwnRows(markets, markets', w)
  BY <1>1, WorkersOwn DEF OwnStep
<1>5. markets'[m].now = markets[m].now /\ (markets'[m] = markets[m] \/ markets'[m].by = w)
  BY <1>2, <1>4 DEF OwnRows
<1>6. Backed(mix, m, markets[m].now) /\ Backed(mix, m, markets[m].new)
  BY DEF ContractsInv
<1>7. PICK seen \in Market : seen = Seen(markets[m], w)
  BY <1>1, RowsTyped
<1>8. Backed(mix, m, seen)
  BY <1>6, <1>7 DEF Seen
<1>9. CASE markets'[m] = markets[m]
  BY <1>6, <1>9
<1>10. CASE markets'[m] # markets[m]
  <2>1. Seen(markets'[m], w) = markets'[m].new /\ markets'[m].new \in Market
    BY <1>3, <1>5, <1>10 DEF Seen, RowOf
  <2>2. PICK new \in Market : new = markets'[m].new
    BY <2>1
  <2>3. CASE PayTrade(w)
    <3>1. Traded(w)
      BY <2>3, TradeWritten
    <3>2. PICK k \in Users, side \in Sides : k = req[w].user /\ side = req[w].side
      BY <2>3, TradePaid
    <3>3. PICK amount \in Nat : amount = req[w].amount
      BY <2>3, TradePaid
    <3>4. m = req[w].market
      BY <1>10, <3>1 DEF Traded, Grown
    <3>5. /\ new.status = seen.status
          /\ new.shares = [seen.shares EXCEPT ![side] = @ + amount]
          /\ new.held[k] = [seen.held[k] EXCEPT ![side] = @ + amount]
          /\ \A u \in Users \ {k} : new.held[u] = seen.held[u]
      BY <1>7, <2>1, <2>2, <3>1, <3>2, <3>3, <3>4, Zenon DEF Traded, Grown, Bought
    <3>6. Backed(mix, m, new)
      BY <1>8, <3>5, PurchaseBacked
    <3>. QED
      BY <1>5, <1>6, <2>2, <3>6
  <2>4. CASE Decide(w)
    <3>1. PICK n : n = req[w].market
      OBVIOUS
    <3>2. pc[w] = "decide" /\ req[w].op = "settle" /\ n \in Markets /\ req[w].outcome \in Sides
      BY <1>2, <2>4, <3>1, RequestForms, Zenon DEF Decide, ServingOK, OpsAt
    <3>3. PICK old \in Market : old = markets[n].now
      BY <1>1, <3>2, RowsTyped
    <3>4. PICK value : value = [old EXCEPT !.status = "settled", !.outcome = req[w].outcome]
      OBVIOUS
    <3>5. markets' = [markets EXCEPT ![n] = Written(@, w, value)]
      BY <2>4, <3>1, <3>3, <3>4, Zenon DEF Decide
    <3>6. m = n /\ markets'[n].new = value
      BY <1>2, <1>10, <3>2, <3>5, MarketWritten
    <3>7. value.shares = old.shares /\ value.held = old.held
      BY <3>4 DEF Market
    <3>8. Backed(mix, m, old)
      BY <1>6, <3>3, <3>6
    <3>9. Annulable(mix, m) => old.status # "cancelled"
      <4>1. SUFFICES ASSUME Annulable(mix, m)
                     PROVE  old.status # "cancelled"
        OBVIOUS
      <4>2. Alone
        BY <1>1, <3>1, <3>2, <3>6, <4>1, SettlerAlone
      <4>3. Timely(w)
        BY <4>2
      <4>. QED
        BY <3>1, <3>2, <3>3, <4>3 DEF Timely, Live
    <3>10. Backed(mix, m, value)
      BY <3>7, <3>8, <3>9 DEF Backed, HeldOn
    <3>. QED
      BY <1>5, <1>6, <3>6, <3>10
  <2>5. CASE LockToCancel(w)
    <3>1. PICK n : n = req[w].market
      OBVIOUS
    <3>2. pc[w] = "annul" /\ req[w].op = "annul" /\ n \in Markets
      BY <1>2, <2>5, <3>1, RequestForms DEF LockToCancel, ServingOK, OpsAt
    <3>3. PICK old \in Market : old = markets[n].now
      BY <1>1, <3>2, RowsTyped
    <3>4. PICK zero : zero = [s \in Sides |-> 0]
      OBVIOUS
    <3>5. PICK value : value = [old EXCEPT !.status = "cancelled", !.pool = zero,
                                           !.held = [u \in Users |-> zero]]
      OBVIOUS
    <3>6. markets' = [markets EXCEPT ![n] = Written(@, w, value)]
      BY <2>5, <3>1, <3>3, <3>4, <3>5 DEF LockToCancel
    <3>7. m = n /\ markets'[n].new = value
      BY <1>2, <1>10, <3>2, <3>6, MarketWritten
    <3>8. value.status = "cancelled"
      BY <3>5 DEF Market
    <3>9. Annulable(mix, m)
      BY <1>1, <3>1, <3>2, <3>7 DEF Fits, Annulable, NoRequest
    <3>. QED
      BY <1>5, <1>6, <3>7, <3>8, <3>9 DEF Backed
  <2>6. CASE WritePatch(w)
    <3>1. req[w].op = "patch" /\ req[w] \in mix.todo
      BY <1>1, <1>2, <2>6 DEF WritePatch, ServingOK, OpsAt, Fits, NoRequest
    <3>2. Mechanism(req[w].market) = "fixed_odds"
      BY <3>1 DEF EndsStand
    <3>3. markets'[m] = markets[m]
      BY <1>2, <2>6, <3>2 DEF WritePatch
    <3>. QED
      BY <1>10, <3>3
  <2>7. CASE FinishSettle(w)
    <3>1. markets'[m] = markets[m]
      BY <1>2, <2>7 DEF FinishSettle
    <3>. QED
      BY <1>10, <3>1
  <2>8. CASE ~PayTrade(w) /\ ~Decide(w) /\ ~LockToCancel(w) /\ ~WritePatch(w) /\ ~FinishSettle(w)
    <3>1. Standing(Seen(markets[m], w))' = Standing(Seen(markets[m], w))
      BY <1>1, <2>8, TermsStay
    <3>2. new.shares = seen.shares /\ new.held = seen.held /\ new.status = seen.status
      BY <1>7, <2>1, <2>2, <3>1 DEF Standing, Seen
    <3>3. Backed(mix, m, new)
      BY <1>8, <3>2, BackedStays
    <3>. QED
      BY <1>5, <1>6, <2>2, <3>3
  <2>. QED
    BY <2>3, <2>4, <2>5, <2>6, <2>7, <2>8
<1>. QED
  BY <1>9, <1>10

\* The end of a request and the job that closes markets leave the contracts alone.
LEMMA EndBacked ==
    ASSUME NEW mix, HouseHeld, ContractsInv(mix), NEW w \in Workers, Rollback(w) \/ Commit(w)
    PROVE  ContractsInv(mix)'
<1>1. markets \in [Markets -> RowOf(Market)]
  BY Holding, Typed DEF TablesTypedNow
<1>2. \A m \in Markets : /\ markets'[m].now \in {markets[m].now, markets[m].new}
                         /\ markets'[m].new \in {markets[m].now, markets[m].new}
  BY <1>1 DEF Rollback, Commit, Published, Discarded, Fresh
<1> SUFFICES ASSUME NEW m \in Markets, Mechanism(m) = "lmsr"
             PROVE  Backed(mix, m, markets'[m].now) /\ Backed(mix, m, markets'[m].new)
  BY DEF ContractsInv, Backed, HeldOn, Annulable, Mechanism
<1>3. Backed(mix, m, markets[m].now) /\ Backed(mix, m, markets[m].new)
  BY DEF ContractsInv
<1>. QED
  BY <1>2, <1>3

LEMMA CloseBacked ==
    ASSUME NEW mix, HouseHeld, ContractsInv(mix), NEW k \in Markets, CloseMarket(k)
    PROVE  ContractsInv(mix)'
<1> SUFFICES ASSUME NEW m \in Markets, Mechanism(m) = "lmsr"
             PROVE  Backed(mix, m, markets'[m].now) /\ Backed(mix, m, markets'[m].new)
  BY DEF ContractsInv, Backed, HeldOn, Annulable, Mechanism
<1>1. Backed(mix, m, markets[m].now) /\ Backed(mix, m, markets[m].new)
  BY DEF ContractsInv
<1>2. CASE m # k
  BY <1>1, <1>2, MarketCloses
<1>3. CASE m = k
  <2>1. PICK old, new : old = markets[k].now /\ new = markets'[k].now
    OBVIOUS
  <2>2. /\ new.shares = old.shares /\ new.held = old.held /\ old.status # "cancelled"
        /\ markets'[k].new = new
    BY <2>1, MarketCloses
  <2>3. Backed(mix, m, new)
    BY <1>1, <1>3, <2>1, <2>2, BackedStays
  <2>. QED
    BY <1>3, <2>1, <2>2, <2>3
<1>. QED
  BY <1>2, <1>3

----------------------------------------------------------------------------
(***************************************************************************)
(* The whole invariant, and what it says.                                  *)
(***************************************************************************)

\* Only the workers of a load's crew do anything.
LEMMA StepsInCrew ==
    ASSUME NEW w \in Workers, HouseHeld, WorkerStep(w) \/ Commit(w) \/ Crash(w)
    PROVE  w \in load.crew
<1>1. w \notin load.crew => pc[w] = "idle"
  BY Holding DEF HoldingOK
<1>2. CASE \/ StartPlace(w) \/ StartExecute(w) \/ StartQuote(w) \/ StartLeave(w)
           \/ StartStake(w) \/ StartTrade(w) \/ StartSettle(w) \/ StartAnnul(w)
           \/ Patch(w) \/ StartReview(w)
  BY <1>2 DEF StartPlace, StartExecute, StartQuote, StartLeave, StartStake, StartTrade,
     StartSettle, StartAnnul, Patch, StartReview, Accept
<1>3. CASE \/ Claim(w) \/ Look(w) \/ Assess(w) \/ DebitStake(w) \/ InsertBet(w) \/ Register(w)
           \/ LockBet(w) \/ RefundStake(w) \/ TouchMarket(w) \/ CashOut(w)
  BY <1>1, <1>3 DEF Claim, Look, Assess, DebitStake, InsertBet, Register, LockBet, RefundStake,
     TouchMarket, CashOut
<1>4. CASE \/ BankStake(w) \/ AddToPool(w) \/ Price(w) \/ PayTrade(w)
           \/ Approve(w) \/ GrantFunds(w) \/ Reject(w) \/ WritePatch(w)
  BY <1>1, <1>4 DEF BankStake, AddToPool, Price, PayTrade, Approve, GrantFunds, Reject, WritePatch
<1>5. CASE \/ Decide(w) \/ Result(w) \/ PayWinner(w) \/ Divide(w) \/ PayShare(w)
           \/ FinishSettle(w) \/ LockToCancel(w) \/ CreditBet(w) \/ VoidBet(w)
           \/ CreditPool(w) \/ FinishCancel(w)
  BY <1>1, <1>5, Zenon DEF Decide, Result, PayWinner, Divide, PayShare, FinishSettle, LockToCancel,
     CreditBet, VoidBet, CreditPool, FinishCancel
<1>6. CASE Commit(w) \/ Crash(w)
  BY <1>1, <1>6 DEF Commit, Crash
<1>. QED
  BY <1>2, <1>3, <1>4, <1>5, <1>6 DEF WorkerStep, FixedOddsStep, PoolStep, FinalStep

LEMMA CrewSteps ==
    ASSUME HouseHeld, [Next]_vars
    PROVE  \/ \E w \in Workers :
                  /\ w \in load.crew
                  /\ (WorkerStep(w) /\ ~Rollback(w)) \/ Rollback(w) \/ Commit(w)
           \/ \E k \in Markets : CloseMarket(k)
           \/ ClockTick \/ UNCHANGED vars
<1>1. CASE \E w \in Workers : WorkerStep(w) \/ Commit(w) \/ Crash(w)
  <2>1. PICK w \in Workers : WorkerStep(w) \/ Commit(w) \/ Crash(w)
    BY <1>1
  <2>2. w \in load.crew
    BY <2>1, StepsInCrew
  <2>. QED
    BY <2>1, <2>2 DEF Crash
<1>2. CASE ~\E w \in Workers : WorkerStep(w) \/ Commit(w) \/ Crash(w)
  BY <1>2 DEF Next, WorkerStep, ClockTick
<1>. QED
  BY <1>1, <1>2

\* What is committed is square, and so is what each worker sees, when there is but one.
SoloInv ==
    Alone =>
        /\ SquareNow
        /\ \A w \in Workers : w \in load.crew => Timely(w) /\ SquareFor(w)

PayInv(mix) == PoolInv(mix) /\ IsFiniteSet(load.crew) /\ ContractsInv(mix) /\ SoloInv

LEMMA BlankSquare ==
    ASSUME NEW ledger \in [Line -> Nat], \A l \in Line : ledger[l] = 0,
           NEW rows \in [StakeIds -> Stake], \A i \in StakeIds : rows[i].amount = 0,
           NEW m \in Markets, NEW u \in Users
    PROVE  Square(ledger, NewMarket, rows, m, {}, u)
<1>1. NewMarket.status \in Live /\ NewMarket.costs[u] = 0
  BY DEF NewMarket, Live
<1>2. NewMarket.status \notin {"cancelled", "settled"}
  BY <1>1 DEF Live
<1>3. \A t \in MarketTypes : ledger[Entry(t, m)] = 0
  BY MarketEntries
<1>4. On(rows, m, Sides) = {}
  BY DEF On
<1>5. Mine(rows, On(rows, m, Sides), u) = {}
  BY <1>4 DEF Mine
<1>6. SumFunctionOnSet(Amounts(rows), {}) = 0
  BY SumEmpty
<1>7. Staked(rows, On(rows, m, Sides), u) = 0
  BY <1>5, <1>6 DEF Staked
<1>. QED
  BY <1>1, <1>2, <1>3, <1>7 DEF Square, MarketTypes

LEMMA PayInit == Init => \E mix \in Mixes : PayInv(mix)
<1> SUFFICES ASSUME Init
             PROVE  \E mix \in Mixes : PayInv(mix)
  OBVIOUS
<1>1. PICK mix \in Mixes : PoolInv(mix)
  BY PoolsInit
<1>2. HouseHeld /\ load.crew = mix.crew
  BY <1>1 DEF PoolInv, MarketsHeld, Fits
<1>3. IsFiniteSet(load.crew)
  BY <1>2, MixesAssumption
<1>4. \A m \in Markets : /\ markets[m].now = NewMarket /\ markets[m].new = NewMarket
                         /\ \A w : Seen(markets[m], w) = NewMarket
  BY DEF Init, Fresh, Seen
<1>5. \A u \in Users : \A l \in Line :
          /\ wallets[u].now.ledger[l] = 0
          /\ \A w : Seen(wallets[u], w) = wallets[u].now
  BY DEF Init, Fresh, Seen, NewWallet
<1>6. \A i \in StakeIds : stakes[i].now.amount = 0 /\ \A w : Seen(stakes[i], w) = stakes[i].now
  BY DEF Init, Fresh, Seen
<1>7. \A w \in Workers : pc[w] = "idle" /\ req[w] = NoRequest
  BY DEF Init
<1>8. ContractsInv(mix)
  <2>1. IsFiniteSet(Users)
    BY FiniteAssumption
  <2>2. ASSUME NEW side \in Sides
        PROVE  NewMarket.shares[side] = HeldOn(NewMarket, side)
    <3>1. PICK f : f = [u \in Users |-> NewMarket.held[u][side]]
      OBVIOUS
    <3>2. \A u \in Users : f[u] = 0
      BY <3>1 DEF NewMarket
    <3>3. SumFunctionOnSet(f, Users) = 0
      BY <2>1, <3>2, SumZero
    <3>. QED
      BY <3>1, <3>3 DEF HeldOn, SumFunction, NewMarket
  <2>. QED
    BY <1>4, <2>2 DEF ContractsInv, Backed
<1>9. SquareNow
  <2>1. SUFFICES ASSUME NEW m \in Markets, NEW u \in Users
                 PROVE  Square(wallets[u].now.ledger, markets[m].now, RowsNow, m, {}, u)
    BY DEF SquareNow
  <2>2. RowsNow \in [StakeIds -> Stake] /\ wallets[u].now.ledger \in [Line -> Nat]
    BY <1>2 DEF HouseHeld, HouseTyped, TypeOK, RowOf, RowsNow, Wallet
  <2>3. \A i \in StakeIds : RowsNow[i].amount = 0
    BY <1>6 DEF RowsNow
  <2>. QED
    BY <1>4, <1>5, <2>2, <2>3, BlankSquare
<1>10. ASSUME NEW w \in Workers
       PROVE  Timely(w) /\ SquareFor(w)
  <2>1. Timely(w) /\ \A m \in Markets : ToCome(w, m) = {} /\ MarketFor(w, m) = Seen(markets[m], w)
    BY <1>7, IdleTimely
  <2>2. RowsSeen(w) = RowsNow
    BY <1>6 DEF RowsSeen, RowsNow
  <2>3. \A u \in Users : Seen(wallets[u], w) = wallets[u].now
    BY DEF Init, Fresh, Seen
  <2>. QED
    BY <1>4, <1>9, <2>1, <2>2, <2>3 DEF SquareNow, SquareFor
<1>. QED
  BY <1>1, <1>3, <1>8, <1>9, <1>10 DEF PayInv, SoloInv

LEMMA PayNext ==
    ASSUME NEW mix, EndsStand(mix)
    PROVE  PayInv(mix) /\ [Next]_vars => PayInv(mix)'
<1> SUFFICES ASSUME PayInv(mix), [Next]_vars
             PROVE  PayInv(mix)'
  OBVIOUS
<1>1. PoolInv(mix) /\ IsFiniteSet(load.crew) /\ ContractsInv(mix) /\ SoloInv /\ HouseHeld
  BY DEF PayInv, PoolInv, MarketsHeld
<1>2. PoolInv(mix)'
  BY <1>1, EndsStayCancelled, PoolsNext
<1>3. HouseHeld'
  BY <1>1, HeldNext
<1>4. ASSUME NEW w \in Workers, w \in load.crew, WorkerStep(w), ~Rollback(w)
      PROVE  PayInv(mix)'
  <2>1. load' = load
    BY <1>1, <1>4, RequestsArrive
  <2>2. Alone => Timely(w)
    BY <1>1, <1>4 DEF SoloInv
  <2>3. ContractsInv(mix)'
    BY <1>1, <1>3, <1>4, <2>2, StatementBacked
  <2>4. SoloInv'
    <3>1. SUFFICES ASSUME Alone
                   PROVE  SquareNow' /\ \A v \in Workers : v \in load.crew =>
                              Timely(v)' /\ SquareFor(v)'
      BY <2>1 DEF SoloInv, Alone
    <3>2. SquareNow /\ Timely(w) /\ SquareFor(w)
      BY <1>1, <1>4, <3>1 DEF SoloInv
    <3>3. SquareNow'
      BY <1>1, <1>4, <3>2, StatementKeepsNow
    <3>4. Timely(w)' /\ SquareFor(w)'
      BY <1>1, <1>3, <1>4, <3>2, StatementKeepsSquare
    <3>5. \A v \in load.crew : v = w
      BY <1>1, <1>4, <3>1, NotAlone
    <3>. QED
      BY <3>3, <3>4, <3>5
  <2>. QED
    BY <1>1, <1>2, <2>1, <2>3, <2>4 DEF PayInv
<1>5. ASSUME NEW w \in Workers, w \in load.crew, Rollback(w) \/ Commit(w)
      PROVE  PayInv(mix)'
  <2>1. load' = load
    BY <1>5, RequestsArrive
  <2>2. ContractsInv(mix)'
    BY <1>1, <1>5, EndBacked
  <2>3. SoloInv'
    <3>1. SUFFICES ASSUME Alone
                   PROVE  SquareNow' /\ \A v \in Workers : v \in load.crew =>
                              Timely(v)' /\ SquareFor(v)'
      BY <2>1 DEF SoloInv, Alone
    <3>2. SquareNow /\ SquareFor(w)
      BY <1>1, <1>5, <3>1 DEF SoloInv
    <3>3. SquareNow' /\ Timely(w)' /\ SquareFor(w)'
      BY <1>1, <1>5, <3>2, EndIsSquare
    <3>4. \A v \in load.crew : v = w
      BY <1>1, <1>5, <3>1, NotAlone
    <3>. QED
      BY <3>3, <3>4
  <2>. QED
    BY <1>1, <1>2, <2>1, <2>2, <2>3 DEF PayInv
<1>6. ASSUME NEW k \in Markets, CloseMarket(k)
      PROVE  PayInv(mix)'
  <2>1. load' = load
    BY <1>6 DEF CloseMarket
  <2>2. ContractsInv(mix)'
    BY <1>1, <1>6, CloseBacked
  <2>3. SoloInv'
    <3>1. SUFFICES ASSUME Alone
                   PROVE  SquareNow' /\ \A v \in Workers : v \in load.crew =>
                              Timely(v)' /\ SquareFor(v)'
      BY <2>1 DEF SoloInv, Alone
    <3>2. SquareNow
      BY <1>1, <3>1 DEF SoloInv
    <3>3. SquareNow'
      BY <1>1, <1>6, <3>2, CloseNow
    <3>4. ASSUME NEW v \in Workers, v \in load.crew
          PROVE  Timely(v)' /\ SquareFor(v)'
      <4>1. Timely(v) /\ SquareFor(v)
        BY <1>1, <3>1, <3>4 DEF SoloInv
      <4>. QED
        BY <1>1, <1>3, <1>6, <4>1, CloseTimely, CloseSquare
    <3>. QED
      BY <3>3, <3>4
  <2>. QED
    BY <1>1, <1>2, <2>1, <2>2, <2>3 DEF PayInv
<1>7. CASE ClockTick \/ UNCHANGED vars
  <2>1. UNCHANGED <<wallets, markets, stakes, load, pc, req, tx>>
    BY <1>7, TicksKeep DEF tables
  <2>2. ContractsInv(mix)'
    BY <1>1, <2>1 DEF ContractsInv, Backed, HeldOn, Annulable, Mechanism
  <2>3. RowsNow' = RowsNow /\ \A w : RowsSeen(w)' = RowsSeen(w)
    BY <2>1 DEF RowsNow, RowsSeen, Seen
  <2>4. SquareNow => SquareNow'
    BY <2>1, <2>3 DEF SquareNow
  <2>5. ASSUME NEW w \in Workers, Timely(w), SquareFor(w)
        PROVE  Timely(w)' /\ SquareFor(w)'
    <3>1. PoolKnown(w)' <=> PoolKnown(w)
      BY <2>1, <2>3 DEF PoolKnown
    <3>2. (Sharing(w)' <=> Sharing(w)) /\ (Crediting(w)' <=> Crediting(w))
      BY <2>1, <2>3, <3>1 DEF Sharing, Crediting
    <3>3. Timely(w)'
      BY <2>1, <2>5, <3>1, <3>2 DEF Timely, Seen
    <3>4. \A m \in Markets : MarketFor(w, m)' = MarketFor(w, m) /\ ToCome(w, m)' = ToCome(w, m)
      BY <2>1 DEF MarketFor, ToCome, Dividing, Ending, IsPool, Seen
    <3>5. \A u \in Users : Seen(wallets[u], w)' = Seen(wallets[u], w)
      BY <2>1 DEF Seen
    <3>. QED
      BY <2>3, <2>5, <3>3, <3>4, <3>5 DEF SquareFor
  <2>6. SoloInv'
    BY <1>1, <2>1, <2>4, <2>5 DEF SoloInv, Alone
  <2>. QED
    BY <1>1, <1>2, <2>1, <2>2, <2>6 DEF PayInv
<1>. QED
  BY <1>1, <1>4, <1>5, <1>6, <1>7, CrewSteps

\* The quantities that set an LMSR market's price are the contracts that customers hold,
\* for any number of workers; and a settlement by one worker pays 100 for each winning
\* contract, once.  The loads are those whose operators let a decided market stand.
THEOREM PositionsArePaid ==
    ASSUME \A mix \in Mixes : EndsStand(mix)
    PROVE  Spec => []PositionsPaid
<1> DEFINE Inv == \E mix \in Mixes : PayInv(mix)
<1>1. Init => Inv
  BY PayInit
<1>2. Inv /\ [Next]_vars => Inv'
  BY PayNext
<1>3. Inv => PositionsPaid
  <2> SUFFICES ASSUME NEW mix \in Mixes, PayInv(mix), NEW m \in Markets, Mechanism(m) = "lmsr",
                      NEW market, market = markets[m].now
               PROVE  /\ market.status # "cancelled" =>
                             \A side \in Sides : market.shares[side] = HeldOn(market, side)
                      /\ Alone /\ market.status = "settled" =>
                             \A u \in Users : LineOf(u, "SETTLEMENT_WIN", m)
                                                = 100 * market.held[u][market.outcome]
    BY DEF PositionsPaid, HeldOn
  <2>1. Backed(mix, m, market)
    BY DEF PayInv, ContractsInv
  <2>2. ASSUME Alone, market.status = "settled", NEW u \in Users
        PROVE  LineOf(u, "SETTLEMENT_WIN", m) = 100 * market.held[u][market.outcome]
    <3>1. Square(wallets[u].now.ledger, market, RowsNow, m, {}, u)
      BY <2>2 DEF PayInv, SoloInv, SquareNow
    <3>. QED
      BY <2>2, <3>1 DEF Square, LineOf
  <2>. QED
    BY <2>1, <2>2 DEF Backed
<1>. QED
  BY <1>1, <1>2, <1>3, PTL DEF Spec

\* One worker's cancellation of a pool or of an LMSR market gives every customer back
\* exactly what the stakes or the contracts cost, and a cancellation of bets none of it.
THEOREM CancelledMarketsMakeWhole ==
    ASSUME \A mix \in Mixes : EndsStand(mix)
    PROVE  Spec => []CancelMakesWhole
<1> DEFINE Inv == \E mix \in Mixes : PayInv(mix)
<1>1. Init => Inv
  BY PayInit
<1>2. Inv /\ [Next]_vars => Inv'
  BY PayNext
<1>3. Inv => CancelMakesWhole
  <2> SUFFICES ASSUME NEW mix \in Mixes, PayInv(mix), Alone, NEW m \in Markets, NEW u \in Users,
                      markets[m].now.status = "cancelled"
               PROVE  LineOf(u, "MARKET_CANCEL_REFUND", m) =
                          LineOf(u, "PARIMUTUEL_STAKE", m) + LineOf(u, "LMSR_TRADE_STAKE", m)
    BY DEF CancelMakesWhole
  <2>1. HouseHeld
    BY DEF PayInv, PoolInv, MarketsHeld
  <2>2. PICK market \in Market : market = markets[m].now
    BY <2>1 DEF HouseHeld, HouseTyped, TypeOK, RowOf
  <2>3. PICK rows \in [StakeIds -> Stake] : rows = RowsNow
    BY <2>1 DEF RowsNow, HouseHeld, HouseTyped, TypeOK, RowOf
  <2>4. PICK ledger : ledger = wallets[u].now.ledger
    OBVIOUS
  <2>5. Square(ledger, market, rows, m, {}, u)
    BY <2>2, <2>3, <2>4 DEF PayInv, SoloInv, SquareNow
  <2>6. PICK staked \in Nat : staked = Staked(rows, On(rows, m, Sides), u)
    BY <2>3, StakesAddUp DEF On
  <2>7. On(rows, m, Sides) \ {} = On(rows, m, Sides)
    OBVIOUS
  <2>8. market.costs[u] \in Nat /\ market.status = "cancelled" /\ "cancelled" \notin Live
    BY <2>2 DEF Market, Live
  <2>9. Mechanism(m) \in {"fixed_odds", "parimutuel", "lmsr"}
    BY Batches
  <2>10. /\ ledger[Entry("PARIMUTUEL_STAKE", m)] = staked
         /\ ledger[Entry("LMSR_TRADE_STAKE", m)] = market.costs[u]
         /\ Mechanism(m) # "parimutuel" => staked = 0
         /\ Mechanism(m) # "lmsr" => market.costs[u] = 0
    BY <2>5, <2>6 DEF Square
  <2>11. /\ Mechanism(m) = "fixed_odds" => ledger[Entry("MARKET_CANCEL_REFUND", m)] = 0
         /\ Mechanism(m) = "parimutuel" => ledger[Entry("MARKET_CANCEL_REFUND", m)] = staked
         /\ Mechanism(m) = "lmsr" =>
                ledger[Entry("MARKET_CANCEL_REFUND", m)] = market.costs[u]
    BY <2>5, <2>6, <2>7, <2>8 DEF Square
  <2>. QED
    BY <2>4, <2>6, <2>8, <2>9, <2>10, <2>11 DEF LineOf
<1>. QED
  BY <1>1, <1>2, <1>3, PTL DEF Spec

\* A pool that one worker has settled has paid out what is left of it after the takeout,
\* and no more: the shares, each rounded down, are within a cent of it for each winning
\* stake.  Only the owners of winning stakes got any of it, and where there is no winning
\* stake everyone has the stakes back.
THEOREM PoolsPayOut ==
    ASSUME \A mix \in Mixes : EndsStand(mix)
    PROVE  Spec => []PoolPaysOut
<1> DEFINE Inv == \E mix \in Mixes : PayInv(mix)
<1>1. Init => Inv
  BY PayInit
<1>2. Inv /\ [Next]_vars => Inv'
  BY PayNext
<1>3. Inv => PoolPaysOut
  <2> SUFFICES ASSUME NEW mix \in Mixes, PayInv(mix), Alone, NEW m \in Markets,
                      Mechanism(m) = "parimutuel", markets[m].now.status = "settled",
                      NEW side, side = markets[m].now.outcome,
                      NEW won, won = StakesOn(m, {side}),
                      NEW left, left = StakeTotal(m, Sides) - Takeout(m, StakeTotal(m, Sides)),
                      NEW paid,
                      paid = SumFunction([u \in Users |-> LineOf(u, "SETTLEMENT_WIN", m)])
               PROVE  IF won = {}
                      THEN \A u \in Users : LineOf(u, "PARIMUTUEL_REFUND", m)
                                              = LineOf(u, "PARIMUTUEL_STAKE", m)
                      ELSE /\ paid <= left
                           /\ paid >= left - Cardinality(won)
                           /\ \A u \in Users : (\A i \in won : stakes[i].now.user # u) =>
                                  LineOf(u, "SETTLEMENT_WIN", m) = 0
    BY DEF PoolPaysOut
  <2>1. HouseHeld
    BY DEF PayInv, PoolInv, MarketsHeld
  <2>2. PICK rows \in [StakeIds -> Stake] : rows = RowsNow
    BY <2>1 DEF RowsNow, HouseHeld, HouseTyped, TypeOK, RowOf
  <2>3. PICK ledgers \in [Users -> [Line -> Nat]] : ledgers = [u \in Users |-> wallets[u].now.ledger]
    BY <2>1 DEF HouseHeld, HouseTyped, TypeOK, RowOf, Wallet
  <2>4. \A sides : StakesOn(m, sides) = On(rows, m, sides)
    BY <2>2 DEF StakesOn, On, RowsNow
  <2>5. StakeTotal(m, Sides) = AllStaked(rows, On(rows, m, Sides))
    BY <2>2, <2>4 DEF StakeTotal, AllStaked, Amounts, RowsNow
  <2>6. won = On(rows, m, {side}) /\ left = After(rows, m)
    BY <2>4, <2>5 DEF After
  <2>7. ASSUME NEW u \in Users
        PROVE  /\ ledgers[u][Entry("PARIMUTUEL_STAKE", m)] = Staked(rows, On(rows, m, Sides), u)
               /\ Divided(ledgers[u], rows, m, side, {}, u)
    <3>1. Square(wallets[u].now.ledger, markets[m].now, RowsNow, m, {}, u)
      BY DEF PayInv, SoloInv, SquareNow
    <3>. QED
      BY <2>2, <2>3, <3>1 DEF Square
  <2>8. CASE won = {}
    <3>1. On(rows, m, Sides) \ {} = On(rows, m, Sides)
      OBVIOUS
    <3>2. \A u \in Users : ledgers[u][Entry("PARIMUTUEL_REFUND", m)]
                             = ledgers[u][Entry("PARIMUTUEL_STAKE", m)]
      BY <2>6, <2>7, <2>8, <3>1 DEF Divided
    <3>. QED
      BY <2>3, <2>8, <3>2 DEF LineOf
  <2>9. CASE won # {}
    <3>1. won \in SUBSET StakeIds
      BY <2>6 DEF On
    <3>2. [u \in Users |-> LineOf(u, "SETTLEMENT_WIN", m)]
              = [u \in Users |-> ledgers[u][Entry("SETTLEMENT_WIN", m)]]
      BY <2>3 DEF LineOf
    <3>3. paid = SumFunctionOnSet([u \in Users |-> ledgers[u][Entry("SETTLEMENT_WIN", m)]], Users)
      BY <3>2 DEF SumFunction
    <3>4. /\ paid \in Nat /\ paid <= After(rows, m)
          /\ After(rows, m) <= paid + Cardinality(won)
          /\ \A u \in Users : (\A i \in won : rows[i].user # u) =>
                 ledgers[u][Entry("SETTLEMENT_WIN", m)] = 0
      <4>1. \A u \in Users : Divided(ledgers[u], rows, m, side, {}, u)
        BY <2>7
      <4>2. PICK some \in SUBSET StakeIds : some = won
        BY <3>1
      <4>3. some = On(rows, m, {side}) /\ some # {}
        BY <2>6, <2>9, <4>2
      <4>4. PICK sum : sum = paid
        OBVIOUS
      <4>5. sum = SumFunctionOnSet(
                      [u \in Users |-> ledgers[u][Entry("SETTLEMENT_WIN", m)]], Users)
        BY <3>3, <4>4
      <4>6. sum \in Nat
        <5>1. Entry("SETTLEMENT_WIN", m) \in Line /\ IsFiniteSet(Users)
          BY FiniteAssumption DEF Entry, Line, MarketLine
        <5>2. PICK win : win = [u \in Users |-> ledgers[u][Entry("SETTLEMENT_WIN", m)]]
          OBVIOUS
        <5>3. \A u \in Users : win[u] \in Nat
          BY <5>1, <5>2
        <5>. QED
          BY <4>5, <5>1, <5>2, <5>3, SumNat
      <4>7. sum <= After(rows, m)
        BY <4>1, <4>3, <4>5, PoolDivided
      <4>8. After(rows, m) <= sum + Cardinality(some)
        BY <4>1, <4>3, <4>5, PoolDivided
      <4>9. \A u \in Users : (\A i \in some : rows[i].user # u) =>
                ledgers[u][Entry("SETTLEMENT_WIN", m)] = 0
        BY <4>1, <4>3, <4>5, PoolDivided
      <4>. QED
        BY <4>2, <4>4, <4>6, <4>7, <4>8, <4>9
    <3>5. Cardinality(won) \in Nat
      BY <3>1, StakeIdsFinite, FS_Subset, FS_CardinalityType
    <3>6. After(rows, m) \in Int
      <4>1. PICK total \in Nat : total = AllStaked(rows, On(rows, m, Sides))
        BY StakesAddUp DEF On
      <4>2. Takeout(m, total) \in Nat
        BY <4>1, TakeoutOfPool
      <4>. QED
        BY <4>1, <4>2 DEF After
    <3>7. paid <= left /\ paid >= left - Cardinality(won)
      BY <2>6, <3>4, <3>5, <3>6
    <3>8. \A i \in won : rows[i].user = stakes[i].now.user
      BY <2>2, <3>1 DEF RowsNow
    <3>9. \A u \in Users : (\A i \in won : stakes[i].now.user # u) =>
              LineOf(u, "SETTLEMENT_WIN", m) = 0
      <4> SUFFICES ASSUME NEW u \in Users, \A i \in won : stakes[i].now.user # u
                   PROVE  LineOf(u, "SETTLEMENT_WIN", m) = 0
        OBVIOUS
      <4>1. \A i \in won : rows[i].user # u
        BY <3>8
      <4>2. ledgers[u][Entry("SETTLEMENT_WIN", m)] = 0
        BY <3>4, <4>1
      <4>. QED
        BY <2>3, <4>2 DEF LineOf
    <3>. QED
      BY <2>9, <3>7, <3>9
  <2>. QED
    BY <2>8, <2>9
<1>. QED
  BY <1>1, <1>2, <1>3, PTL DEF Spec

=============================================================================

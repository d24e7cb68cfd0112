---------------------------- MODULE HouseStepProofs ----------------------------
(***************************************************************************)
(* That the house's rows keep their types, for every load, any users,      *)
(* markets and workers: in particular that no balance, no pool and no      *)
(* share count ever becomes negative.  TypeOK is not inductive: what a     *)
(* statement may assume of its request and of the request's local          *)
(* variables was established by earlier statements.  Serving says what     *)
(* that is.                                                                *)
(*                                                                         *)
(* Then what a step of one worker can do to what the others see: it writes *)
(* rows that are free or its own, and these appear when it commits; and    *)
(* which lines of the ledger each statement writes.                        *)
(***************************************************************************)
EXTENDS HouseProperties, SequenceTheorems, FiniteSetTheorems, TLAPS

\* The requests whose transaction may be at a statement.
OpsAt(statement) ==
    CASE statement \in {"look", "risk", "debit", "insert"} -> {"place", "execute"}
      [] statement = "claim" -> {"execute"}
      [] statement = "register" -> {"quote"}
      [] statement \in {"bet", "refund", "touch", "cashout"} -> {"void", "cashout"}
      [] statement \in {"bank", "pool"} -> {"stake"}
      [] statement \in {"price", "pay"} -> {"trade"}
      [] statement \in {"decide", "result", "payout", "divide", "share"} -> {"settle"}
      [] statement \in {"annul", "credit", "unbet"} -> {"annul"}
      [] statement = "patch" -> {"patch"}
      [] statement \in {"approve", "grant"} -> {"approve"}
      [] statement = "reject" -> {"reject"}
      [] OTHER ->
            {"none", "place", "quote", "execute", "void", "cashout", "stake", "trade",
             "settle", "annul", "patch", "approve", "reject"}

\* What the loop of w visits.
BatchOK(w) ==
    LET m == req[w].market
    IN  /\ pc[w] = "decide" => Mechanism(m) # "parimutuel"
        /\ pc[w] \in {"result", "payout"} => Mechanism(m) = "fixed_odds"
        /\ pc[w] = "share" => Mechanism(m) # "fixed_odds"
        /\ pc[w] = "divide" => Mechanism(m) = "parimutuel"
        /\ pc[w] \in {"result", "payout", "share", "credit", "unbet"} =>
               CASE Mechanism(m) = "fixed_odds" -> tx[w].batch \subseteq BetIds
                 [] Mechanism(m) = "parimutuel" -> tx[w].batch \subseteq StakeIds
                 [] OTHER -> tx[w].batch \subseteq Users

\* What w relies on at a statement.
ServingOK(w) ==
    /\ req[w].op \in OpsAt(pc[w])
    /\ pc[w] \in {"look", "risk", "debit", "insert"} => tx[w].items # <<>>
    /\ pc[w] \in {"claim", "look", "risk", "debit", "insert"} /\ req[w].op = "execute" =>
           quotes[req[w].slip].now.status # "none"
    /\ pc[w] = "register" => req[w].items # <<>>
    /\ pc[w] \in {"bet", "refund", "touch", "cashout", "payout", "unbet"} => tx[w].bet \in BetIds
    /\ BatchOK(w)

Serving == \A w \in Workers : ServingOK(w)

\* A quote that exists asks for something, and nobody is about to take it back.
QuotesAsk ==
    \A k \in Slips :
        /\ quotes[k].now.status # "none" => quotes[k].new.status # "none"
        /\ quotes[k].now.status # "none" => quotes[k].now.items # <<>>
        /\ quotes[k].new.status # "none" => quotes[k].new.items # <<>>

HouseTyped == TypeOK /\ Serving /\ QuotesAsk

----------------------------------------------------------------------------
(***************************************************************************)
(* Arithmetic.                                                             *)
(***************************************************************************)

\* Quotients of naturals are naturals.
LEMMA Quotient ==
    ASSUME NEW a \in Nat, NEW b \in Nat, b # 0
    PROVE  a \div b \in Nat
  BY SMT

LEMMA Product ==
    ASSUME NEW a \in Nat, NEW b \in Nat
    PROVE  a * b \in Nat
  BY SMT

\* What the terms of a market are.
LEMMA TermsForm ==
    ASSUME NEW terms \in MarketTerms
    PROVE  /\ terms.mechanism \in {"fixed_odds", "parimutuel", "lmsr"}
           /\ terms.fee_bps \in Nat
           /\ terms.odds_minor \in [Sides -> Nat]
           /\ terms.takeout_bps \in Nat /\ terms.takeout_bps <= 3000
           /\ terms.spread_fee_bps \in Nat
<1>1. terms.mechanism \in {"fixed_odds", "parimutuel", "lmsr"}
  BY DEF MarketTerms
<1>2. terms.fee_bps \in Nat /\ terms.odds_minor \in [Sides -> Nat]
  BY DEF MarketTerms
<1>3. terms.takeout_bps \in 1000 .. 3000
  BY DEF MarketTerms
<1>4. terms.spread_fee_bps \in 0 .. 500
  BY DEF MarketTerms
<1>5. \A n \in 1000 .. 3000 : n \in Nat /\ n <= 3000
  OBVIOUS
<1>6. \A n \in 0 .. 500 : n \in Nat
  OBVIOUS
<1>7. PICK takeout \in 1000 .. 3000 : takeout = terms.takeout_bps
  BY <1>3
<1>8. PICK fee \in 0 .. 500 : fee = terms.spread_fee_bps
  BY <1>4
<1>9. takeout \in Nat /\ takeout <= 3000 /\ fee \in Nat
  BY <1>5, <1>6
<1> QED
  BY <1>1, <1>2, <1>7, <1>8, <1>9

LEMMA TermsOf ==
    ASSUME NEW m \in Markets
    PROVE  /\ Terms[m].mechanism \in {"fixed_odds", "parimutuel", "lmsr"}
           /\ Terms[m].fee_bps \in Nat
           /\ Terms[m].odds_minor \in [Sides -> Nat]
           /\ Terms[m].takeout_bps \in Nat /\ Terms[m].takeout_bps <= 3000
           /\ Terms[m].spread_fee_bps \in Nat
<1>1. Terms[m] \in MarketTerms
  BY TermsAssumption
<1> QED
  BY <1>1, TermsForm

\* The takeout, of at most 30%, is no more than the pool, rounded up as it is.
LEMMA TakeoutOfPool ==
    ASSUME NEW m \in Markets, NEW total \in Nat
    PROVE  Takeout(m, total) \in Nat /\ Takeout(m, total) <= total
<1> DEFINE bps == Terms[m].takeout_bps
<1>1. bps \in Nat /\ bps <= 3000
  BY TermsOf
<1> HIDE DEF bps
<1> DEFINE part == total * bps
<1>2. part \in Nat /\ part <= 3000 * total
  BY <1>1
<1> HIDE DEF part
<1>3. (part + 9999) \div 10000 \in Nat /\ (part + 9999) \div 10000 <= total
  BY <1>2
<1>4. Takeout(m, total) = (part + 9999) \div 10000
  BY DEF Takeout, part, bps
<1> QED
  BY <1>3, <1>4

\* What a bet wins and a cash-out costs.
LEMMA Worths ==
    ASSUME NEW t \in Ticket
    PROVE  Payout(t) \in Nat /\ CashoutFee(t) \in Nat /\ CashoutNet(t) \in Int
<1>1. t.market \in Markets /\ t.side \in Sides /\ t.stake \in Nat
  BY DEF Ticket
<1>2. Terms[t.market].odds_minor[t.side] \in Nat /\ Terms[t.market].fee_bps \in Nat
  BY <1>1, TermsOf
<1>3. Payout(t) \in Nat
  BY <1>1, <1>2, Product, Quotient DEF Payout
<1>4. Payout(t) * Terms[t.market].fee_bps \in Nat
  BY <1>2, <1>3, Product
<1>5. CashoutFee(t) \in Nat
  BY <1>4 DEF CashoutFee
<1> QED
  BY <1>3, <1>5 DEF CashoutNet

\* A share of a pool.
LEMMA SharesAreNat ==
    ASSUME NEW m \in Markets, NEW pool \in [Sides -> Nat], NEW side \in Sides,
           pool[side] # 0, NEW amount \in Nat
    PROVE  PoolShares(m, pool, side, amount) \subseteq Nat
<1> DEFINE total == pool["YES"] + pool["NO"]
           after == total - Takeout(m, total)
           share == (amount * after) \div pool[side]
<1>1. total \in Nat /\ pool[side] \in Nat
  BY DEF Sides
<1>3. after \in Nat
  <2> HIDE DEF total
  <2>1. Takeout(m, total) \in Nat /\ Takeout(m, total) <= total
    BY <1>1, TakeoutOfPool
  <2> QED
    BY <1>1, <2>1
<1>4. share \in Nat
  <2> HIDE DEF after
  <2>1. amount * after \in Nat
    BY <1>3, Product
  <2> QED
    BY <1>1, <2>1, Quotient
<1>5. PoolShares(m, pool, side, amount) \subseteq {share} \cup {share - 1} /\ (share = 0 => share - 1 \notin PoolShares(m, pool, side, amount))
  BY <1>4 DEF PoolShares
<1> HIDE DEF share
<1> QED
  BY <1>4, <1>5

\* The table of excesses, taken for 0 where it ends.
ExcessAt(gap) == IF gap <= MaxGap THEN Excess[gap] ELSE 0

\* The excess falls as the gap grows, and by less.
LEMMA ExcessFalls ==
    ASSUME NEW g \in Nat, NEW h \in Nat, g <= h
    PROVE  /\ ExcessAt(g) \in Nat /\ ExcessAt(h) \in Nat
           /\ ExcessAt(h) <= ExcessAt(g)
           /\ ExcessAt(g) <= ExcessAt(h) + Million * (h - g)
<1> USE ExcessAssumption
<1>1. \A x \in Nat : ExcessAt(x) \in Nat
  BY DEF ExcessAt
<1>2. CASE h <= MaxGap
  BY <1>1, <1>2 DEF ExcessAt, Million
<1>3. CASE g > MaxGap
  BY <1>1, <1>3 DEF ExcessAt, Million
<1>4. CASE g <= MaxGap /\ h > MaxGap
  <2>1. Excess[g] <= Excess[MaxGap] + Million * (MaxGap - g) /\ Excess[MaxGap] <= Million
    BY <1>4
  <2>2. Excess[g] \in Nat /\ Excess[MaxGap] \in Nat /\ MaxGap \in Nat /\ h - g >= MaxGap - g + 1
    BY <1>4
  <2>3. Excess[g] <= Million * (h - g)
    BY <2>1, <2>2 DEF Million
  <2>4. ExcessAt(g) = Excess[g] /\ ExcessAt(h) = 0
    BY <1>4, <2>2 DEF ExcessAt
  <2> QED
    BY <2>2, <2>3, <2>4 DEF Million
<1> QED
  BY <1>2, <1>3, <1>4

LEMMA Extremes ==
    ASSUME NEW a \in Nat, NEW b \in Nat, a <= b
    PROVE  Max({a, b}) = b /\ Max({b, a}) = b /\ Min({a, b}) = a /\ Min({b, a}) = a
<1>1. /\ \A x \in {a, b} : (\A y \in {a, b} : x >= y) <=> x = b
      /\ \A x \in {a, b} : (\A y \in {a, b} : x <= y) <=> x = a
      /\ {a, b} = {b, a}
  OBVIOUS
<1>2. Max({a, b}) = b
  BY <1>1 DEF Max
<1>3. Min({a, b}) = a
  BY <1>1 DEF Min
<1> QED
  BY <1>1, <1>2, <1>3

\* The cost function of quantities of which one is x and the other, not greater, y.
LEMMA CostAt ==
    ASSUME NEW shares \in [Sides -> Nat], NEW x \in Nat, NEW y \in Nat, y <= x,
           \/ shares["YES"] = x /\ shares["NO"] = y
           \/ shares["YES"] = y /\ shares["NO"] = x
    PROVE  CostFunction(shares) = Million * x + ExcessAt(x - y)
<1>1. /\ Max({shares["YES"], shares["NO"]}) = x
      /\ Min({shares["YES"], shares["NO"]}) = y
  BY Extremes
<1> QED
  BY <1>1 DEF CostFunction, ExcessAt

\* A purchase never costs less than nothing.
LEMMA CostGrows ==
    ASSUME NEW shares \in [Sides -> Nat], NEW side \in Sides, NEW amount \in Nat
    PROVE  LET after == [shares EXCEPT ![side] = @ + amount]
           IN  /\ CostFunction(shares) \in Nat /\ CostFunction(after) \in Nat
               /\ CostFunction(shares) <= CostFunction(after)
<1> DEFINE after == [shares EXCEPT ![side] = @ + amount]
<1> DEFINE other == IF side = "YES" THEN "NO" ELSE "YES"
<1>1. /\ shares[side] \in Nat /\ shares[other] \in Nat /\ after \in [Sides -> Nat]
      /\ after[side] = shares[side] + amount /\ after[other] = shares[other]
      /\ (side = "YES" /\ other = "NO") \/ (side = "NO" /\ other = "YES")
  BY DEF Sides
<1> DEFINE p == shares[side]  q == shares[other]  n == p + amount
<1>2. p \in Nat /\ q \in Nat /\ n \in Nat /\ p <= n /\ after[side] = n /\ after[other] = q
  BY <1>1
<1>4. (q <= p => CostFunction(shares) = Million * p + ExcessAt(p - q))
      /\ (p <= q => CostFunction(shares) = Million * q + ExcessAt(q - p))
  BY <1>1, <1>2, CostAt
<1>5. (q <= n => CostFunction(after) = Million * n + ExcessAt(n - q))
      /\ (n <= q => CostFunction(after) = Million * q + ExcessAt(q - n))
  <2> HIDE DEF after, n
  <2> QED
    BY <1>1, <1>2, CostAt
<1> HIDE DEF p, q, n, after
<1>6. /\ CostFunction(shares) \in Nat /\ CostFunction(after) \in Nat
      /\ CostFunction(shares) <= CostFunction(after)
  <2>1. CASE q <= p
    <3> DEFINE x == ExcessAt(p - q)  y == ExcessAt(n - q)
    <3>1. CostFunction(shares) = Million * p + x /\ CostFunction(after) = Million * n + y
      BY <1>2, <1>4, <1>5, <2>1
    <3>2. x \in Nat /\ y \in Nat
      BY <1>2, <2>1, ExcessFalls
    <3>3. x <= y + Million * ((n - q) - (p - q))
      BY <1>2, <2>1, ExcessFalls
    <3> HIDE DEF x, y
    <3> QED
      BY <1>2, <2>1, <3>1, <3>2, <3>3 DEF Million
  <2>2. CASE n <= q
    <3> DEFINE x == ExcessAt(q - p)  y == ExcessAt(q - n)
    <3>1. CostFunction(shares) = Million * q + x /\ CostFunction(after) = Million * q + y
      BY <1>2, <1>4, <1>5, <2>2
    <3>2. x \in Nat /\ y \in Nat
      BY <1>2, <2>2, ExcessFalls
    <3>3. x <= y
      BY <1>2, <2>2, ExcessFalls
    <3> HIDE DEF x, y
    <3> QED
      BY <1>2, <2>2, <3>1, <3>2, <3>3 DEF Million
  <2>3. CASE p <= q /\ q <= n /\ n - q <= q - p
    <3> DEFINE x == ExcessAt(q - p)  y == ExcessAt(n - q)
    <3>1. CostFunction(shares) = Million * q + x /\ CostFunction(after) = Million * n + y
      BY <1>2, <1>4, <1>5, <2>3
    <3>2. x \in Nat /\ y \in Nat
      BY <1>2, <2>3, ExcessFalls
    <3>3. x <= y
      BY <1>2, <2>3, ExcessFalls
    <3> HIDE DEF x, y
    <3> QED
      BY <1>2, <2>3, <3>1, <3>2, <3>3 DEF Million
  <2>4. CASE p <= q /\ q <= n /\ q - p <= n - q
    <3> DEFINE x == ExcessAt(q - p)  y == ExcessAt(n - q)
    <3>1. CostFunction(shares) = Million * q + x /\ CostFunction(after) = Million * n + y
      BY <1>2, <1>4, <1>5, <2>4
    <3>2. x \in Nat /\ y \in Nat
      BY <1>2, <2>4, ExcessFalls
    <3>3. x <= y + Million * ((n - q) - (q - p))
      BY <1>2, <2>4, ExcessFalls
    <3> HIDE DEF x, y
    <3> QED
      BY <1>2, <2>4, <3>1, <3>2, <3>3 DEF Million
  <2>5. \/ q <= p \/ n <= q
        \/ p <= q /\ q <= n /\ (n - q <= q - p \/ q - p <= n - q)
    BY <1>2
  <2> QED
    BY <2>1, <2>2, <2>3, <2>4, <2>5
<1> QED
  BY <1>6 DEF after

\* The price of a trade, and the fee on it.
LEMMA Prices ==
    ASSUME NEW r, r.side \in Sides, r.amount \in Nat, NEW shares \in [Sides -> Nat]
    PROVE  RawCost(shares, Bought(r, shares)) \in Nat
<1> DEFINE a == CostFunction(shares)  b == CostFunction(Bought(r, shares))
<1>1. a \in Nat /\ b \in Nat /\ a <= b
  BY CostGrows DEF Bought
<1> HIDE DEF a, b
<1>2. (b - a + 5000) \div 10000 \in Nat
  BY <1>1
<1> QED
  BY <1>2 DEF RawCost, a, b

LEMMA FeesAreNat ==
    ASSUME NEW m \in Markets, NEW cost \in Nat
    PROVE  SpreadFee(m, cost) \in Nat
<1>1. Terms[m].spread_fee_bps \in Nat
  BY TermsOf
<1>2. Terms[m].spread_fee_bps * cost \in Nat
  BY <1>1, Product
<1> QED
  BY <1>2 DEF SpreadFee

----------------------------------------------------------------------------
(***************************************************************************)
(* Wallets and rows.                                                       *)
(***************************************************************************)

\* What the wallet operations return.
LEMMA RecordTyped ==
    ASSUME NEW wallet \in Wallet, NEW type, NEW ref, NEW amount \in Nat
    PROVE  /\ Record(wallet, type, ref, amount) \in Wallet
           /\ Record(wallet, type, ref, amount).available = wallet.available
  BY DEF Wallet, Record

LEMMA CreditTyped ==
    ASSUME NEW wallet \in Wallet, NEW type, NEW ref, NEW amount \in Nat
    PROVE  Credit(wallet, type, ref, amount) \in Wallet
<1> DEFINE recorded == Record(wallet, type, ref, amount)
<1>1. recorded \in Wallet
  BY RecordTyped
<1> HIDE DEF recorded
<1>2. [recorded EXCEPT !.available = @ + amount] \in Wallet
  BY <1>1 DEF Wallet
<1> QED
  BY <1>2 DEF Credit, recorded

LEMMA DebitTyped ==
    ASSUME NEW wallet \in Wallet, NEW type, NEW ref, NEW amount \in Nat,
           amount <= wallet.available
    PROVE  /\ Debit(wallet, type, ref, amount) \in Wallet
           /\ Debit(wallet, type, ref, amount).available = wallet.available - amount
<1> DEFINE recorded == Record(wallet, type, ref, amount)
<1>1. recorded \in Wallet /\ recorded.available = wallet.available
  BY RecordTyped
<1> HIDE DEF recorded
<1>2. /\ [recorded EXCEPT !.available = @ - amount] \in Wallet
      /\ [recorded EXCEPT !.available = @ - amount].available = wallet.available - amount
  BY <1>1 DEF Wallet
<1> QED
  BY <1>2 DEF Debit, recorded

\* The versions of a row.
LEMMA VersionsTyped ==
    ASSUME NEW V, NEW row \in RowOf(V), NEW w \in Workers
    PROVE  Seen(row, w) \in V /\ row.now \in V /\ row.new \in V
  BY DEF RowOf, Seen

\* A table when a transaction ends.
LEMMA TablesTyped ==
    ASSUME NEW K, NEW V, NEW table \in [K -> RowOf(V)], NEW w \in Workers
    PROVE  /\ Published(table, w) \in [K -> RowOf(V)]
           /\ Discarded(table, w) \in [K -> RowOf(V)]
  BY DEF RowOf, Published, Discarded, Fresh

\* A table in which w locks, writes or has committed a row.
LEMMA TableWritten ==
    ASSUME NEW K, NEW V, NEW table \in [K -> RowOf(V)], NEW k \in K,
           NEW w \in Workers, NEW v \in V
    PROVE  /\ [table EXCEPT ![k] = Written(@, w, v)] \in [K -> RowOf(V)]
           /\ [table EXCEPT ![k] = Locked(@, w)] \in [K -> RowOf(V)]
           /\ [table EXCEPT ![k] = Fresh(v)] \in [K -> RowOf(V)]
  BY DEF RowOf, Written, Locked, Fresh

\* A row is locked, whichever it is.
LEMMA TableLocked ==
    ASSUME NEW K, NEW V, NEW table \in [K -> RowOf(V)], NEW k, NEW w \in Workers
    PROVE  [table EXCEPT ![k] = Locked(@, w)] \in [K -> RowOf(V)]
<1>1. CASE k \in K
  <2>1. table[k] \in RowOf(V)
    BY <1>1
  <2>2. Locked(table[k], w) \in RowOf(V)
    BY <2>1 DEF RowOf, Locked
  <2> QED
    BY <2>2
<1>2. CASE k \notin K
  BY <1>2
<1> QED
  BY <1>1, <1>2

\* A bet's status is written, whichever bet it is.
LEMMA BetStatusWritten ==
    ASSUME NEW table \in [BetIds -> RowOf(Bet)], NEW b, NEW w \in Workers, NEW s \in BetStatus
    PROVE  /\ [table EXCEPT ![b].new.status = s] \in [BetIds -> RowOf(Bet)]
           /\ [table EXCEPT ![b] = Written(@, w, [@.now EXCEPT !.status = s])]
                  \in [BetIds -> RowOf(Bet)]
<1>1. \A bet \in Bet : [bet EXCEPT !.status = s] \in Bet
  BY DEF Bet
<1>2. CASE b \in BetIds
  <2>1. PICK row \in RowOf(Bet) : row = table[b]
    BY <1>2
  <2>2. row.now \in Bet /\ row.new \in Bet
    BY DEF RowOf
  <2>3. [row.new EXCEPT !.status = s] \in Bet /\ [row.now EXCEPT !.status = s] \in Bet
    BY <1>1, <2>2
  <2>4. [row EXCEPT !.new.status = s] \in RowOf(Bet)
    BY <2>3 DEF RowOf
  <2>5. Written(row, w, [row.now EXCEPT !.status = s]) \in RowOf(Bet)
    BY <2>3 DEF RowOf, Written
  <2>6. [table EXCEPT ![b].new.status = s] = [table EXCEPT ![b] = [row EXCEPT !.new.status = s]]
    BY <2>1
  <2>7. [table EXCEPT ![b] = Written(@, w, [@.now EXCEPT !.status = s])]
            = [table EXCEPT ![b] = Written(row, w, [row.now EXCEPT !.status = s])]
    BY <2>1
  <2> QED
    BY <2>4, <2>5, <2>6, <2>7
<1>3. CASE b \notin BetIds
  BY <1>3
<1> QED
  BY <1>2, <1>3

----------------------------------------------------------------------------
(***************************************************************************)
(* Requests.                                                               *)
(***************************************************************************)

\* What a request of each kind carries.
LEMMA RequestForms ==
    ASSUME NEW r \in Request \cup {NoRequest}
    PROVE  /\ r.op \in {"none", "place", "quote", "execute", "void", "cashout", "stake",
                        "trade", "settle", "annul", "patch", "approve", "reject"}
           /\ r.op = "place" => r.ticket \in Ticket
           /\ r.op = "quote" => r.slip \in Slips /\ r.user \in Users /\ r.items \in Seq(Ticket)
           /\ r.op = "execute" => r.slip \in Slips
           /\ r.op \in {"void", "cashout"} => r.bet \in BetIds
           /\ r.op \in {"stake", "trade"} =>
                  r.user \in Users /\ r.market \in Markets /\ r.side \in Sides /\ r.amount \in Nat
           /\ r.op = "settle" => r.market \in Markets /\ r.outcome \in Sides
           /\ r.op = "annul" => r.market \in Markets
           /\ r.op = "patch" => r.market \in Markets /\ r.status \in MarketStatus
           /\ r.op \in {"approve", "reject"} => r.grant \in Grants
  BY DEF Request, NoRequest, MarketStatus

\* A worker that is served an idle request's variables.
LEMMA NoTxTyped == NoTx \in Tx
<1> DEFINE zero == [s \in Sides |-> 0]
<1>1. <<>> \in Seq(Ticket) /\ {} \in SUBSET Nat /\ 0 \in BetIds \cup {0} /\ 0 \in Nat
  OBVIOUS
<1>2. zero \in [Sides -> Nat]
  OBVIOUS
<1>3. NoTx = [items |-> <<>>, batch |-> {}, bet |-> 0, pool |-> zero, due |-> 0]
  BY DEF NoTx
<1> HIDE DEF zero
<1> QED
  BY <1>1, <1>2, <1>3 DEF Tx

LEMMA TicketForm ==
    ASSUME NEW t \in Ticket
    PROVE  t.user \in Users /\ t.market \in Markets /\ t.side \in Sides /\ t.stake \in Nat
  BY DEF Ticket

LEMMA HeadAndTail ==
    ASSUME NEW items \in Seq(Ticket), items # <<>>
    PROVE  /\ Head(items) \in Ticket /\ Tail(items) \in Seq(Ticket)
           /\ Len(items) # 1 => Tail(items) # <<>>
<1>1. /\ Head(items) \in Ticket /\ Tail(items) \in Seq(Ticket)
      /\ Len(Tail(items)) = Len(items) - 1 /\ Len(items) \in Nat
  BY HeadTailProperties, EmptySeq
<1>2. Len(<<>>) = 0
  BY EmptySeq
<1> QED
  BY <1>1, <1>2

----------------------------------------------------------------------------
(***************************************************************************)
(* Steps.                                                                  *)
(***************************************************************************)

TablesTypedNow ==
    /\ wallets \in [Users -> RowOf(Wallet)]
    /\ markets \in [Markets -> RowOf(Market)]
    /\ bets \in [BetIds -> RowOf(Bet)]
    /\ stakes \in [StakeIds -> RowOf(Stake)]
    /\ quotes \in [Slips -> RowOf(Quote)]
    /\ grants \in [Grants -> RowOf(Grant)]

\* Quotes are not taken back.
QuotesStay ==
    \A k \in Slips : quotes[k].now.status # "none" => quotes'[k].now.status # "none"

\* A step of w leaves the other workers served, if the quotes there are stay.
LEMMA StepServes ==
    ASSUME NEW w \in Workers, HouseTyped, TablesTypedNow',
           expired' \subseteq Markets, lapsed' \subseteq Slips, todo' \subseteq todo,
           pc' \in [Workers -> Statement], req' \in [Workers -> Request \cup {NoRequest}],
           tx' \in [Workers -> Tx],
           \A v \in Workers \ {w} : pc'[v] = pc[v] /\ req'[v] = req[v] /\ tx'[v] = tx[v],
           QuotesStay, QuotesAsk', ServingOK(w)'
    PROVE  HouseTyped'
<1>1. TypeOK'
  BY DEF HouseTyped, TypeOK, TablesTypedNow
<1>2. ASSUME NEW v \in Workers, v # w
      PROVE  ServingOK(v)'
  <2>1. ServingOK(v) /\ pc'[v] = pc[v] /\ req'[v] = req[v] /\ tx'[v] = tx[v]
    BY <1>2 DEF HouseTyped, Serving
  <2>2. req[v].op = "execute" => req[v].slip \in Slips
    <3>1. req[v] \in Request \cup {NoRequest}
      BY DEF HouseTyped, TypeOK
    <3> QED
      BY <3>1, RequestForms
  <2>3. pc[v] \in {"claim", "look", "risk", "debit", "insert"} /\ req[v].op = "execute" =>
            quotes'[req[v].slip].now.status # "none"
    BY <2>1, <2>2 DEF QuotesStay, ServingOK
  <2> QED
    BY <2>1, <2>3 DEF ServingOK, BatchOK
<1>3. Serving'
  BY <1>2 DEF Serving
<1> QED
  BY <1>1, <1>3 DEF HouseTyped

\* A step of w that leaves quotes and requests alone.
LEMMA StepOn ==
    ASSUME NEW w \in Workers, HouseTyped, TablesTypedNow', quotes' = quotes,
           UNCHANGED <<clocks, todo, req>>,
           pc'[w] \in Statement, pc' = [pc EXCEPT ![w] = pc'[w]],
           tx'[w] \in Tx, tx' = [tx EXCEPT ![w] = tx'[w]],
           ServingOK(w)'
    PROVE  HouseTyped'
<1>1. /\ pc \in [Workers -> Statement] /\ tx \in [Workers -> Tx]
      /\ req \in [Workers -> Request \cup {NoRequest}]
      /\ expired \subseteq Markets /\ lapsed \subseteq Slips
  BY DEF HouseTyped, TypeOK
<1>2. pc' \in [Workers -> Statement] /\ tx' \in [Workers -> Tx]
  BY <1>1
<1>3. \A v \in Workers \ {w} : pc'[v] = pc[v] /\ req'[v] = req[v] /\ tx'[v] = tx[v]
  BY <1>1
<1>4. QuotesStay /\ QuotesAsk'
  BY DEF QuotesStay, QuotesAsk, HouseTyped
<1> QED
  BY <1>1, <1>2, <1>3, <1>4, StepServes DEF clocks

\* A free worker that takes a request.
LEMMA StepAccepts ==
    ASSUME NEW w \in Workers, NEW r \in todo, HouseTyped, Accept(w, r),
           UNCHANGED <<tables, clocks>>,
           pc'[w] \in Statement, pc' = [pc EXCEPT ![w] = pc'[w]],
           tx'[w] \in Tx, tx' = [tx EXCEPT ![w] = tx'[w]],
           ServingOK(w)'
    PROVE  HouseTyped'
<1>1. /\ pc \in [Workers -> Statement] /\ tx \in [Workers -> Tx]
      /\ req \in [Workers -> Request \cup {NoRequest}] /\ r \in Request
      /\ expired \subseteq Markets /\ lapsed \subseteq Slips
  BY DEF HouseTyped, TypeOK
<1>2. /\ pc' \in [Workers -> Statement] /\ tx' \in [Workers -> Tx]
      /\ req' \in [Workers -> Request \cup {NoRequest}] /\ todo' \subseteq todo
  BY <1>1 DEF Accept
<1>3. \A v \in Workers \ {w} : pc'[v] = pc[v] /\ req'[v] = req[v] /\ tx'[v] = tx[v]
  BY <1>1 DEF Accept
<1>4. QuotesStay /\ QuotesAsk' /\ TablesTypedNow'
  BY DEF QuotesStay, QuotesAsk, HouseTyped, TablesTypedNow, TypeOK, tables
<1> QED
  BY <1>1, <1>2, <1>3, <1>4, StepServes DEF clocks

\* What may be used of the invariant at the start of a step.
LEMMA Typed ==
    ASSUME HouseTyped, NEW w \in Workers
    PROVE  /\ TablesTypedNow
           /\ pc \in [Workers -> Statement] /\ pc[w] \in Statement
           /\ tx \in [Workers -> Tx] /\ tx[w] \in Tx
           /\ req \in [Workers -> Request \cup {NoRequest}]
           /\ req[w] \in Request \cup {NoRequest}
           /\ ServingOK(w)
  BY DEF HouseTyped, TypeOK, TablesTypedNow, Serving

\* The end of a request.
LEMMA EndTyped ==
    ASSUME NEW w \in Workers, HouseTyped, TablesTypedNow', EndRequest(w),
           UNCHANGED <<clocks, todo>>, QuotesStay, QuotesAsk'
    PROVE  HouseTyped'
<1>1. /\ pc \in [Workers -> Statement] /\ tx \in [Workers -> Tx]
      /\ req \in [Workers -> Request \cup {NoRequest}]
      /\ expired \subseteq Markets /\ lapsed \subseteq Slips
  BY DEF HouseTyped, TypeOK
<1>2. /\ pc' \in [Workers -> Statement] /\ tx' \in [Workers -> Tx]
      /\ req' \in [Workers -> Request \cup {NoRequest}]
  BY <1>1, NoTxTyped DEF EndRequest, Goto, Statement
<1>3. \A v \in Workers \ {w} : pc'[v] = pc[v] /\ req'[v] = req[v] /\ tx'[v] = tx[v]
  BY <1>1 DEF EndRequest, Goto
<1>4. pc'[w] = "idle" /\ req'[w] = NoRequest
  BY <1>1 DEF EndRequest, Goto
<1>5. ServingOK(w)'
  BY <1>4 DEF ServingOK, BatchOK, OpsAt, NoRequest
<1> QED
  BY <1>1, <1>2, <1>3, <1>5, StepServes DEF clocks

LEMMA RollbackTyped ==
    ASSUME NEW w \in Workers, HouseTyped, Rollback(w)
    PROVE  HouseTyped'
<1>1. TablesTypedNow'
  BY Typed, TablesTyped DEF TablesTypedNow, Rollback
<1>2. QuotesStay /\ QuotesAsk'
  BY Typed DEF QuotesStay, QuotesAsk, HouseTyped, TablesTypedNow, Rollback, Discarded, Fresh
<1> QED
  BY <1>1, <1>2, EndTyped DEF Rollback, clocks

LEMMA CommitTyped ==
    ASSUME NEW w \in Workers, HouseTyped, Commit(w)
    PROVE  HouseTyped'
<1>1. TablesTypedNow'
  BY Typed, TablesTyped DEF TablesTypedNow, Commit
<1>2. QuotesStay /\ QuotesAsk'
  BY Typed DEF QuotesStay, QuotesAsk, HouseTyped, TablesTypedNow, Commit, Published, Fresh
<1> QED
  BY <1>1, <1>2, EndTyped DEF Commit, clocks

----------------------------------------------------------------------------
(***************************************************************************)
(* Bets at fixed odds.                                                     *)
(***************************************************************************)

LEMMA StartPlaceTyped ==
    ASSUME NEW w \in Workers, HouseTyped, StartPlace(w)
    PROVE  HouseTyped'
<1>1. PICK r \in todo : /\ r.op = "place" /\ Accept(w, r)
                        /\ tx' = [tx EXCEPT ![w].items = <<r.ticket>>]
                        /\ Goto(w, "look") /\ UNCHANGED <<tables, clocks, load>>
  BY DEF StartPlace
<1>2. r.ticket \in Ticket
  BY <1>1, RequestForms DEF HouseTyped, TypeOK
<1>3. <<r.ticket>> \in Seq(Ticket) /\ <<r.ticket>> # <<>>
  BY <1>2
<1>4. tx'[w] \in Tx /\ tx' = [tx EXCEPT ![w] = tx'[w]] /\ tx'[w].items = <<r.ticket>>
  BY <1>1, <1>3, Typed DEF Tx
<1>5. pc' = [pc EXCEPT ![w] = "look"] /\ pc'[w] = "look" /\ req'[w] = r
  BY <1>1, Typed DEF Goto, Accept
<1>6. ServingOK(w)'
  BY <1>1, <1>3, <1>4, <1>5 DEF ServingOK, BatchOK, OpsAt
<1> QED
  BY <1>1, <1>4, <1>5, <1>6, StepAccepts DEF Statement

LEMMA StartExecuteTyped ==
    ASSUME NEW w \in Workers, HouseTyped, StartExecute(w)
    PROVE  HouseTyped'
<1>1. PICK r \in todo : /\ r.op = "execute" /\ Accept(w, r)
                        /\ quotes[r.slip].now.status = "pending"
                        /\ Goto(w, "claim") /\ UNCHANGED <<tables, clocks, load, tx>>
  BY DEF StartExecute
<1>2. pc' = [pc EXCEPT ![w] = "claim"] /\ pc'[w] = "claim" /\ req'[w] = r
  BY <1>1, Typed DEF Goto, Accept
<1>3. ServingOK(w)'
  BY <1>1, <1>2 DEF ServingOK, BatchOK, OpsAt, tables
<1>4. tx'[w] \in Tx /\ tx' = [tx EXCEPT ![w] = tx'[w]]
  BY <1>1, Typed
<1> QED
  BY <1>1, <1>2, <1>3, <1>4, StepAccepts DEF Statement

\* A step of w that only goes to another statement.
LEMMA GotoTyped ==
    ASSUME NEW w \in Workers, HouseTyped, NEW s \in Statement, Goto(w, s),
           UNCHANGED <<tables, clocks, todo, req, tx>>, ServingOK(w)'
    PROVE  HouseTyped'
<1>1. pc' = [pc EXCEPT ![w] = s] /\ pc'[w] = s
  BY Typed DEF Goto
<1>2. TablesTypedNow' /\ tx'[w] \in Tx /\ tx' = [tx EXCEPT ![w] = tx'[w]]
  BY Typed DEF TablesTypedNow, tables
<1> QED
  BY <1>1, <1>2, StepOn DEF tables

LEMMA LookTyped ==
    ASSUME NEW w \in Workers, HouseTyped, Look(w)
    PROVE  HouseTyped'
<1>1. CASE Rollback(w)
  BY <1>1, RollbackTyped
<1>2. CASE ~Rollback(w)
  <2>1. pc[w] = "look" /\ Goto(w, "risk") /\ UNCHANGED <<tables, clocks, load, todo, req, tx>>
    BY <1>2 DEF Look
  <2>2. ServingOK(w)'
    BY <2>1, Typed DEF ServingOK, BatchOK, OpsAt, Goto, tables
  <2> QED
    BY <2>1, <2>2, GotoTyped DEF Statement
<1> QED
  BY <1>1, <1>2

LEMMA AssessTyped ==
    ASSUME NEW w \in Workers, HouseTyped, Assess(w)
    PROVE  HouseTyped'
<1>1. CASE Rollback(w)
  BY <1>1, RollbackTyped
<1>2. CASE ~Rollback(w)
  <2>1. pc[w] = "risk" /\ Goto(w, "debit") /\ UNCHANGED <<tables, clocks, load, todo, req, tx>>
    BY <1>2 DEF Assess
  <2>2. ServingOK(w)'
    BY <2>1, Typed DEF ServingOK, BatchOK, OpsAt, Goto, tables
  <2> QED
    BY <2>1, <2>2, GotoTyped DEF Statement
<1> QED
  BY <1>1, <1>2

LEMMA ClaimTyped ==
    ASSUME NEW w \in Workers, HouseTyped, Claim(w)
    PROVE  HouseTyped'
<1>1. CASE Rollback(w)
  BY <1>1, RollbackTyped
<1>2. CASE ~Rollback(w)
  <2> DEFINE k == req[w].slip
  <2>1. /\ pc[w] = "claim" /\ quotes' = [quotes EXCEPT ![k] = Locked(@, w)]
        /\ tx' = [tx EXCEPT ![w].items = quotes[k].now.items]
        /\ Goto(w, "look")
        /\ UNCHANGED <<wallets, markets, bets, stakes, grants, clocks, load, todo, req>>
    BY <1>2 DEF Claim
  <2>2. req[w].op = "execute" /\ k \in Slips /\ quotes[k].now.status # "none"
    BY <2>1, Typed, RequestForms DEF ServingOK, OpsAt
  <2> HIDE DEF k
  <2>3. quotes[k] \in RowOf(Quote) /\ quotes \in [Slips -> RowOf(Quote)]
    BY <2>2, Typed DEF TablesTypedNow
  <2>4. quotes[k].now.items \in Seq(Ticket) /\ quotes[k].now.items # <<>>
    BY <2>2, <2>3 DEF RowOf, Quote, HouseTyped, QuotesAsk
  <2>5. TablesTypedNow'
    <3>1. quotes' \in [Slips -> RowOf(Quote)]
      BY <2>1, <2>3 DEF RowOf, Locked
    <3> QED
      BY <2>1, <3>1, Typed DEF TablesTypedNow
  <2>6. tx'[w] \in Tx /\ tx' \in [Workers -> Tx] /\ tx'[w].items # <<>>
        /\ \A v \in Workers \ {w} : tx'[v] = tx[v]
    BY <2>1, <2>4, Typed DEF Tx
  <2>7. /\ pc' \in [Workers -> Statement] /\ pc'[w] = "look"
        /\ \A v \in Workers \ {w} : pc'[v] = pc[v] /\ req'[v] = req[v]
    BY <2>1, Typed DEF Goto, Statement
  <2>8. \A j \in Slips : quotes'[j].now = quotes[j].now /\ quotes'[j].new = quotes[j].new
    BY <2>1, <2>3 DEF RowOf, Locked
  <2>9. ServingOK(w)'
    <3>1. quotes'[req[w].slip].now.status # "none"
      BY <2>2, <2>8 DEF k
    <3> QED
      BY <2>1, <2>2, <2>6, <2>7, <3>1 DEF ServingOK, BatchOK, OpsAt
  <2>10. QuotesStay /\ QuotesAsk'
    BY <2>8 DEF QuotesStay, QuotesAsk, HouseTyped
  <2>11. /\ expired' \subseteq Markets /\ lapsed' \subseteq Slips /\ todo' \subseteq todo
         /\ req' \in [Workers -> Request \cup {NoRequest}]
    BY <2>1, Typed DEF HouseTyped, TypeOK, clocks
  <2> QED
    BY <2>5, <2>6, <2>7, <2>9, <2>10, <2>11, StepServes
<1> QED
  BY <1>1, <1>2

LEMMA DebitStakeTyped ==
    ASSUME NEW w \in Workers, HouseTyped, DebitStake(w)
    PROVE  HouseTyped'
<1>1. CASE Rollback(w)
  BY <1>1, RollbackTyped
<1>2. CASE ~Rollback(w)
  <2> DEFINE t == Head(tx[w].items)
             wallet == Seen(wallets[t.user], w)
             paid == [wallet EXCEPT !.available = @ - t.stake]
  <2>1. /\ pc[w] = "debit" /\ ~(wallet.available < t.stake)
        /\ wallets' = [wallets EXCEPT ![t.user] = Written(@, w, paid)]
        /\ Goto(w, "insert")
        /\ UNCHANGED <<markets, bets, stakes, quotes, grants, clocks, load, todo, req, tx>>
    BY <1>2, Zenon DEF DebitStake
  <2>2. tx[w].items \in Seq(Ticket) /\ tx[w].items # <<>>
    BY <2>1, Typed DEF ServingOK, Tx
  <2>3. t \in Ticket /\ t.user \in Users /\ t.stake \in Nat
    BY <2>2, HeadAndTail, TicketForm
  <2> HIDE DEF t
  <2>4. wallets \in [Users -> RowOf(Wallet)] /\ wallet \in Wallet
    BY <2>3, Typed, VersionsTyped DEF TablesTypedNow
  <2> HIDE DEF wallet
  <2>5. paid \in Wallet
    BY <2>1, <2>3, <2>4 DEF Wallet
  <2> HIDE DEF paid
  <2>6. wallets' \in [Users -> RowOf(Wallet)]
    BY <2>1, <2>3, <2>4, <2>5, TableWritten
  <2>7. TablesTypedNow'
    BY <2>1, <2>6, Typed DEF TablesTypedNow
  <2>8. pc' = [pc EXCEPT ![w] = "insert"] /\ pc'[w] = "insert"
    BY <2>1, Typed DEF Goto
  <2>9. ServingOK(w)'
    BY <2>1, <2>2, <2>8, Typed DEF ServingOK, BatchOK, OpsAt
  <2>10. tx'[w] \in Tx /\ tx' = [tx EXCEPT ![w] = tx'[w]]
    BY <2>1, Typed
  <2> QED
    BY <2>1, <2>7, <2>8, <2>9, <2>10, StepOn DEF Statement
<1> QED
  BY <1>1, <1>2

LEMMA InsertBetTyped ==
    ASSUME NEW w \in Workers, HouseTyped, InsertBet(w)
    PROVE  HouseTyped'
<1> DEFINE t == Head(tx[w].items)
           slip == IF req[w].op = "execute" THEN req[w].slip ELSE Nobody
           last == Len(tx[w].items) = 1
           bet == [ticket |-> t, slip |-> slip, status |-> "open"]
<1>1. PICK b \in FreeBets :
          /\ bets' = [bets EXCEPT ![b] = Written(@, w, bet)]
          /\ wallets' = [wallets EXCEPT ![t.user].new = Record(@, "BET_STAKE", b, t.stake)]
  BY Zenon DEF InsertBet
<1>2. /\ pc[w] = "insert"
      /\ quotes' = IF last /\ slip # Nobody
                   THEN [quotes EXCEPT ![slip].new.status = "executed"] ELSE quotes
      /\ tx' = [tx EXCEPT ![w].items = Tail(@)]
      /\ Goto(w, IF last THEN "commit" ELSE "look")
      /\ UNCHANGED <<markets, stakes, grants, clocks, load, todo, req>>
  BY DEF InsertBet
<1>3. /\ req[w].op \in {"place", "execute"}
      /\ tx[w].items \in Seq(Ticket) /\ tx[w].items # <<>> /\ tx[w] \in Tx
  BY <1>2, Typed DEF ServingOK, OpsAt, Tx
<1>4. t \in Ticket /\ t.user \in Users /\ t.stake \in Nat
      /\ Tail(tx[w].items) \in Seq(Ticket) /\ (~last => Tail(tx[w].items) # <<>>)
  BY <1>3, HeadAndTail, TicketForm
<1>5. slip \in Slips \cup {Nobody} /\ b \in BetIds
  BY <1>3, Typed, RequestForms DEF FreeBets
<1> HIDE DEF t, slip, last
<1>6. bet \in Bet
  BY <1>4, <1>5 DEF Bet, BetStatus
<1> HIDE DEF bet
<1>7. bets' \in [BetIds -> RowOf(Bet)]
  BY <1>1, <1>5, <1>6, Typed, TableWritten DEF TablesTypedNow
<1>8. wallets' \in [Users -> RowOf(Wallet)]
  <2> DEFINE row == wallets[t.user]
  <2>1. wallets \in [Users -> RowOf(Wallet)] /\ row \in RowOf(Wallet)
    BY <1>4, Typed DEF TablesTypedNow
  <2>2. Record(row.new, "BET_STAKE", b, t.stake) \in Wallet
    BY <1>4, <2>1, RecordTyped DEF RowOf
  <2>3. [row EXCEPT !.new = Record(row.new, "BET_STAKE", b, t.stake)] \in RowOf(Wallet)
    BY <2>1, <2>2 DEF RowOf
  <2>4. wallets' = [wallets EXCEPT ![t.user] =
                       [row EXCEPT !.new = Record(row.new, "BET_STAKE", b, t.stake)]]
    BY <1>1
  <2> HIDE DEF row
  <2> QED
    BY <2>1, <2>3, <2>4
<1>9. /\ quotes' \in [Slips -> RowOf(Quote)]
      /\ \A k \in Slips : /\ quotes'[k].now = quotes[k].now
                          /\ quotes'[k].new.items = quotes[k].new.items
                          /\ \/ quotes'[k].new.status = quotes[k].new.status
                             \/ quotes'[k].new.status = "executed" /\ k = slip /\ slip # Nobody
  <2>1. quotes \in [Slips -> RowOf(Quote)]
    BY Typed DEF TablesTypedNow
  <2>2. CASE quotes' = quotes
    BY <2>1, <2>2
  <2>3. CASE slip # Nobody /\ quotes' = [quotes EXCEPT ![slip].new.status = "executed"]
    <3>1. slip \in Slips
      BY <1>5, <2>3
    <3>2. PICK row \in RowOf(Quote) : row = quotes[slip]
      BY <2>1, <3>1
    <3>3. PICK new : new = [row EXCEPT !.new.status = "executed"]
      OBVIOUS
    <3>4. /\ new \in RowOf(Quote) /\ new.now = row.now
          /\ new.new.items = row.new.items /\ new.new.status = "executed"
      BY <3>3 DEF RowOf, Quote
    <3>5. quotes' = [quotes EXCEPT ![slip] = new]
      BY <2>3, <3>2, <3>3
    <3>6. quotes'[slip] = new /\ \A k \in Slips : k # slip => quotes'[k] = quotes[k]
      BY <2>1, <3>1, <3>5
    <3>7. quotes' \in [Slips -> RowOf(Quote)]
      BY <2>1, <3>4, <3>5
    <3> QED
      BY <2>3, <3>2, <3>4, <3>6, <3>7
  <2> QED
    BY <1>2, <2>2, <2>3
<1>10. slip # Nobody => quotes[slip].now.status # "none" /\ slip \in Slips
  <2>1. CASE req[w].op = "execute"
    BY <1>2, <1>5, <2>1, Typed DEF ServingOK, slip
  <2>2. CASE req[w].op # "execute"
    BY <2>2 DEF slip
  <2> QED
    BY <2>1, <2>2
<1>11. QuotesStay /\ QuotesAsk'
  BY <1>9, <1>10 DEF QuotesStay, QuotesAsk, HouseTyped
<1>12. TablesTypedNow'
  BY <1>2, <1>7, <1>8, <1>9, Typed DEF TablesTypedNow
<1>13. /\ tx'[w] \in Tx /\ tx' \in [Workers -> Tx] /\ (~last => tx'[w].items # <<>>)
       /\ \A v \in Workers \ {w} : tx'[v] = tx[v]
  BY <1>2, <1>3, <1>4, Typed DEF Tx
<1>14. /\ pc' \in [Workers -> Statement] /\ pc'[w] = IF last THEN "commit" ELSE "look"
       /\ \A v \in Workers \ {w} : pc'[v] = pc[v] /\ req'[v] = req[v]
  BY <1>2, Typed DEF Goto, Statement
<1>15. ServingOK(w)'
  <2>1. CASE last
    BY <1>2, <1>3, <1>14, <2>1 DEF ServingOK, BatchOK, OpsAt
  <2>2. CASE ~last
    <3>1. req[w].op = "execute" => quotes'[req[w].slip].now.status # "none"
      BY <1>2, <1>9, Typed, RequestForms DEF ServingOK
    <3> QED
      BY <1>2, <1>3, <1>13, <1>14, <2>2, <3>1 DEF ServingOK, BatchOK, OpsAt
  <2> QED
    BY <2>1, <2>2
<1>16. /\ expired' \subseteq Markets /\ lapsed' \subseteq Slips /\ todo' \subseteq todo
       /\ req' \in [Workers -> Request \cup {NoRequest}]
  BY <1>2, Typed DEF HouseTyped, TypeOK, clocks
<1> QED
  BY <1>11, <1>12, <1>13, <1>14, <1>15, <1>16, StepServes

LEMMA StartQuoteTyped ==
    ASSUME NEW w \in Workers, HouseTyped, StartQuote(w)
    PROVE  HouseTyped'
<1>1. PICK r \in todo : /\ r.op = "quote" /\ Accept(w, r) /\ r.items # <<>>
                        /\ Goto(w, "register") /\ UNCHANGED <<tables, clocks, load, tx>>
  BY DEF StartQuote
<1>2. pc' = [pc EXCEPT ![w] = "register"] /\ pc'[w] = "register" /\ req'[w] = r
  BY <1>1, Typed DEF Goto, Accept
<1>3. ServingOK(w)'
  BY <1>1, <1>2 DEF ServingOK, BatchOK, OpsAt
<1>4. tx'[w] \in Tx /\ tx' = [tx EXCEPT ![w] = tx'[w]]
  BY <1>1, Typed
<1> QED
  BY <1>1, <1>2, <1>3, <1>4, StepAccepts DEF Statement

LEMMA RegisterTyped ==
    ASSUME NEW w \in Workers, HouseTyped, Register(w)
    PROVE  HouseTyped'
<1> DEFINE k == req[w].slip
           quote == [user |-> req[w].user, items |-> req[w].items, status |-> "pending"]
<1>1. /\ pc[w] = "register"
      /\ quotes' = IF quotes[k].now.status # "none" THEN quotes
                   ELSE [quotes EXCEPT ![k] = Fresh(quote)]
      /\ EndRequest(w)
      /\ UNCHANGED <<wallets, markets, bets, stakes, grants, clocks, load, todo>>
  BY DEF Register
<1>2. req[w].op = "quote" /\ req[w].items # <<>>
  BY <1>1, Typed DEF ServingOK, OpsAt
<1>3. k \in Slips /\ req[w].user \in Users /\ req[w].items \in Seq(Ticket)
  BY <1>2, Typed, RequestForms
<1>4. quote \in Quote /\ quote.items # <<>> /\ quote.status = "pending"
  BY <1>2, <1>3 DEF Quote
<1> HIDE DEF k, quote
<1>5. quotes \in [Slips -> RowOf(Quote)]
  BY Typed DEF TablesTypedNow
<1>6. quotes' \in [Slips -> RowOf(Quote)]
  BY <1>1, <1>3, <1>4, <1>5, TableWritten
<1>7. QuotesStay /\ QuotesAsk'
  BY <1>1, <1>3, <1>4, <1>5 DEF QuotesStay, QuotesAsk, HouseTyped, Fresh
<1>8. TablesTypedNow'
  BY <1>1, <1>6, Typed DEF TablesTypedNow
<1> QED
  BY <1>1, <1>7, <1>8, EndTyped

\* A step of the clock or the close job.
LEMMA ClockStep ==
    ASSUME HouseTyped, TablesTypedNow', quotes' = quotes,
           expired' \subseteq Markets, lapsed' \subseteq Slips,
           UNCHANGED <<todo, pc, req, tx>>
    PROVE  HouseTyped'
<1>1. TypeOK'
  BY DEF HouseTyped, TypeOK, TablesTypedNow
<1>2. Serving' /\ QuotesAsk'
  BY DEF HouseTyped, Serving, ServingOK, BatchOK, QuotesAsk
<1> QED
  BY <1>1, <1>2 DEF HouseTyped

LEMMA LapseTyped ==
    ASSUME NEW k \in Slips, HouseTyped, Lapse(k)
    PROVE  HouseTyped'
  BY ClockStep DEF Lapse, HouseTyped, TypeOK, TablesTypedNow, tables

LEMMA StartLeaveTyped ==
    ASSUME NEW w \in Workers, HouseTyped, StartLeave(w)
    PROVE  HouseTyped'
<1>1. PICK r \in todo : /\ r.op \in {"void", "cashout"} /\ Accept(w, r)
                        /\ tx' = [tx EXCEPT ![w].bet = r.bet]
                        /\ Goto(w, "bet") /\ UNCHANGED <<tables, clocks, load>>
  BY DEF StartLeave
<1>2. r.bet \in BetIds
  BY <1>1, RequestForms DEF HouseTyped, TypeOK
<1>3. tx'[w] \in Tx /\ tx' = [tx EXCEPT ![w] = tx'[w]] /\ tx'[w].bet = r.bet
  BY <1>1, <1>2, Typed DEF Tx
<1>4. pc' = [pc EXCEPT ![w] = "bet"] /\ pc'[w] = "bet" /\ req'[w] = r
  BY <1>1, Typed DEF Goto, Accept
<1>5. ServingOK(w)'
  BY <1>1, <1>2, <1>3, <1>4 DEF ServingOK, BatchOK, OpsAt
<1> QED
  BY <1>1, <1>3, <1>4, <1>5, StepAccepts DEF Statement

\* A step of w at a bet, which writes other tables than quotes, and goes on or ends.
LEMMA BetStep ==
    ASSUME NEW w \in Workers, HouseTyped, TablesTypedNow', quotes' = quotes,
           pc[w] \in {"bet", "refund", "touch", "cashout"},
           NEW s \in {"refund", "touch", "cashout", "commit"}, Goto(w, s),
           UNCHANGED <<clocks, todo, req, tx>>
    PROVE  HouseTyped'
<1>1. pc' = [pc EXCEPT ![w] = s] /\ pc'[w] = s
  BY Typed DEF Goto
<1>2. req[w].op \in {"void", "cashout"} /\ tx[w].bet \in BetIds
  BY Typed DEF ServingOK, OpsAt
<1>3. ServingOK(w)'
  BY <1>1, <1>2 DEF ServingOK, BatchOK, OpsAt
<1>4. tx'[w] \in Tx /\ tx' = [tx EXCEPT ![w] = tx'[w]]
  BY Typed
<1> QED
  BY <1>1, <1>3, <1>4, StepOn DEF Statement

LEMMA LockBetTyped ==
    ASSUME NEW w \in Workers, HouseTyped, LockBet(w)
    PROVE  HouseTyped'
<1>1. CASE Rollback(w)
  BY <1>1, RollbackTyped
<1>2. CASE ~Rollback(w)
  <2>1. /\ pc[w] = "bet" /\ bets' = [bets EXCEPT ![tx[w].bet] = Locked(@, w)]
        /\ Goto(w, IF req[w].op = "void" THEN "refund" ELSE "cashout")
        /\ UNCHANGED <<wallets, markets, stakes, quotes, grants, clocks, load, todo, req, tx>>
    BY <1>2 DEF LockBet
  <2>2. bets' \in [BetIds -> RowOf(Bet)]
    BY <2>1, Typed, TableLocked DEF TablesTypedNow
  <2>3. TablesTypedNow'
    BY <2>1, <2>2, Typed DEF TablesTypedNow
  <2> QED
    BY <2>1, <2>3, BetStep
<1> QED
  BY <1>1, <1>2

LEMMA RefundStakeTyped ==
    ASSUME NEW w \in Workers, HouseTyped, RefundStake(w)
    PROVE  HouseTyped'
<1> DEFINE b == tx[w].bet
           t == bets[b].new.ticket
           paid == Credit(wallets[t.user].now, "BET_VOID_REFUND", b, t.stake)
<1>1. /\ pc[w] = "refund"
      /\ wallets' = [wallets EXCEPT ![t.user] = Written(@, w, paid)]
      /\ bets' = [bets EXCEPT ![b].new.status = "voided"]
      /\ Goto(w, "touch")
      /\ UNCHANGED <<markets, stakes, quotes, grants, clocks, load, todo, req, tx>>
  BY Zenon DEF RefundStake
<1>2. b \in BetIds
  BY <1>1, Typed, Zenon DEF ServingOK
<1>3. bets \in [BetIds -> RowOf(Bet)] /\ wallets \in [Users -> RowOf(Wallet)]
  BY Typed DEF TablesTypedNow
<1>4. t \in Ticket /\ t.user \in Users /\ t.stake \in Nat
  <2>1. t \in Ticket
    BY <1>2, <1>3 DEF RowOf, Bet
  <2> QED
    BY <2>1, TicketForm
<1>5. bets' \in [BetIds -> RowOf(Bet)]
  BY <1>1, <1>3, BetStatusWritten, Zenon DEF BetStatus
<1> HIDE DEF b, t
<1>6. paid \in Wallet
  BY <1>3, <1>4, VersionsTyped, CreditTyped
<1> HIDE DEF paid
<1>7. wallets' \in [Users -> RowOf(Wallet)]
  BY <1>1, <1>3, <1>4, <1>6, TableWritten
<1>8. TablesTypedNow'
  BY <1>1, <1>5, <1>7, Typed DEF TablesTypedNow
<1> QED
  BY <1>1, <1>8, BetStep

LEMMA TouchMarketTyped ==
    ASSUME NEW w \in Workers, HouseTyped, TouchMarket(w)
    PROVE  HouseTyped'
<1> DEFINE m == bets[tx[w].bet].new.ticket.market
<1>1. /\ pc[w] = "touch" /\ markets' = [markets EXCEPT ![m] = Locked(@, w)]
      /\ Goto(w, "commit")
      /\ UNCHANGED <<wallets, bets, stakes, quotes, grants, clocks, load, todo, req, tx>>
  BY Zenon DEF TouchMarket
<1> HIDE DEF m
<1>2. markets' \in [Markets -> RowOf(Market)]
  BY <1>1, Typed, TableLocked DEF TablesTypedNow
<1>3. TablesTypedNow'
  BY <1>1, <1>2, Typed DEF TablesTypedNow
<1> QED
  BY <1>1, <1>3, BetStep

LEMMA CashOutTyped ==
    ASSUME NEW w \in Workers, HouseTyped, CashOut(w)
    PROVE  HouseTyped'
<1>1. CASE Rollback(w)
  BY <1>1, RollbackTyped
<1>2. CASE ~Rollback(w)
  <2> DEFINE b == tx[w].bet
             t == bets[b].new.ticket
             paid == Credit(wallets[t.user].now, "BET_CASHOUT_PAYOUT", b, CashoutNet(t))
             noted == Record(paid, "BET_CASHOUT_FEE", b, CashoutFee(t))
  <2>1. /\ pc[w] = "cashout" /\ ~(CashoutNet(t) <= 0)
        /\ wallets' = [wallets EXCEPT ![t.user] = Written(@, w, noted)]
        /\ bets' = [bets EXCEPT ![b].new.status = "voided"]
        /\ Goto(w, "commit")
        /\ UNCHANGED <<markets, stakes, quotes, grants, clocks, load, todo, req, tx>>
    BY <1>2, Zenon DEF CashOut
  <2>2. b \in BetIds
    BY <2>1, Typed DEF ServingOK
  <2>3. bets \in [BetIds -> RowOf(Bet)] /\ wallets \in [Users -> RowOf(Wallet)]
    BY Typed DEF TablesTypedNow
  <2>4. t \in Ticket /\ t.user \in Users
    <3>1. t \in Ticket
      BY <2>2, <2>3 DEF RowOf, Bet
    <3> QED
      BY <3>1, TicketForm
  <2>5. bets' \in [BetIds -> RowOf(Bet)]
    BY <2>1, <2>3, BetStatusWritten, Zenon DEF BetStatus
  <2> HIDE DEF b, t
  <2>6. CashoutNet(t) \in Nat /\ CashoutFee(t) \in Nat
    BY <2>1, <2>4, Worths
  <2>7. paid \in Wallet
    BY <2>3, <2>4, <2>6, VersionsTyped, CreditTyped
  <2> HIDE DEF paid
  <2>8. noted \in Wallet
    BY <2>6, <2>7, RecordTyped
  <2> HIDE DEF noted
  <2>9. wallets' \in [Users -> RowOf(Wallet)]
    BY <2>1, <2>3, <2>4, <2>8, TableWritten
  <2>10. TablesTypedNow'
    BY <2>1, <2>5, <2>9, Typed DEF TablesTypedNow
  <2> QED
    BY <2>1, <2>10, BetStep
<1> QED
  BY <1>1, <1>2

----------------------------------------------------------------------------
(***************************************************************************)
(* Pools and the market maker.                                             *)
(***************************************************************************)

LEMMA StartStakeTyped ==
    ASSUME NEW w \in Workers, HouseTyped, StartStake(w)
    PROVE  HouseTyped'
<1>1. PICK r \in todo : /\ r.op = "stake" /\ Accept(w, r)
                        /\ Goto(w, "bank") /\ UNCHANGED <<tables, clocks, load, tx>>
  BY DEF StartStake
<1>2. pc' = [pc EXCEPT ![w] = "bank"] /\ pc'[w] = "bank" /\ req'[w] = r
  BY <1>1, Typed DEF Goto, Accept
<1>3. ServingOK(w)'
  BY <1>1, <1>2 DEF ServingOK, BatchOK, OpsAt
<1>4. tx'[w] \in Tx /\ tx' = [tx EXCEPT ![w] = tx'[w]]
  BY <1>1, Typed
<1> QED
  BY <1>1, <1>2, <1>3, <1>4, StepAccepts DEF Statement

LEMMA StartTradeTyped ==
    ASSUME NEW w \in Workers, HouseTyped, StartTrade(w)
    PROVE  HouseTyped'
<1>1. PICK r \in todo : /\ r.op = "trade" /\ Accept(w, r)
                        /\ Goto(w, "price") /\ UNCHANGED <<tables, clocks, load, tx>>
  BY DEF StartTrade
<1>2. pc' = [pc EXCEPT ![w] = "price"] /\ pc'[w] = "price" /\ req'[w] = r
  BY <1>1, Typed DEF Goto, Accept
<1>3. ServingOK(w)'
  BY <1>1, <1>2 DEF ServingOK, BatchOK, OpsAt
<1>4. tx'[w] \in Tx /\ tx' = [tx EXCEPT ![w] = tx'[w]]
  BY <1>1, Typed
<1> QED
  BY <1>1, <1>2, <1>3, <1>4, StepAccepts DEF Statement

\* A step of a stake or a trade, which writes other tables than quotes.
LEMMA PoolsStep ==
    ASSUME NEW w \in Workers, HouseTyped, TablesTypedNow', quotes' = quotes,
           \/ pc[w] = "bank" /\ Goto(w, "pool")
           \/ pc[w] = "price" /\ Goto(w, "pay")
           \/ pc[w] \in {"pool", "pay"} /\ Goto(w, "commit"),
           tx'[w] \in Tx, tx' = [tx EXCEPT ![w] = tx'[w]],
           UNCHANGED <<clocks, todo, req>>
    PROVE  HouseTyped'
<1>1. pc' = [pc EXCEPT ![w] = pc'[w]] /\ pc'[w] \in Statement
      /\ \/ pc[w] = "bank" /\ pc'[w] = "pool"
         \/ pc[w] = "price" /\ pc'[w] = "pay"
         \/ pc[w] \in {"pool", "pay"} /\ pc'[w] = "commit"
  BY Typed DEF Goto, Statement
<1>2. ServingOK(w)'
  BY <1>1, Typed DEF ServingOK, BatchOK, OpsAt
<1> QED
  BY <1>1, <1>2, StepOn

LEMMA BankStakeTyped ==
    ASSUME NEW w \in Workers, HouseTyped, BankStake(w)
    PROVE  HouseTyped'
<1>1. CASE Rollback(w)
  BY <1>1, RollbackTyped
<1>2. CASE ~Rollback(w)
  <2> DEFINE r == req[w]
             wallet == wallets[r.user].now
             paid == Debit(wallet, "PARIMUTUEL_STAKE", r.market, r.amount)
             stake == [user |-> r.user, market |-> r.market, side |-> r.side,
                       amount |-> r.amount]
  <2>1. /\ pc[w] = "bank" /\ ~(wallet.available < r.amount)
        /\ wallets' = [wallets EXCEPT ![r.user] = Written(@, w, paid)]
        /\ Goto(w, "pool")
        /\ UNCHANGED <<markets, bets, quotes, grants, clocks, load, todo, req, tx>>
    BY <1>2 DEF BankStake
  <2>2. PICK i \in FreeStakes : stakes' = [stakes EXCEPT ![i] = Written(@, w, stake)]
    BY <1>2 DEF BankStake
  <2>3. /\ r.user \in Users /\ r.market \in Markets /\ r.side \in Sides /\ r.amount \in Nat
        /\ i \in StakeIds
    <3>1. r.op = "stake"
      BY <2>1, Typed DEF ServingOK, OpsAt
    <3> QED
      BY <3>1, Typed, RequestForms DEF FreeStakes
  <2>4. wallets \in [Users -> RowOf(Wallet)] /\ stakes \in [StakeIds -> RowOf(Stake)]
    BY Typed DEF TablesTypedNow
  <2>5. wallet \in Wallet /\ stake \in Stake
    BY <2>3, <2>4, VersionsTyped DEF Stake
  <2> HIDE DEF r, wallet, stake
  <2>6. r.amount <= wallet.available
    BY <2>1, <2>3, <2>5 DEF Wallet
  <2>7. paid \in Wallet
    BY <2>3, <2>5, <2>6, DebitTyped
  <2> HIDE DEF paid
  <2>8. wallets' \in [Users -> RowOf(Wallet)] /\ stakes' \in [StakeIds -> RowOf(Stake)]
    BY <2>1, <2>2, <2>3, <2>4, <2>5, <2>7, TableWritten
  <2>9. TablesTypedNow'
    BY <2>1, <2>8, Typed DEF TablesTypedNow
  <2>10. tx'[w] \in Tx /\ tx' = [tx EXCEPT ![w] = tx'[w]]
    BY <2>1, Typed
  <2> QED
    BY <2>1, <2>9, <2>10, PoolsStep
<1> QED
  BY <1>1, <1>2

LEMMA AddToPoolTyped ==
    ASSUME NEW w \in Workers, HouseTyped, AddToPool(w)
    PROVE  HouseTyped'
<1> DEFINE r == req[w]
           m == r.market
           added == [markets[m].now EXCEPT !.pool[r.side] = @ + r.amount]
<1>1. /\ pc[w] = "pool"
      /\ markets' = [markets EXCEPT ![m] = Written(@, w, added)]
      /\ Goto(w, "commit")
      /\ UNCHANGED <<wallets, bets, stakes, quotes, grants, clocks, load, todo, req, tx>>
  BY DEF AddToPool, Written
<1>2. m \in Markets /\ r.side \in Sides /\ r.amount \in Nat
  <2>1. r.op = "stake"
    BY <1>1, Typed DEF ServingOK, OpsAt
  <2> QED
    BY <2>1, Typed, RequestForms
<1>3. markets \in [Markets -> RowOf(Market)]
  BY Typed DEF TablesTypedNow
<1> HIDE DEF m, r
<1>4. added \in Market
  <2> DEFINE before == markets[m].now
             pool == [before.pool EXCEPT ![r.side] = @ + r.amount]
  <2>1. before \in Market
    BY <1>2, <1>3, VersionsTyped
  <2>2. added = [before EXCEPT !.pool = pool]
    BY <2>1 DEF Market
  <2> HIDE DEF before, added
  <2>3. pool \in [Sides -> Nat]
    BY <1>2, <2>1 DEF Market
  <2> HIDE DEF pool
  <2>4. [before EXCEPT !.pool = pool] \in Market
    BY <2>1, <2>3 DEF Market
  <2> QED
    BY <2>2, <2>4
<1> HIDE DEF added
<1>5. markets' \in [Markets -> RowOf(Market)]
  BY <1>1, <1>2, <1>3, <1>4, TableWritten
<1>6. TablesTypedNow'
  BY <1>1, <1>5, Typed DEF TablesTypedNow
<1>7. tx'[w] \in Tx /\ tx' = [tx EXCEPT ![w] = tx'[w]]
  BY <1>1, Typed
<1> QED
  BY <1>1, <1>6, <1>7, PoolsStep

LEMMA PriceTyped ==
    ASSUME NEW w \in Workers, HouseTyped, Price(w)
    PROVE  HouseTyped'
<1> DEFINE r == req[w]
           m == r.market
           shares == markets[m].now.shares
           due == RawCost(shares, Bought(r, shares))
<1>1. /\ pc[w] = "price"
      /\ markets' = [markets EXCEPT ![m] = Locked(@, w)]
      /\ tx' = [tx EXCEPT ![w].due = due]
      /\ Goto(w, "pay")
      /\ UNCHANGED <<wallets, bets, stakes, quotes, grants, clocks, load, todo, req>>
  BY DEF Price
<1>2. m \in Markets /\ r.side \in Sides /\ r.amount \in Nat
  <2>1. r.op = "trade"
    BY <1>1, Typed DEF ServingOK, OpsAt
  <2> QED
    BY <2>1, Typed, RequestForms
<1>3. markets \in [Markets -> RowOf(Market)]
  BY Typed DEF TablesTypedNow
<1>4. shares \in [Sides -> Nat]
  <2>1. markets[m].now \in Market
    BY <1>2, <1>3, VersionsTyped
  <2> QED
    BY <2>1 DEF Market
<1> HIDE DEF shares, r, m
<1>5. due \in Nat
  BY <1>2, <1>4, Prices
<1> HIDE DEF due
<1>6. markets' \in [Markets -> RowOf(Market)]
  BY <1>1, <1>3 DEF RowOf, Locked
<1>7. TablesTypedNow'
  BY <1>1, <1>6, Typed DEF TablesTypedNow
<1>8. tx'[w] \in Tx /\ tx' = [tx EXCEPT ![w] = tx'[w]]
  BY <1>1, <1>5, Typed DEF Tx
<1> QED
  BY <1>1, <1>7, <1>8, PoolsStep

LEMMA PayTradeTyped ==
    ASSUME NEW w \in Workers, HouseTyped, PayTrade(w)
    PROVE  HouseTyped'
<1>1. CASE Rollback(w)
  BY <1>1, RollbackTyped
<1>2. CASE ~Rollback(w)
  <2> DEFINE r == req[w]
             m == r.market
             cost == tx[w].due
             fee == SpreadFee(m, cost)
             wallet == wallets[r.user].now
             staked == Debit(wallet, "LMSR_TRADE_STAKE", m, cost)
             paid == Debit(staked, "LMSR_FEE", m, fee)
             before == markets[m].new
             after == [before EXCEPT !.shares = Bought(r, @),
                                     !.held[r.user][r.side] = @ + r.amount,
                                     !.costs[r.user] = @ + cost, !.trades = @ + 1]
  <2>1. /\ pc[w] = "pay" /\ ~(wallet.available < cost + fee)
        /\ wallets' = [wallets EXCEPT ![r.user] = Written(@, w, paid)]
        /\ markets' = [markets EXCEPT ![m].new = after]
        /\ Goto(w, "commit")
        /\ UNCHANGED <<bets, stakes, quotes, grants, clocks, load, todo, req, tx>>
    BY <1>2, Zenon DEF PayTrade
  <2>2. /\ r.user \in Users /\ m \in Markets /\ r.side \in Sides /\ r.amount \in Nat
        /\ cost \in Nat
    <3>1. r.op = "trade"
      BY <2>1, Typed, Zenon DEF ServingOK, OpsAt
    <3> QED
      BY <3>1, Typed, RequestForms DEF Tx
  <2>3. wallets \in [Users -> RowOf(Wallet)] /\ markets \in [Markets -> RowOf(Market)]
    BY Typed DEF TablesTypedNow
  <2>4. wallet \in Wallet /\ before \in Market
    BY <2>2, <2>3, VersionsTyped
  <2>5. fee \in Nat
    BY <2>2, FeesAreNat
  <2> HIDE DEF r, m, cost, fee, wallet, before
  <2>6. cost + fee <= wallet.available /\ wallet.available \in Nat
    BY <2>1, <2>2, <2>4, <2>5 DEF Wallet
  <2>7. staked \in Wallet /\ staked.available = wallet.available - cost
    BY <2>2, <2>4, <2>5, <2>6, DebitTyped
  <2> HIDE DEF staked
  <2>8. paid \in Wallet
    BY <2>2, <2>5, <2>6, <2>7, DebitTyped
  <2> HIDE DEF paid
  <2>9. after \in Market
    <3>1. Bought(r, before.shares) \in [Sides -> Nat]
      BY <2>2, <2>4 DEF Market, Bought
    <3>2. [before.held EXCEPT ![r.user][r.side] = @ + r.amount] \in [Users -> [Sides -> Nat]]
      BY <2>2, <2>4 DEF Market
    <3>3. [before.costs EXCEPT ![r.user] = @ + cost] \in [Users -> Nat] /\ before.trades + 1 \in Nat
      BY <2>2, <2>4 DEF Market
    <3> QED
      BY <2>4, <3>1, <3>2, <3>3 DEF Market
  <2> HIDE DEF after
  <2>10. wallets' \in [Users -> RowOf(Wallet)]
    BY <2>1, <2>2, <2>3, <2>8, TableWritten
  <2>11. markets' \in [Markets -> RowOf(Market)]
    BY <2>1, <2>2, <2>3, <2>9 DEF RowOf
  <2>12. TablesTypedNow'
    BY <2>1, <2>10, <2>11, Typed DEF TablesTypedNow
  <2>13. tx'[w] \in Tx /\ tx' = [tx EXCEPT ![w] = tx'[w]]
    BY <2>1, Typed
  <2> QED
    BY <2>1, <2>12, <2>13, PoolsStep
<1> QED
  BY <1>1, <1>2

----------------------------------------------------------------------------
(***************************************************************************)
(* Settlement.                                                             *)
(***************************************************************************)

\* The ids that a loop visits.
LEMMA Batches ==
    ASSUME NEW m \in Markets
    PROVE  /\ Mechanism(m) \in {"fixed_odds", "parimutuel", "lmsr"}
           /\ BetIds \subseteq Nat /\ StakeIds \subseteq Nat /\ Users \subseteq Nat
<1>1. Mechanism(m) \in {"fixed_odds", "parimutuel", "lmsr"}
  BY TermsOf DEF Mechanism
<1>2. Users \subseteq Nat
  BY IdsAssumption
<1> QED
  BY <1>1, <1>2 DEF BetIds, StakeIds

LEMMA StartSettleTyped ==
    ASSUME NEW w \in Workers, HouseTyped, StartSettle(w)
    PROVE  HouseTyped'
<1>1. PICK r \in todo :
          /\ r.op = "settle" /\ Accept(w, r)
          /\ tx' = [tx EXCEPT ![w].pool = markets[r.market].now.pool]
          /\ Goto(w, IF Mechanism(r.market) = "parimutuel" THEN "divide" ELSE "decide")
          /\ UNCHANGED <<tables, clocks, load>>
  BY DEF StartSettle
<1>2. r.market \in Markets
  BY <1>1, RequestForms DEF HouseTyped, TypeOK
<1>3. markets[r.market].now.pool \in [Sides -> Nat]
  BY <1>2, Typed DEF TablesTypedNow, RowOf, Market
<1>4. tx'[w] \in Tx /\ tx' = [tx EXCEPT ![w] = tx'[w]]
  BY <1>1, <1>3, Typed DEF Tx
<1>5. /\ pc' = [pc EXCEPT ![w] = pc'[w]] /\ pc'[w] \in {"divide", "decide"} /\ req'[w] = r
      /\ pc'[w] = "divide" <=> Mechanism(r.market) = "parimutuel"
  BY <1>1, Typed DEF Goto, Accept
<1>6. ServingOK(w)'
  BY <1>1, <1>5 DEF ServingOK, BatchOK, OpsAt, Mechanism
<1> QED
  BY <1>1, <1>4, <1>5, <1>6, StepAccepts DEF Statement

\* A step of a settlement or a cancellation, which writes other tables than quotes.
LEMMA LoopStep ==
    ASSUME NEW w \in Workers, HouseTyped, TablesTypedNow', quotes' = quotes,
           NEW s \in {"result", "payout", "share", "credit", "unbet", "commit"},
           pc' = [pc EXCEPT ![w] = s],
           s # "commit" => req[w].op \in OpsAt(s) /\ req[w].market \in Markets,
           s \in {"payout", "unbet"} => tx'[w].bet \in BetIds,
           tx'[w].bet \in BetIds \cup {0},
           s \in {"result", "payout"} => Mechanism(req[w].market) = "fixed_odds",
           s = "share" => Mechanism(req[w].market) # "fixed_odds",
           s # "commit" =>
               /\ Mechanism(req[w].market) = "fixed_odds" => tx'[w].batch \subseteq BetIds
               /\ Mechanism(req[w].market) = "parimutuel" => tx'[w].batch \subseteq StakeIds
               /\ Mechanism(req[w].market) = "lmsr" => tx'[w].batch \subseteq Users,
           tx'[w].batch \subseteq Nat,
           tx' = [tx EXCEPT ![w] = [tx[w] EXCEPT !.batch = tx'[w].batch, !.bet = tx'[w].bet]],
           UNCHANGED <<clocks, todo, req>>
    PROVE  HouseTyped'
<1>1. tx'[w] \in Tx /\ tx' = [tx EXCEPT ![w] = tx'[w]]
  <2> DEFINE batch == tx'[w].batch  bet == tx'[w].bet
             local == [tx[w] EXCEPT !.batch = batch, !.bet = bet]
  <2>1. batch \in SUBSET Nat /\ bet \in BetIds \cup {0} /\ tx' = [tx EXCEPT ![w] = local]
    OBVIOUS
  <2> HIDE DEF batch, bet
  <2>2. local \in Tx
    <3> DEFINE old == tx[w]
    <3>1. old \in Tx
      BY Typed
    <3> HIDE DEF old
    <3>2. [old EXCEPT !.batch = batch, !.bet = bet] \in Tx
      BY <2>1, <3>1 DEF Tx
    <3> QED
      BY <3>2 DEF old
  <2> HIDE DEF local
  <2> QED
    BY <2>1, <2>2, Typed
<1>2. pc' = [pc EXCEPT ![w] = pc'[w]] /\ pc'[w] = s
  BY Typed
<1>3. ServingOK(w)'
  <2>1. CASE s = "commit"
    BY <1>2, <2>1, Typed, RequestForms DEF ServingOK, BatchOK, OpsAt
  <2>2. CASE s # "commit"
    <3>1. BatchOK(w)'
      BY <1>2, <2>2, Batches DEF BatchOK
    <3> QED
      BY <1>2, <2>2, <3>1, Typed DEF ServingOK, OpsAt
  <2> QED
    BY <2>1, <2>2
<1> QED
  BY <1>1, <1>2, <1>3, StepOn DEF Statement

\* The market of the settlement or the cancellation that w serves.
LEMMA Served ==
    ASSUME NEW w \in Workers, HouseTyped
    PROVE  /\ req[w].op = "settle" => req[w].market \in Markets /\ req[w].outcome \in Sides
           /\ req[w].op = "annul" => req[w].market \in Markets
           /\ tx[w] \in Tx /\ tx[w].batch \subseteq Nat /\ tx[w].bet \in BetIds \cup {0}
           /\ tx[w].pool \in [Sides -> Nat]
           /\ pc \in [Workers -> Statement] /\ tx \in [Workers -> Tx]
  BY Typed, RequestForms DEF Tx

\* A loop gets its batch.
LEMMA BatchAssigned ==
    ASSUME NEW w \in Workers, HouseTyped, NEW batch, tx' = [tx EXCEPT ![w].batch = batch]
    PROVE  /\ tx'[w].batch = batch /\ tx'[w].bet = tx[w].bet
           /\ tx' = [tx EXCEPT ![w] = [tx[w] EXCEPT !.batch = tx'[w].batch, !.bet = tx'[w].bet]]
<1>1. PICK x \in Tx : x = tx[w]
  BY Served
<1>2. PICK y : y = [x EXCEPT !.batch = batch]
  OBVIOUS
<1>3. y.batch = batch /\ y.bet = x.bet /\ y = [x EXCEPT !.batch = y.batch, !.bet = y.bet]
  BY <1>2 DEF Tx
<1>4. tx' = [tx EXCEPT ![w] = y] /\ tx'[w] = y
  BY <1>1, <1>2, Served
<1> QED
  BY <1>1, <1>3, <1>4

\* A market that is settled is a market.
LEMMA MarketEnds ==
    ASSUME NEW market \in Market, NEW status \in MarketStatus
    PROVE  /\ [market EXCEPT !.status = status] \in Market
           /\ \A side \in Sides :
                 [market EXCEPT !.status = status, !.outcome = side] \in Market
  BY Zenon DEF Market

LEMMA DecideTyped ==
    ASSUME NEW w \in Workers, HouseTyped, Decide(w)
    PROVE  HouseTyped'
<1> DEFINE r == req[w]
           m == r.market
           settled == [markets[m].now EXCEPT !.status = "settled", !.outcome = r.outcome]
           holders == {u \in Users : settled.held[u][r.outcome] > 0}
           open == OpenBets(BetsSeen(w), m)
<1>1. /\ pc[w] = "decide"
      /\ markets' = [markets EXCEPT ![m] = Written(@, w, settled)]
      /\ UNCHANGED <<wallets, bets, stakes, quotes, grants, clocks, load, todo, req>>
  BY DEF Decide
<1>2. \/ /\ Mechanism(m) = "lmsr" /\ Goto(w, "share")
         /\ tx' = [tx EXCEPT ![w].batch = holders]
      \/ /\ Mechanism(m) # "lmsr" /\ Goto(w, "result")
         /\ tx' = [tx EXCEPT ![w].batch = open]
  BY Zenon DEF Decide
<1>3. r.op = "settle" /\ m \in Markets /\ r.outcome \in Sides /\ Mechanism(m) # "parimutuel"
  BY <1>1, Typed, Served DEF ServingOK, OpsAt, BatchOK
<1>4. markets' \in [Markets -> RowOf(Market)]
  <2>1. markets \in [Markets -> RowOf(Market)]
    BY Typed DEF TablesTypedNow
  <2>2. markets[m].now \in Market
    BY <1>3, <2>1, VersionsTyped
  <2>3. settled \in Market
    BY <1>3, <2>2, MarketEnds, Zenon DEF MarketStatus
  <2> HIDE DEF settled, m
  <2> QED
    BY <1>1, <1>3, <2>1, <2>3, TableWritten
<1>5. TablesTypedNow'
  BY <1>1, <1>4, Typed DEF TablesTypedNow
<1>6. holders \subseteq Users /\ open \subseteq BetIds
  BY DEF OpenBets
<1> HIDE DEF holders, open
<1>7. CASE Mechanism(m) = "lmsr"
  <2>1. /\ pc' = [pc EXCEPT ![w] = "share"] /\ tx'[w].batch = holders /\ tx'[w].bet = tx[w].bet
        /\ tx' = [tx EXCEPT ![w] = [tx[w] EXCEPT !.batch = tx'[w].batch, !.bet = tx'[w].bet]]
    BY <1>2, <1>7, Served, BatchAssigned, Zenon DEF Goto
  <2> QED
    BY <1>1, <1>3, <1>5, <1>6, <1>7, <2>1, Served, Batches, LoopStep DEF OpsAt
<1>8. CASE Mechanism(m) # "lmsr"
  <2>1. /\ pc' = [pc EXCEPT ![w] = "result"] /\ tx'[w].batch = open /\ tx'[w].bet = tx[w].bet
        /\ tx' = [tx EXCEPT ![w] = [tx[w] EXCEPT !.batch = tx'[w].batch, !.bet = tx'[w].bet]]
    BY <1>2, <1>8, Served, BatchAssigned, Zenon DEF Goto
  <2>2. Mechanism(m) = "fixed_odds"
    BY <1>3, <1>8, Batches
  <2> QED
    BY <1>1, <1>3, <1>5, <1>6, <2>1, <2>2, Served, Batches, LoopStep, Zenon DEF OpsAt
<1> QED
  BY <1>7, <1>8

LEMMA ResultTyped ==
    ASSUME NEW w \in Workers, HouseTyped, Result(w)
    PROVE  HouseTyped'
<1> DEFINE Won(b) == bets[b].now.ticket.side = req[w].outcome
           Decided(b) == IF Won(b) THEN "settled_win" ELSE "settled_loss"
<1>1. PICK b \in tx[w].batch :
          /\ bets' = [bets EXCEPT ![b] =
                 Written(@, w, [@.now EXCEPT !.status = Decided(b)])]
          /\ tx' = [tx EXCEPT ![w].batch = @ \ {b}, ![w].bet = b]
          /\ Goto(w, IF Won(b) THEN "payout" ELSE "result")
  BY DEF Result
<1>2. /\ pc[w] = "result"
      /\ UNCHANGED <<wallets, markets, stakes, quotes, grants, clocks, load, todo, req>>
  BY DEF Result
<1>3. /\ req[w].op = "settle" /\ req[w].market \in Markets
      /\ Mechanism(req[w].market) = "fixed_odds" /\ tx[w].batch \subseteq BetIds
  BY <1>2, Typed, Served DEF ServingOK, OpsAt, BatchOK
<1>4. b \in BetIds /\ Decided(b) \in BetStatus
  BY <1>1, <1>3 DEF BetStatus
<1>5. bets' \in [BetIds -> RowOf(Bet)]
  <2>1. bets \in [BetIds -> RowOf(Bet)]
    BY Typed DEF TablesTypedNow
  <2> HIDE DEF Decided
  <2> QED
    BY <1>1, <1>4, <2>1 DEF RowOf, Bet, Written
<1>6. TablesTypedNow'
  BY <1>2, <1>5, Typed DEF TablesTypedNow
<1>7. /\ tx'[w].batch = tx[w].batch \ {b} /\ tx'[w].bet = b
      /\ tx' = [tx EXCEPT ![w] = [tx[w] EXCEPT !.batch = tx'[w].batch, !.bet = tx'[w].bet]]
  BY <1>1, Served DEF Tx
<1>8. PICK s \in {"payout", "result"} : pc' = [pc EXCEPT ![w] = s]
  BY <1>1 DEF Goto
<1> QED
  BY <1>2, <1>3, <1>4, <1>6, <1>7, <1>8, Served, LoopStep, Zenon DEF OpsAt

LEMMA PayWinnerTyped ==
    ASSUME NEW w \in Workers, HouseTyped, PayWinner(w)
    PROVE  HouseTyped'
<1>1. CASE Rollback(w)
  BY <1>1, RollbackTyped
<1>2. CASE ~Rollback(w)
  <2> DEFINE b == tx[w].bet
             t == bets[b].new.ticket
             paid == Credit(Seen(wallets[t.user], w), "BET_WIN_PAYOUT", b, Payout(t))
  <2>1. /\ pc[w] = "payout"
        /\ wallets' = [wallets EXCEPT ![t.user] = Written(@, w, paid)]
        /\ Goto(w, "result")
        /\ UNCHANGED <<markets, bets, stakes, quotes, grants, clocks, load, todo, req, tx>>
    BY <1>2, Zenon DEF PayWinner
  <2>2. /\ req[w].op = "settle" /\ req[w].market \in Markets /\ b \in BetIds
        /\ Mechanism(req[w].market) = "fixed_odds" /\ tx[w].batch \subseteq BetIds
    BY <2>1, Typed, Served DEF ServingOK, OpsAt, BatchOK
  <2>3. t \in Ticket /\ t.user \in Users
    <3>1. t \in Ticket
      BY <2>2, Typed DEF TablesTypedNow, RowOf, Bet
    <3> QED
      BY <3>1, TicketForm
  <2> HIDE DEF b, t
  <2>4. Payout(t) \in Nat
    BY <2>3, Worths
  <2>5. wallets \in [Users -> RowOf(Wallet)]
    BY Typed DEF TablesTypedNow
  <2>6. paid \in Wallet
    BY <2>3, <2>4, <2>5, VersionsTyped, CreditTyped
  <2> HIDE DEF paid
  <2>7. wallets' \in [Users -> RowOf(Wallet)]
    BY <2>1, <2>3, <2>5, <2>6, TableWritten
  <2>8. TablesTypedNow'
    BY <2>1, <2>7, Typed DEF TablesTypedNow
  <2>9. /\ pc' = [pc EXCEPT ![w] = "result"] /\ tx'[w] = tx[w]
        /\ tx' = [tx EXCEPT ![w] = [tx[w] EXCEPT !.batch = tx'[w].batch, !.bet = tx'[w].bet]]
    BY <2>1, Served DEF Goto, Tx
  <2> QED
    BY <2>1, <2>2, <2>8, <2>9, Served, LoopStep, Zenon DEF OpsAt
<1> QED
  BY <1>1, <1>2

LEMMA DivideTyped ==
    ASSUME NEW w \in Workers, HouseTyped, Divide(w)
    PROVE  HouseTyped'
<1> DEFINE r == req[w]
           sides == IF tx[w].pool[r.outcome] = 0 THEN Sides ELSE {r.outcome}
           batch == StakesOn(r.market, sides)
<1>1. /\ pc[w] = "divide" /\ tx' = [tx EXCEPT ![w].batch = batch]
      /\ Goto(w, "share")
      /\ UNCHANGED <<tables, clocks, load, todo, req>>
  BY DEF Divide
<1>2. r.op = "settle" /\ r.market \in Markets /\ Mechanism(r.market) = "parimutuel"
  BY <1>1, Typed, Served DEF ServingOK, OpsAt, BatchOK
<1>3. batch \subseteq StakeIds
  BY DEF StakesOn
<1> HIDE DEF batch
<1>4. TablesTypedNow' /\ quotes' = quotes
  BY <1>1, Typed DEF TablesTypedNow, tables
<1>5. /\ pc' = [pc EXCEPT ![w] = "share"] /\ tx'[w].batch = batch /\ tx'[w].bet = tx[w].bet
      /\ tx' = [tx EXCEPT ![w] = [tx[w] EXCEPT !.batch = tx'[w].batch, !.bet = tx'[w].bet]]
  BY <1>1, Served DEF Goto, Tx
<1> QED
  BY <1>1, <1>2, <1>3, <1>4, <1>5, Served, Batches, LoopStep, Zenon DEF OpsAt

\* Who is paid a share, and what, is a customer and a natural.
LEMMA SharesTyped ==
    ASSUME NEW w \in Workers, HouseTyped, pc[w] = "share", NEW k \in tx[w].batch,
           NEW amount \in ShareAmounts(w, k)
    PROVE  ShareOwner(w, k) \in Users /\ amount \in Nat
<1> DEFINE m == req[w].market
           side == req[w].outcome
<1>1. m \in Markets /\ side \in Sides /\ Mechanism(m) \in {"parimutuel", "lmsr"}
  <2>1. req[w].op = "settle" /\ Mechanism(m) # "fixed_odds"
    BY Typed DEF ServingOK, OpsAt, BatchOK
  <2> QED
    BY <2>1, Served, Batches
<1>2. CASE Mechanism(m) = "lmsr"
  <2>1. k \in Users
    BY <1>2, Typed DEF ServingOK, BatchOK
  <2>2. Seen(markets[m], w) \in Market
    BY <1>1, Typed, VersionsTyped DEF TablesTypedNow
  <2>3. Seen(markets[m], w).held[k][side] \in Nat
    BY <1>1, <2>1, <2>2 DEF Market
  <2>4. amount = 100 * Seen(markets[m], w).held[k][side]
    BY <1>2 DEF ShareAmounts
  <2>5. amount \in Nat
    <3> DEFINE held == Seen(markets[m], w).held[k][side]
    <3> HIDE DEF held
    <3>1. held \in Nat /\ amount = 100 * held
      BY <2>3, <2>4 DEF held
    <3> QED
      BY <3>1
  <2> QED
    BY <1>2, <2>1, <2>5 DEF ShareOwner
<1>3. CASE Mechanism(m) = "parimutuel"
  <2>1. k \in StakeIds
    BY <1>3, Typed DEF ServingOK, BatchOK
  <2>2. stakes[k].now \in Stake
    BY <2>1, Typed, VersionsTyped DEF TablesTypedNow
  <2>3. stakes[k].now.user \in Users /\ stakes[k].now.amount \in Nat
    BY <2>2 DEF Stake
  <2>4. \/ amount = stakes[k].now.amount
        \/ tx[w].pool[side] # 0 /\ amount \in PoolShares(m, tx[w].pool, side, stakes[k].now.amount)
    BY <1>3 DEF ShareAmounts
  <2>5. tx[w].pool \in [Sides -> Nat]
    BY Served
  <2>6. amount \in Nat
    BY <1>1, <2>3, <2>4, <2>5, SharesAreNat
  <2> QED
    BY <1>3, <2>3, <2>6 DEF ShareOwner
<1> QED
  BY <1>1, <1>2, <1>3

LEMMA PayShareTyped ==
    ASSUME NEW w \in Workers, HouseTyped, PayShare(w)
    PROVE  HouseTyped'
<1>1. PICK k \in tx[w].batch : \E amount \in ShareAmounts(w, k) :
          LET u == ShareOwner(w, k)
              paid == Credit(Seen(wallets[u], w), ShareLine(w), req[w].market, amount)
          IN  /\ wallets' = IF amount = 0 THEN wallets
                            ELSE [wallets EXCEPT ![u] = Written(@, w, paid)]
              /\ tx' = [tx EXCEPT ![w].batch = @ \ {k}]
  BY DEF PayShare
<1>2. PICK amount \in ShareAmounts(w, k) :
          LET u == ShareOwner(w, k)
              paid == Credit(Seen(wallets[u], w), ShareLine(w), req[w].market, amount)
          IN  /\ wallets' = IF amount = 0 THEN wallets
                            ELSE [wallets EXCEPT ![u] = Written(@, w, paid)]
              /\ tx' = [tx EXCEPT ![w].batch = @ \ {k}]
  BY <1>1
<1>3. /\ pc[w] = "share"
      /\ UNCHANGED <<markets, bets, stakes, quotes, grants, clocks, load, todo, pc, req>>
  BY DEF PayShare
<1> DEFINE u == ShareOwner(w, k)
           paid == Credit(Seen(wallets[u], w), ShareLine(w), req[w].market, amount)
<1>4. u \in Users /\ amount \in Nat
  BY <1>3, SharesTyped
<1>5. wallets \in [Users -> RowOf(Wallet)]
  BY Typed DEF TablesTypedNow
<1> HIDE DEF u
<1>6. paid \in Wallet
  BY <1>4, <1>5, VersionsTyped, CreditTyped
<1>7. /\ wallets' = wallets \/ wallets' = [wallets EXCEPT ![u] = Written(@, w, paid)]
      /\ tx' = [tx EXCEPT ![w].batch = @ \ {k}]
  BY <1>2 DEF u
<1> HIDE DEF paid
<1>8. wallets' \in [Users -> RowOf(Wallet)]
  BY <1>4, <1>5, <1>6, <1>7, TableWritten
<1>9. TablesTypedNow'
  BY <1>3, <1>8, Typed DEF TablesTypedNow
<1>10. /\ pc' = [pc EXCEPT ![w] = "share"]
       /\ tx'[w].batch = tx[w].batch \ {k} /\ tx'[w].bet = tx[w].bet
       /\ tx' = [tx EXCEPT ![w] = [tx[w] EXCEPT !.batch = tx'[w].batch, !.bet = tx'[w].bet]]
  BY <1>3, <1>7, Served DEF Tx
<1>11. /\ req[w].op = "settle" /\ req[w].market \in Markets
       /\ Mechanism(req[w].market) # "fixed_odds"
       /\ Mechanism(req[w].market) = "parimutuel" => tx[w].batch \subseteq StakeIds
       /\ Mechanism(req[w].market) = "lmsr" => tx[w].batch \subseteq Users
  BY <1>3, Typed, Served DEF ServingOK, OpsAt, BatchOK
<1> QED
  BY <1>3, <1>9, <1>10, <1>11, Served, LoopStep, Zenon DEF OpsAt

LEMMA FinishSettleTyped ==
    ASSUME NEW w \in Workers, HouseTyped, FinishSettle(w)
    PROVE  HouseTyped'
<1> DEFINE m == req[w].market
           settled == [markets[m].now EXCEPT !.status = "settled", !.outcome = req[w].outcome]
<1>1. /\ pc[w] \in {"result", "share"} /\ Goto(w, "commit")
      /\ UNCHANGED <<wallets, bets, stakes, quotes, grants, clocks, load, todo, req, tx>>
  BY DEF FinishSettle
<1>2. markets' = markets \/ markets' = [markets EXCEPT ![m] = Written(@, w, settled)]
  BY DEF FinishSettle
<1>3. m \in Markets /\ req[w].outcome \in Sides
  BY <1>1, Typed, Served DEF ServingOK, OpsAt
<1>4. markets \in [Markets -> RowOf(Market)]
  BY Typed DEF TablesTypedNow
<1>5. settled \in Market
  BY <1>3, <1>4, VersionsTyped, MarketEnds, Zenon DEF MarketStatus
<1> HIDE DEF settled, m
<1>6. markets' \in [Markets -> RowOf(Market)]
  BY <1>2, <1>3, <1>4, <1>5, TableWritten
<1>7. TablesTypedNow'
  BY <1>1, <1>6, Typed DEF TablesTypedNow
<1>8. /\ pc' = [pc EXCEPT ![w] = "commit"] /\ tx'[w] = tx[w]
      /\ tx' = [tx EXCEPT ![w] = [tx[w] EXCEPT !.batch = tx'[w].batch, !.bet = tx'[w].bet]]
  BY <1>1, Served DEF Goto, Tx
<1> QED
  BY <1>1, <1>7, <1>8, Served, LoopStep, Zenon

----------------------------------------------------------------------------
(***************************************************************************)
(* Cancellation.                                                           *)
(***************************************************************************)

LEMMA StartAnnulTyped ==
    ASSUME NEW w \in Workers, HouseTyped, StartAnnul(w)
    PROVE  HouseTyped'
<1>1. PICK r \in todo : /\ r.op = "annul" /\ Accept(w, r)
                        /\ Goto(w, "annul") /\ UNCHANGED <<tables, clocks, load, tx>>
  BY DEF StartAnnul
<1>2. pc' = [pc EXCEPT ![w] = "annul"] /\ pc'[w] = "annul" /\ req'[w] = r
  BY <1>1, Typed DEF Goto, Accept
<1>3. ServingOK(w)'
  BY <1>1, <1>2 DEF ServingOK, BatchOK, OpsAt
<1>4. tx'[w] \in Tx /\ tx' = [tx EXCEPT ![w] = tx'[w]]
  BY <1>1, Typed
<1> QED
  BY <1>1, <1>2, <1>3, <1>4, StepAccepts DEF Statement

LEMMA LockToCancelTyped ==
    ASSUME NEW w \in Workers, HouseTyped, LockToCancel(w)
    PROVE  HouseTyped'
<1>1. CASE Rollback(w)
  BY <1>1, RollbackTyped
<1>2. CASE ~Rollback(w)
  <2> DEFINE m == req[w].market
             zero == [s \in Sides |-> 0]
             none == [u \in Users |-> zero]
             cancelled == [markets[m].now EXCEPT !.status = "cancelled", !.pool = zero,
                                                 !.held = none]
             batch == ToRefund(w, m)
  <2>1. /\ pc[w] = "annul" /\ tx' = [tx EXCEPT ![w].batch = batch]
        /\ markets' = [markets EXCEPT ![m] = Written(@, w, cancelled)]
        /\ Goto(w, "credit")
        /\ UNCHANGED <<wallets, bets, stakes, quotes, grants, clocks, load, todo, req>>
    BY <1>2 DEF LockToCancel
  <2>2. req[w].op = "annul" /\ m \in Markets
    BY <2>1, Typed, Served DEF ServingOK, OpsAt
  <2>3. markets \in [Markets -> RowOf(Market)]
    BY Typed DEF TablesTypedNow
  <2>4. markets[m].now \in Market /\ zero \in [Sides -> Nat] /\ none \in [Users -> [Sides -> Nat]]
    BY <2>2, <2>3, VersionsTyped
  <2>5. /\ Mechanism(m) = "fixed_odds" => batch \subseteq BetIds
        /\ Mechanism(m) = "parimutuel" => batch \subseteq StakeIds
        /\ Mechanism(m) = "lmsr" => batch \subseteq Users
    BY DEF ToRefund, OpenBets, StakesOn
  <2> HIDE DEF zero, none, batch
  <2>6. cancelled \in Market
    BY <2>4 DEF Market, MarketStatus
  <2> HIDE DEF cancelled, m
  <2>7. markets' \in [Markets -> RowOf(Market)]
    BY <2>1, <2>2, <2>3, <2>6, TableWritten
  <2>8. TablesTypedNow'
    BY <2>1, <2>7, Typed DEF TablesTypedNow
  <2>9. /\ pc' = [pc EXCEPT ![w] = "credit"] /\ tx'[w].batch = batch /\ tx'[w].bet = tx[w].bet
        /\ tx' = [tx EXCEPT ![w] = [tx[w] EXCEPT !.batch = tx'[w].batch, !.bet = tx'[w].bet]]
    BY <2>1, Served DEF Goto, Tx
  <2>10. batch \subseteq Nat
    BY <2>2, <2>5, Batches
  <2> QED
    BY <2>1, <2>2, <2>5, <2>8, <2>9, <2>10, Served, LoopStep, Zenon DEF OpsAt, m
<1> QED
  BY <1>1, <1>2

LEMMA CreditBetTyped ==
    ASSUME NEW w \in Workers, HouseTyped, CreditBet(w)
    PROVE  HouseTyped'
<1>1. PICK b \in tx[w].batch :
          LET t == bets[b].now.ticket
          IN  /\ wallets' = [wallets EXCEPT ![t.user] =
                     Written(@, w, Credit(Seen(@, w), "BET_CANCEL_REFUND", b, t.stake))]
              /\ tx' = [tx EXCEPT ![w].batch = @ \ {b}, ![w].bet = b]
  BY Zenon DEF CreditBet
<1>2. /\ pc[w] = "credit" /\ Mechanism(req[w].market) = "fixed_odds" /\ Goto(w, "unbet")
      /\ UNCHANGED <<markets, bets, stakes, quotes, grants, clocks, load, todo, req>>
  BY DEF CreditBet
<1> DEFINE t == bets[b].now.ticket
           paid == Credit(Seen(wallets[t.user], w), "BET_CANCEL_REFUND", b, t.stake)
<1>3. /\ req[w].op = "annul" /\ req[w].market \in Markets
      /\ tx[w].batch \subseteq BetIds
  BY <1>2, Typed, Served DEF ServingOK, OpsAt, BatchOK
<1>4. b \in BetIds /\ t \in Ticket
  BY <1>3, Typed DEF TablesTypedNow, RowOf, Bet
<1>5. t.user \in Users /\ t.stake \in Nat
  BY <1>4, TicketForm
<1>6. wallets' = [wallets EXCEPT ![t.user] = Written(@, w, paid)]
  BY <1>1
<1> HIDE DEF t
<1>7. wallets \in [Users -> RowOf(Wallet)]
  BY Typed DEF TablesTypedNow
<1>8. paid \in Wallet
  BY <1>5, <1>7, VersionsTyped, CreditTyped
<1> HIDE DEF paid
<1>9. wallets' \in [Users -> RowOf(Wallet)]
  BY <1>5, <1>6, <1>7, <1>8, TableWritten
<1>10. TablesTypedNow'
  BY <1>2, <1>9, Typed DEF TablesTypedNow
<1>11. /\ pc' = [pc EXCEPT ![w] = "unbet"]
       /\ tx'[w].batch = tx[w].batch \ {b} /\ tx'[w].bet = b
       /\ tx' = [tx EXCEPT ![w] = [tx[w] EXCEPT !.batch = tx'[w].batch, !.bet = tx'[w].bet]]
  BY <1>1, <1>2, Served DEF Goto, Tx
<1> QED
  BY <1>2, <1>3, <1>4, <1>10, <1>11, Served, LoopStep, Zenon DEF OpsAt

LEMMA VoidBetTyped ==
    ASSUME NEW w \in Workers, HouseTyped, VoidBet(w)
    PROVE  HouseTyped'
<1> DEFINE b == tx[w].bet
<1>1. /\ pc[w] = "unbet"
      /\ bets' = [bets EXCEPT ![b] = Written(@, w, [@.now EXCEPT !.status = "voided"])]
      /\ Goto(w, "credit")
      /\ UNCHANGED <<wallets, markets, stakes, quotes, grants, clocks, load, todo, req, tx>>
  BY DEF VoidBet
<1>2. bets' \in [BetIds -> RowOf(Bet)]
  <2>1. bets \in [BetIds -> RowOf(Bet)]
    BY Typed DEF TablesTypedNow
  <2> HIDE DEF b
  <2> QED
    BY <1>1, <2>1, BetStatusWritten DEF BetStatus
<1>3. TablesTypedNow'
  BY <1>1, <1>2, Typed DEF TablesTypedNow
<1>4. /\ pc' = [pc EXCEPT ![w] = "credit"] /\ tx'[w] = tx[w]
      /\ tx' = [tx EXCEPT ![w] = [tx[w] EXCEPT !.batch = tx'[w].batch, !.bet = tx'[w].bet]]
  BY <1>1, Served DEF Goto, Tx
<1>5. /\ req[w].op = "annul" /\ req[w].market \in Markets
      /\ Mechanism(req[w].market) = "fixed_odds" => tx[w].batch \subseteq BetIds
      /\ Mechanism(req[w].market) = "parimutuel" => tx[w].batch \subseteq StakeIds
      /\ Mechanism(req[w].market) = "lmsr" => tx[w].batch \subseteq Users
  BY <1>1, Typed, Served DEF ServingOK, OpsAt, BatchOK
<1> QED
  BY <1>1, <1>3, <1>4, <1>5, Served, LoopStep, Zenon DEF OpsAt

LEMMA CreditPoolTyped ==
    ASSUME NEW w \in Workers, HouseTyped, CreditPool(w)
    PROVE  HouseTyped'
<1> DEFINE m == req[w].market
           pari == Mechanism(m) = "parimutuel"
           Owner(k) == IF pari THEN stakes[k].now.user ELSE k
           Amount(k) == IF pari THEN stakes[k].now.amount ELSE markets[m].now.costs[k]
<1>1. PICK k \in tx[w].batch :
          /\ wallets' = [wallets EXCEPT ![Owner(k)] =
                 Written(@, w, Credit(Seen(@, w), "MARKET_CANCEL_REFUND", m, Amount(k)))]
          /\ tx' = [tx EXCEPT ![w].batch = @ \ {k}]
  BY Zenon DEF CreditPool
<1>2. /\ pc[w] = "credit" /\ Mechanism(m) # "fixed_odds"
      /\ UNCHANGED <<markets, bets, stakes, quotes, grants, clocks, load, todo, pc, req>>
  BY DEF CreditPool
<1>3. /\ req[w].op = "annul" /\ m \in Markets
      /\ Mechanism(m) = "parimutuel" => tx[w].batch \subseteq StakeIds
      /\ Mechanism(m) = "lmsr" => tx[w].batch \subseteq Users
  BY <1>2, Typed, Served DEF ServingOK, OpsAt, BatchOK
<1> DEFINE u == Owner(k)
           amount == Amount(k)
           paid == Credit(Seen(wallets[u], w), "MARKET_CANCEL_REFUND", m, amount)
<1>4. u \in Users /\ amount \in Nat
  <2>1. CASE pari
    <3>1. stakes[k].now \in Stake
      BY <1>3, <2>1, Typed, VersionsTyped DEF TablesTypedNow
    <3> QED
      BY <2>1, <3>1 DEF Stake
  <2>2. CASE ~pari
    <3>1. k \in Users
      BY <1>1, <1>2, <1>3, <2>2, Batches
    <3>2. markets[m].now \in Market
      BY <1>3, Typed, VersionsTyped DEF TablesTypedNow
    <3> QED
      BY <2>2, <3>1, <3>2 DEF Market
  <2> QED
    BY <2>1, <2>2
<1>5. wallets' = [wallets EXCEPT ![u] = Written(@, w, paid)] /\ tx' = [tx EXCEPT ![w].batch = @ \ {k}]
  BY <1>1
<1> HIDE DEF u, amount
<1>6. wallets \in [Users -> RowOf(Wallet)]
  BY Typed DEF TablesTypedNow
<1>7. paid \in Wallet
  BY <1>4, <1>6, VersionsTyped, CreditTyped
<1> HIDE DEF paid
<1>8. wallets' \in [Users -> RowOf(Wallet)]
  BY <1>4, <1>5, <1>6, <1>7, TableWritten
<1>9. TablesTypedNow'
  BY <1>2, <1>8, Typed DEF TablesTypedNow
<1>10. /\ pc' = [pc EXCEPT ![w] = "credit"]
       /\ tx'[w].batch = tx[w].batch \ {k} /\ tx'[w].bet = tx[w].bet
       /\ tx' = [tx EXCEPT ![w] = [tx[w] EXCEPT !.batch = tx'[w].batch, !.bet = tx'[w].bet]]
  BY <1>2, <1>5, Served DEF Tx
<1> HIDE DEF m
<1> QED
  BY <1>2, <1>3, <1>9, <1>10, Served, LoopStep DEF OpsAt, m

LEMMA FinishCancelTyped ==
    ASSUME NEW w \in Workers, HouseTyped, FinishCancel(w)
    PROVE  HouseTyped'
<1>1. pc[w] = "credit" /\ Goto(w, "commit") /\ UNCHANGED <<tables, clocks, load, todo, req, tx>>
  BY DEF FinishCancel
<1>2. ServingOK(w)'
  BY <1>1, Typed, RequestForms DEF ServingOK, BatchOK, OpsAt, Goto
<1> QED
  BY <1>1, <1>2, GotoTyped DEF Statement

----------------------------------------------------------------------------
(***************************************************************************)
(* The market's life, and the faucet.                                      *)
(***************************************************************************)

LEMMA ExpireTyped ==
    ASSUME NEW m \in Markets, HouseTyped, Expire(m)
    PROVE  HouseTyped'
  BY ClockStep DEF Expire, HouseTyped, TypeOK, TablesTypedNow, tables

LEMMA CloseMarketTyped ==
    ASSUME NEW m \in Markets, HouseTyped, CloseMarket(m)
    PROVE  HouseTyped'
<1>1. markets \in [Markets -> RowOf(Market)]
  BY DEF HouseTyped, TypeOK
<1>2. markets' \in [Markets -> RowOf(Market)]
  <2> DEFINE closed == [markets[m].now EXCEPT !.status = "closed"]
  <2>1. markets' = [markets EXCEPT ![m] = Fresh(closed)]
    BY DEF CloseMarket
  <2>2. markets[m].now \in Market
    BY <1>1 DEF RowOf
  <2>3. closed \in Market
    BY <2>2, MarketEnds, Zenon DEF MarketStatus
  <2> HIDE DEF closed
  <2> QED
    BY <1>1, <2>1, <2>3 DEF RowOf, Fresh
<1>3. TablesTypedNow'
  BY <1>2 DEF HouseTyped, TypeOK, TablesTypedNow, CloseMarket
<1> QED
  BY <1>3, ClockStep DEF CloseMarket, HouseTyped, TypeOK, clocks

LEMMA PatchTyped ==
    ASSUME NEW w \in Workers, HouseTyped, Patch(w)
    PROVE  HouseTyped'
<1>1. PICK r \in todo : /\ r.op = "patch" /\ Accept(w, r)
                        /\ Goto(w, "patch") /\ UNCHANGED <<tables, clocks, load, tx>>
  BY DEF Patch
<1>2. pc' = [pc EXCEPT ![w] = "patch"] /\ pc'[w] = "patch" /\ req'[w] = r
  BY <1>1, Typed DEF Goto, Accept
<1>3. ServingOK(w)'
  BY <1>1, <1>2 DEF ServingOK, BatchOK, OpsAt
<1>4. tx'[w] \in Tx /\ tx' = [tx EXCEPT ![w] = tx'[w]]
  BY <1>1, Typed
<1> QED
  BY <1>1, <1>2, <1>3, <1>4, StepAccepts DEF Statement

\* A step that writes other tables than quotes, and after which little is left to do.
LEMMA LastStep ==
    ASSUME NEW w \in Workers, HouseTyped, TablesTypedNow', quotes' = quotes,
           \/ Goto(w, "commit")
           \/ pc[w] = "approve" /\ Goto(w, "grant"),
           UNCHANGED <<clocks, todo, req, tx>>
    PROVE  HouseTyped'
<1>1. pc' = [pc EXCEPT ![w] = pc'[w]] /\ pc'[w] \in Statement
      /\ (pc'[w] = "commit" \/ (pc[w] = "approve" /\ pc'[w] = "grant"))
  <2>1. CASE Goto(w, "commit")
    BY <2>1, Typed DEF Goto, Statement
  <2>2. CASE pc[w] = "approve" /\ Goto(w, "grant")
    BY <2>2, Typed DEF Goto, Statement
  <2> QED
    BY <2>1, <2>2
<1>2. ServingOK(w)'
  BY <1>1, Typed, RequestForms DEF ServingOK, BatchOK, OpsAt
<1>3. tx'[w] \in Tx /\ tx' = [tx EXCEPT ![w] = tx'[w]]
  BY Typed
<1> QED
  BY <1>1, <1>2, <1>3, StepOn

LEMMA WritePatchTyped ==
    ASSUME NEW w \in Workers, HouseTyped, WritePatch(w)
    PROVE  HouseTyped'
<1> DEFINE m == req[w].market
           status == req[w].status
           patched == [markets[m].now EXCEPT !.status = status]
<1>1. /\ pc[w] = "patch" /\ Goto(w, "commit")
      /\ markets' = [markets EXCEPT ![m] = Written(@, w, patched)]
      /\ UNCHANGED <<wallets, bets, stakes, quotes, grants, clocks, load, todo, req, tx>>
  BY DEF WritePatch
<1>2. m \in Markets /\ status \in MarketStatus
  <2>1. req[w].op = "patch"
    BY <1>1, Typed DEF ServingOK, OpsAt
  <2> QED
    BY <2>1, Typed, RequestForms
<1>3. markets' \in [Markets -> RowOf(Market)]
  <2>1. markets \in [Markets -> RowOf(Market)]
    BY Typed DEF TablesTypedNow
  <2>2. patched \in Market
    BY <1>2, <2>1, VersionsTyped, MarketEnds, Zenon
  <2> HIDE DEF m, patched
  <2> QED
    BY <1>1, <1>2, <2>1, <2>2, TableWritten
<1>4. TablesTypedNow'
  BY <1>1, <1>3, Typed DEF TablesTypedNow
<1> QED
  BY <1>1, <1>4, LastStep

LEMMA StartReviewTyped ==
    ASSUME NEW w \in Workers, HouseTyped, StartReview(w)
    PROVE  HouseTyped'
<1>1. PICK r \in todo : /\ r.op \in {"approve", "reject"} /\ Accept(w, r)
                        /\ Goto(w, r.op) /\ UNCHANGED <<tables, clocks, load, tx>>
  BY DEF StartReview
<1>2. pc' = [pc EXCEPT ![w] = r.op] /\ pc'[w] = r.op /\ req'[w] = r
  BY <1>1, Typed DEF Goto, Accept
<1>3. ServingOK(w)'
  BY <1>1, <1>2 DEF ServingOK, BatchOK, OpsAt
<1>4. tx'[w] \in Tx /\ tx' = [tx EXCEPT ![w] = tx'[w]]
  BY <1>1, Typed
<1> QED
  BY <1>1, <1>2, <1>3, <1>4, StepAccepts DEF Statement

LEMMA ApproveTyped ==
    ASSUME NEW w \in Workers, HouseTyped, Approve(w)
    PROVE  HouseTyped'
<1>1. CASE Rollback(w)
  BY <1>1, RollbackTyped
<1>2. CASE ~Rollback(w)
  <2> DEFINE g == req[w].grant
             row == [status |-> "approved"]
  <2>1. /\ pc[w] = "approve" /\ Goto(w, "grant")
        /\ grants' = [grants EXCEPT ![g] = Written(@, w, row)]
        /\ UNCHANGED <<wallets, markets, bets, stakes, quotes, clocks, load, todo, req, tx>>
    BY <1>2 DEF Approve
  <2>2. grants' \in [Grants -> RowOf(Grant)]
    <3>1. g \in Grants /\ grants \in [Grants -> RowOf(Grant)]
      BY <2>1, Typed, RequestForms DEF TablesTypedNow, ServingOK, OpsAt
    <3>2. row \in Grant
      BY DEF Grant
    <3> HIDE DEF g, row
    <3> QED
      BY <2>1, <3>1, <3>2, TableWritten
  <2>3. TablesTypedNow'
    BY <2>1, <2>2, Typed DEF TablesTypedNow
  <2> QED
    BY <2>1, <2>3, LastStep
<1> QED
  BY <1>1, <1>2

LEMMA GrantFundsTyped ==
    ASSUME NEW w \in Workers, HouseTyped, GrantFunds(w)
    PROVE  HouseTyped'
<1> DEFINE g == req[w].grant
           u == GrantTerms[g].user
           amount == GrantTerms[g].amount
           paid == Credit(wallets[u].now, "FAUCET_GRANT", g, amount)
<1>1. /\ pc[w] = "grant" /\ Goto(w, "commit")
      /\ wallets' = [wallets EXCEPT ![u] = Written(@, w, paid)]
      /\ UNCHANGED <<markets, bets, stakes, quotes, grants, clocks, load, todo, req, tx>>
  BY DEF GrantFunds
<1>2. g \in Grants
  <2>1. req[w].op = "approve"
    BY <1>1, Typed DEF ServingOK, OpsAt
  <2> QED
    BY <2>1, Typed, RequestForms
<1>3. u \in Users /\ amount \in Nat
  BY <1>2, GrantsAssumption
<1>4. wallets \in [Users -> RowOf(Wallet)]
  BY Typed DEF TablesTypedNow
<1> HIDE DEF u, amount
<1>5. paid \in Wallet
  BY <1>3, <1>4, VersionsTyped, CreditTyped
<1> HIDE DEF paid
<1>6. wallets' \in [Users -> RowOf(Wallet)]
  BY <1>1, <1>3, <1>4, <1>5, TableWritten
<1>7. TablesTypedNow'
  BY <1>1, <1>6, Typed DEF TablesTypedNow
<1> QED
  BY <1>1, <1>7, LastStep

LEMMA RejectTyped ==
    ASSUME NEW w \in Workers, HouseTyped, Reject(w)
    PROVE  HouseTyped'
<1> DEFINE g == req[w].grant
           row == [status |-> "rejected"]
<1>1. /\ pc[w] = "reject" /\ Goto(w, "commit")
      /\ grants' = [grants EXCEPT ![g] = Written(@, w, row)]
      /\ UNCHANGED <<wallets, markets, bets, stakes, quotes, clocks, load, todo, req, tx>>
  BY DEF Reject
<1>2. grants' \in [Grants -> RowOf(Grant)]
  <2>1. g \in Grants /\ grants \in [Grants -> RowOf(Grant)]
    BY <1>1, Typed, RequestForms DEF TablesTypedNow, ServingOK, OpsAt
  <2>2. row \in Grant
    BY DEF Grant
  <2> HIDE DEF g, row
  <2> QED
    BY <1>1, <2>1, <2>2, TableWritten
<1>3. TablesTypedNow'
  BY <1>1, <1>2, Typed DEF TablesTypedNow
<1> QED
  BY <1>1, <1>3, LastStep

----------------------------------------------------------------------------
(***************************************************************************)
(* The invariant, and the theorem.                                         *)
(***************************************************************************)

LEMMA InitTyped == Init => HouseTyped
<1> SUFFICES ASSUME Init
             PROVE  HouseTyped
  OBVIOUS
<1> DEFINE user0 == NoTicket.user
           market0 == NoTicket.market
<1>1. NoTicket \in Ticket /\ user0 \in Users /\ market0 \in Markets
  BY IdsAssumption DEF NoTicket, Ticket, Sides
<1> HIDE DEF user0, market0
<1>2. wallets \in [Users -> RowOf(Wallet)]
  <2>1. \A u \in Users : NewWallet(InitialFunds[u]) \in Wallet
    BY FundsAssumption DEF NewWallet, Wallet
  <2> QED
    BY <2>1 DEF Init, RowOf, Fresh
<1>3. markets \in [Markets -> RowOf(Market)]
  <2>1. NewMarket \in Market
    BY DEF NewMarket, Market, MarketStatus
  <2> QED
    BY <2>1 DEF Init, RowOf, Fresh
<1>4. bets \in [BetIds -> RowOf(Bet)]
  <2> DEFINE bet == [ticket |-> NoTicket, slip |-> Nobody, status |-> "none"]
  <2>1. bet \in Bet
    BY <1>1 DEF Bet, BetStatus
  <2>2. bets = [b \in BetIds |-> Fresh(bet)]
    BY DEF Init
  <2> HIDE DEF bet
  <2> QED
    BY <2>1, <2>2 DEF RowOf, Fresh
<1>5. stakes \in [StakeIds -> RowOf(Stake)]
  <2> DEFINE stake == [user |-> user0, market |-> market0, side |-> "YES", amount |-> 0]
  <2>1. stake \in Stake
    BY <1>1 DEF Stake, Sides
  <2>2. stakes = [i \in StakeIds |-> Fresh(stake)]
    BY DEF Init, user0, market0
  <2> HIDE DEF stake
  <2> QED
    BY <2>1, <2>2 DEF RowOf, Fresh
<1>6. /\ quotes \in [Slips -> RowOf(Quote)]
      /\ \A k \in Slips : quotes[k].now.status = "none" /\ quotes[k].new.status = "none"
  <2> DEFINE quote == [user |-> user0, items |-> <<>>, status |-> "none"]
  <2>1. quote \in Quote /\ quote.status = "none"
    BY <1>1, EmptySeq DEF Quote
  <2>2. quotes = [k \in Slips |-> Fresh(quote)]
    BY DEF Init, user0
  <2> HIDE DEF quote
  <2> QED
    BY <2>1, <2>2 DEF RowOf, Fresh
<1>7. grants \in [Grants -> RowOf(Grant)]
  BY DEF Init, RowOf, Fresh, Grant
<1>8. /\ expired \subseteq Markets /\ lapsed \subseteq Slips
      /\ pc \in [Workers -> Statement] /\ \A w \in Workers : pc[w] = "idle"
      /\ req \in [Workers -> Request \cup {NoRequest}]
      /\ \A w \in Workers : req[w] = NoRequest
  BY DEF Init, Statement
<1>9. \A r \in todo : r \in Request
  BY MixesAssumption DEF Init
<1>10. tx \in [Workers -> Tx]
  BY NoTxTyped DEF Init
<1>11. TypeOK
  BY <1>2, <1>3, <1>4, <1>5, <1>6, <1>7, <1>8, <1>9, <1>10 DEF TypeOK
<1>12. Serving
  BY <1>8 DEF Serving, ServingOK, BatchOK, OpsAt, NoRequest
<1>13. QuotesAsk
  BY <1>6 DEF QuotesAsk
<1> QED
  BY <1>11, <1>12, <1>13 DEF HouseTyped

LEMMA NextTyped == HouseTyped /\ [Next]_vars => HouseTyped'
<1> SUFFICES ASSUME HouseTyped, [Next]_vars
             PROVE  HouseTyped'
  OBVIOUS
<1>1. ASSUME NEW w \in Workers, FixedOddsStep(w)
      PROVE  HouseTyped'
  BY <1>1, StartPlaceTyped, StartExecuteTyped, ClaimTyped, LookTyped, AssessTyped,
     DebitStakeTyped, InsertBetTyped, StartQuoteTyped, RegisterTyped, StartLeaveTyped,
     LockBetTyped, RefundStakeTyped, TouchMarketTyped, CashOutTyped
     DEF FixedOddsStep
<1>2. ASSUME NEW w \in Workers, PoolStep(w)
      PROVE  HouseTyped'
  BY <1>2, StartStakeTyped, BankStakeTyped, AddToPoolTyped, StartTradeTyped, PriceTyped,
     PayTradeTyped
     DEF PoolStep
<1>3. ASSUME NEW w \in Workers, FinalStep(w)
      PROVE  HouseTyped'
  BY <1>3, StartSettleTyped, DecideTyped, ResultTyped, PayWinnerTyped, DivideTyped,
     PayShareTyped, FinishSettleTyped, StartAnnulTyped, LockToCancelTyped, CreditBetTyped,
     VoidBetTyped, CreditPoolTyped, FinishCancelTyped, PatchTyped, WritePatchTyped,
     StartReviewTyped, ApproveTyped, GrantFundsTyped, RejectTyped
     DEF FinalStep
<1>4. ASSUME NEW w \in Workers, Commit(w) \/ Crash(w)
      PROVE  HouseTyped'
  BY <1>4, CommitTyped, RollbackTyped DEF Crash
<1>5. ASSUME NEW k \in Slips, Lapse(k)
      PROVE  HouseTyped'
  BY <1>5, LapseTyped
<1>6. ASSUME NEW m \in Markets, Expire(m) \/ CloseMarket(m)
      PROVE  HouseTyped'
  BY <1>6, ExpireTyped, CloseMarketTyped
<1>7. CASE UNCHANGED vars
  <2>1. TypeOK'
    BY <1>7 DEF vars, HouseTyped, TypeOK
  <2>2. \A w \in Workers : ServingOK(w)'
    BY <1>7 DEF vars, HouseTyped, Serving, ServingOK, BatchOK
  <2>3. QuotesAsk'
    BY <1>7 DEF vars, HouseTyped, QuotesAsk
  <2> QED
    BY <2>1, <2>2, <2>3 DEF HouseTyped, Serving
<1> QED
  BY <1>1, <1>2, <1>3, <1>4, <1>5, <1>6, <1>7 DEF Next

\* Every row keeps its type, and every statement finds what it relies on: the balances
\* behind the database's checks, the pools and the shares are never negative, whatever
\* requests interleave, fail or crash.
THEOREM HouseTypedAlways == Spec => []HouseTyped
  BY InitTyped, NextTyped, PTL DEF Spec

\* The type invariant itself, which the run checks on its loads.
THEOREM HouseTypes == Spec => []TypeOK
<1>1. HouseTyped => TypeOK
  BY DEF HouseTyped
<1> QED
  BY <1>1, HouseTypedAlways, PTL

----------------------------------------------------------------------------
(***************************************************************************)
(* The steps of one worker and what the others see.                        *)
(***************************************************************************)

\* The statements at which a worker may hold wallets.
WalletAt ==
    {"look", "risk", "debit", "insert", "touch", "commit", "pool", "result", "payout",
     "share", "credit", "unbet"}

\* The rows that w has locked by then.
LocksOK(w) ==
    /\ pc[w] \in {"refund", "touch", "cashout"} => bets[tx[w].bet].by = w
    /\ pc[w] = "pay" => markets[req[w].market].by = w

\* What w holds, and who serves.
HoldingOK(w) ==
    /\ LocksOK(w)
    /\ pc[w] = "insert" => wallets[Head(tx[w].items).user].by = w
    /\ \A u \in Users : wallets[u].by = w => pc[w] \in WalletAt
    /\ pc[w] = "idle" => req[w] = NoRequest
    /\ w \notin load.crew => pc[w] = "idle"

HouseHeld == HouseTyped /\ \A w \in Workers : HoldingOK(w)

\* A table of which w has written or locked some free rows.
OwnRows(old, new, w) ==
    \A k \in DOMAIN old :
        /\ new[k].now = old[k].now
        /\ new[k] = old[k] \/ (Free(old[k], w) /\ new[k].by = w)

\* A step within a request of w.
OwnStep(w) ==
    /\ OwnRows(wallets, wallets', w)
    /\ OwnRows(markets, markets', w)
    /\ OwnRows(bets, bets', w)
    /\ OwnRows(grants, grants', w)
    /\ \A v \in Workers \ {w} : pc'[v] = pc[v] /\ req'[v] = req[v] /\ tx'[v] = tx[v]
    /\ load' = load

\* The ledger's lines that a step of w does not write.
Keeps(w, lines) ==
    \A u \in Users : \A l \in lines :
        Seen(wallets[u], w)'.ledger[l] = Seen(wallets[u], w).ledger[l]

----------------------------------------------------------------------------
(***************************************************************************)
(* Rows and ledgers.                                                       *)
(***************************************************************************)

\* One row is written or locked, or none.
LEMMA RowWritten ==
    ASSUME NEW K, NEW V, NEW table \in [K -> RowOf(V)], NEW k \in K, NEW w \in Workers,
           Free(table[k], w), NEW value
    PROVE  /\ OwnRows(table, [table EXCEPT ![k] = Written(@, w, value)], w)
           /\ OwnRows(table, [table EXCEPT ![k] = Locked(@, w)], w)
  BY DEF OwnRows, Written, Locked, RowOf

LEMMA OneRow ==
    ASSUME NEW K, NEW V, NEW table \in [K -> RowOf(V)], NEW k \in K, NEW w \in Workers,
           Free(table[k], w), NEW new,
           \/ new = [table EXCEPT ![k] = Locked(@, w)]
           \/ \E value : new = [table EXCEPT ![k] = Written(@, w, value)]
    PROVE  OwnRows(table, new, w)
<1>1. CASE new = [table EXCEPT ![k] = Locked(@, w)]
  BY <1>1, RowWritten
<1>2. CASE \E value : new = [table EXCEPT ![k] = Written(@, w, value)]
  <2>1. PICK value : new = [table EXCEPT ![k] = Written(@, w, value)]
    BY <1>2
  <2> QED
    BY <2>1, RowWritten
<1> QED
  BY <1>1, <1>2

LEMMA RowsUnchanged ==
    ASSUME NEW table, NEW w
    PROVE  OwnRows(table, table, w)
  BY DEF OwnRows

\* A wallet, whatever the amounts in it.
Shaped(wallet) ==
    /\ DOMAIN wallet = {"available", "ledger"}
    /\ wallet = [available |-> wallet.available, ledger |-> wallet.ledger]
    /\ wallet.ledger = [l \in Line |-> wallet.ledger[l]]

LEMMA WalletShaped ==
    ASSUME NEW wallet \in Wallet
    PROVE  Shaped(wallet)
  BY DEF Wallet, Shaped

\* An entry changes one line.
LEMMA EntryWritten ==
    ASSUME NEW wallet, Shaped(wallet), NEW type, NEW ref, NEW amount, NEW new,
           new \in {Record(wallet, type, ref, amount), Credit(wallet, type, ref, amount),
                    Debit(wallet, type, ref, amount)}
    PROVE  /\ Shaped(new)
           /\ \A l \in Line :
                  new.ledger[l] = IF l = Entry(type, ref) THEN wallet.ledger[l] + amount
                                  ELSE wallet.ledger[l]
<1> DEFINE recorded == Record(wallet, type, ref, amount)
<1>1. /\ recorded = [available |-> wallet.available, ledger |-> recorded.ledger]
      /\ recorded.ledger = [l \in Line |-> recorded.ledger[l]]
      /\ \A l \in Line : recorded.ledger[l] =
             IF l = Entry(type, ref) THEN wallet.ledger[l] + amount ELSE wallet.ledger[l]
  BY DEF Record, Shaped
<1>2. new \in {recorded, [recorded EXCEPT !.available = @ + amount],
               [recorded EXCEPT !.available = @ - amount]}
  BY DEF Credit, Debit
<1> HIDE DEF recorded
<1>3. new = [available |-> new.available, ledger |-> recorded.ledger]
  BY <1>1, <1>2
<1> QED
  BY <1>1, <1>3 DEF Shaped

LEMMA OtherLines ==
    ASSUME NEW wallet, Shaped(wallet), NEW type, NEW ref, NEW amount
    PROVE  /\ Shaped(Record(wallet, type, ref, amount))
           /\ Shaped(Credit(wallet, type, ref, amount))
           /\ Shaped(Debit(wallet, type, ref, amount))
           /\ \A l \in Line \ {Entry(type, ref)} :
                  /\ Record(wallet, type, ref, amount).ledger[l] = wallet.ledger[l]
                  /\ Credit(wallet, type, ref, amount).ledger[l] = wallet.ledger[l]
                  /\ Debit(wallet, type, ref, amount).ledger[l] = wallet.ledger[l]
<1> DEFINE noted == Record(wallet, type, ref, amount)
           credited == Credit(wallet, type, ref, amount)
           debited == Debit(wallet, type, ref, amount)
<1>1. {noted, credited, debited} \subseteq
          {Record(wallet, type, ref, amount), Credit(wallet, type, ref, amount),
           Debit(wallet, type, ref, amount)}
  OBVIOUS
<1> HIDE DEF noted, credited, debited
<1>2. /\ Shaped(noted) /\ Shaped(credited) /\ Shaped(debited)
      /\ \A l \in Line \ {Entry(type, ref)} :
             /\ noted.ledger[l] = wallet.ledger[l]
             /\ credited.ledger[l] = wallet.ledger[l]
             /\ debited.ledger[l] = wallet.ledger[l]
  BY <1>1, EntryWritten
<1> QED
  BY <1>2 DEF noted, credited, debited

\* What w sees after it has written a wallet.
LEMMA WalletWritten ==
    ASSUME NEW w \in Workers, NEW u \in Users, NEW value,
           wallets \in [Users -> RowOf(Wallet)],
           wallets' = [wallets EXCEPT ![u] = Written(@, w, value)]
    PROVE  /\ Seen(wallets[u], w)' = value
           /\ \A v \in Users \ {u} : Seen(wallets[v], w)' = Seen(wallets[v], w)
<1>1. wallets'[u].by = w /\ wallets'[u].new = value
  BY DEF Written, RowOf
<1>2. \A v \in Users \ {u} : wallets'[v] = wallets[v]
  OBVIOUS
<1> QED
  BY <1>1, <1>2 DEF Seen

LEMMA OneLine ==
    ASSUME NEW w \in Workers, NEW u \in Users, wallets \in [Users -> RowOf(Wallet)],
           NEW wallet, wallet = Seen(wallets[u], w), NEW type, NEW ref, NEW amount, NEW value,
           \/ value = Credit(wallet, type, ref, amount)
           \/ value = Debit(wallet, type, ref, amount),
           wallets' = [wallets EXCEPT ![u] = Written(@, w, value)]
    PROVE  Keeps(w, Line \ {Entry(type, ref)})
<1> DEFINE others == Line \ {Entry(type, ref)}
<1>1. Shaped(wallet)
  BY WalletShaped, VersionsTyped
<1>2. \A l \in others : value.ledger[l] = wallet.ledger[l]
  BY <1>1, OtherLines
<1> HIDE DEF others
<1>3. \A l \in others : value.ledger[l] = Seen(wallets[u], w).ledger[l]
  BY <1>2
<1>4. /\ Seen(wallets[u], w)' = value
      /\ \A v \in Users \ {u} : Seen(wallets[v], w)' = Seen(wallets[v], w)
  BY WalletWritten
<1>5. ASSUME NEW v \in Users, NEW l \in others
      PROVE  Seen(wallets[v], w)'.ledger[l] = Seen(wallets[v], w).ledger[l]
  BY <1>3, <1>4
<1>6. Keeps(w, others)
  BY <1>5 DEF Keeps
<1> QED
  BY <1>6 DEF others

LEMMA TwoLines ==
    ASSUME NEW w \in Workers, NEW u \in Users, wallets \in [Users -> RowOf(Wallet)],
           NEW wallet, wallet = Seen(wallets[u], w), NEW type, NEW ref, NEW amount,
           NEW also, NEW more, NEW middle, NEW value,
           \/ middle = Credit(wallet, type, ref, amount) /\ value = Record(middle, also, ref, more)
           \/ middle = Debit(wallet, type, ref, amount) /\ value = Debit(middle, also, ref, more),
           wallets' = [wallets EXCEPT ![u] = Written(@, w, value)]
    PROVE  Keeps(w, Line \ {Entry(type, ref), Entry(also, ref)})
<1> DEFINE others == Line \ {Entry(type, ref), Entry(also, ref)}
<1>1. Shaped(wallet)
  BY WalletShaped, VersionsTyped
<1>2. Shaped(middle) /\ \A l \in others : middle.ledger[l] = wallet.ledger[l]
  BY <1>1, OtherLines
<1>3. \A l \in others : value.ledger[l] = middle.ledger[l]
  BY <1>2, OtherLines
<1> HIDE DEF others
<1>4. \A l \in others : value.ledger[l] = Seen(wallets[u], w).ledger[l]
  BY <1>2, <1>3
<1>5. /\ Seen(wallets[u], w)' = value
      /\ \A v \in Users \ {u} : Seen(wallets[v], w)' = Seen(wallets[v], w)
  BY WalletWritten
<1>6. ASSUME NEW v \in Users, NEW l \in others
      PROVE  Seen(wallets[v], w)'.ledger[l] = Seen(wallets[v], w).ledger[l]
  BY <1>4, <1>5
<1>7. Keeps(w, others)
  BY <1>6 DEF Keeps
<1> QED
  BY <1>7 DEF others

\* A step that writes fewer lines keeps more.
LEMMA KeepsLess ==
    ASSUME NEW w, NEW lines, Keeps(w, lines), NEW others \in SUBSET lines
    PROVE  Keeps(w, others)
  BY DEF Keeps

LEMMA WalletsKept ==
    ASSUME NEW w \in Workers, NEW lines, wallets' = wallets
    PROVE  Keeps(w, lines)
  BY DEF Keeps, Seen

----------------------------------------------------------------------------
(***************************************************************************)
(* Kinds of steps.                                                         *)
(***************************************************************************)

LEMMA Holding ==
    ASSUME HouseHeld, NEW w \in Workers
    PROVE  HouseTyped /\ HoldingOK(w)
  BY DEF HouseHeld

\* A worker takes a request.
LEMMA Arrives ==
    ASSUME NEW w \in Workers, HouseHeld, NEW r, Accept(w, r), NEW s, Goto(w, s),
           s \notin {"idle", "insert", "refund", "touch", "cashout", "pay"},
           UNCHANGED <<tables, load>>, tx' = [tx EXCEPT ![w] = tx'[w]]
    PROVE  OwnStep(w) /\ HoldingOK(w)'
<1>1. pc'[w] = s /\ pc[w] = "idle" /\ w \in load.crew
  BY Holding, Typed DEF Accept, Goto
<1>2. \A v \in Workers \ {w} : pc'[v] = pc[v] /\ req'[v] = req[v] /\ tx'[v] = tx[v]
  BY Holding, Typed DEF Accept, Goto
<1>3. \A u \in Users : wallets[u].by # w
  BY <1>1, Holding DEF HoldingOK, WalletAt
<1> QED
  BY <1>1, <1>2, <1>3, RowsUnchanged DEF OwnStep, HoldingOK, LocksOK, tables

\* A statement that writes no wallet.
LEMMA GoesOn ==
    ASSUME NEW w \in Workers, HouseHeld, pc[w] # "idle", NEW s, Goto(w, s),
           s \notin {"idle", "insert"}, pc[w] \in WalletAt => s \in WalletAt,
           s \in {"refund", "touch", "cashout", "pay"} => LocksOK(w)',
           UNCHANGED <<wallets, load, req>>, tx' = [tx EXCEPT ![w] = tx'[w]],
           OwnRows(markets, markets', w), OwnRows(bets, bets', w), OwnRows(grants, grants', w)
    PROVE  OwnStep(w) /\ HoldingOK(w)'
<1>1. pc'[w] = s
  BY Holding, Typed DEF Goto
<1>2. \A v \in Workers \ {w} : pc'[v] = pc[v] /\ req'[v] = req[v] /\ tx'[v] = tx[v]
  BY Holding, Typed DEF Goto
<1>3. HoldingOK(w)'
  BY <1>1, Holding DEF HoldingOK, LocksOK
<1> QED
  BY <1>2, <1>3, RowsUnchanged DEF OwnStep

\* A statement that writes the wallet of u.
LEMMA Pays ==
    ASSUME NEW w \in Workers, HouseHeld, pc[w] # "idle", pc'[w] \in WalletAt,
           pc' = [pc EXCEPT ![w] = pc'[w]],
           NEW u \in Users, NEW value, Free(wallets[u], w),
           wallets' = [wallets EXCEPT ![u] = Written(@, w, value)],
           pc'[w] = "insert" => u = Head(tx'[w].items).user, LocksOK(w)',
           UNCHANGED <<load, req>>, tx' = [tx EXCEPT ![w] = tx'[w]],
           OwnRows(markets, markets', w), OwnRows(bets, bets', w), OwnRows(grants, grants', w)
    PROVE  OwnStep(w) /\ HoldingOK(w)'
<1>1. wallets \in [Users -> RowOf(Wallet)]
  BY Holding, Typed DEF TablesTypedNow
<1>2. OwnRows(wallets, wallets', w) /\ wallets'[u].by = w
  BY <1>1, RowWritten, Zenon DEF Written, RowOf
<1>3. \A v \in Workers \ {w} : pc'[v] = pc[v] /\ req'[v] = req[v] /\ tx'[v] = tx[v]
  BY Holding, Typed
<1>4. HoldingOK(w)'
  BY <1>2, Holding DEF HoldingOK, WalletAt
<1> QED
  BY <1>2, <1>3, <1>4 DEF OwnStep

----------------------------------------------------------------------------
(***************************************************************************)
(* The statements that write no wallet.                                    *)
(***************************************************************************)

LEMMA ArrivalsOwn ==
    ASSUME NEW w \in Workers, HouseHeld,
           \/ StartPlace(w) \/ StartExecute(w) \/ StartQuote(w) \/ StartLeave(w)
           \/ StartStake(w) \/ StartTrade(w) \/ StartSettle(w) \/ StartAnnul(w)
           \/ Patch(w) \/ StartReview(w)
    PROVE  wallets' = wallets /\ OwnStep(w) /\ HoldingOK(w)'
<1>1. tx \in [Workers -> Tx]
  BY Holding, Typed
<1>2. PICK r \in todo : /\ Accept(w, r) /\ UNCHANGED <<tables, load>>
                        /\ \E s : /\ Goto(w, s)
                                  /\ s \notin {"idle", "insert", "refund", "touch",
                                                "cashout", "pay"}
                        /\ tx' = [tx EXCEPT ![w] = tx'[w]]
  <2>1. CASE StartPlace(w)
    BY <1>1, <2>1 DEF StartPlace
  <2>2. CASE StartExecute(w)
    BY <1>1, <2>2 DEF StartExecute
  <2>3. CASE StartQuote(w)
    BY <1>1, <2>3 DEF StartQuote
  <2>4. CASE StartLeave(w)
    BY <1>1, <2>4 DEF StartLeave
  <2>5. CASE StartStake(w)
    BY <1>1, <2>5 DEF StartStake
  <2>6. CASE StartTrade(w)
    BY <1>1, <2>6 DEF StartTrade
  <2>7. CASE StartSettle(w)
    BY <1>1, <2>7 DEF StartSettle
  <2>8. CASE StartAnnul(w)
    BY <1>1, <2>8 DEF StartAnnul
  <2>9. CASE Patch(w)
    BY <1>1, <2>9 DEF Patch
  <2>10. CASE StartReview(w)
    BY <1>1, <2>10 DEF StartReview
  <2> QED
    BY <2>1, <2>2, <2>3, <2>4, <2>5, <2>6, <2>7, <2>8, <2>9, <2>10
<1> QED
  BY <1>2, Arrives DEF tables

\* Most statements lead to one that relies on no lock.
LEMMA NoLocks ==
    ASSUME NEW w, pc'[w] \notin {"refund", "touch", "cashout", "pay"}
    PROVE  LocksOK(w)'
  BY DEF LocksOK

LEMMA BetStatementsOwn ==
    ASSUME NEW w \in Workers, HouseHeld,
           Claim(w) \/ Look(w) \/ Assess(w) \/ LockBet(w) \/ TouchMarket(w), ~Rollback(w)
    PROVE  wallets' = wallets /\ OwnStep(w) /\ HoldingOK(w)'
<1>1. /\ bets \in [BetIds -> RowOf(Bet)] /\ markets \in [Markets -> RowOf(Market)]
      /\ tx \in [Workers -> Tx] /\ ServingOK(w)
  BY Holding, Typed DEF TablesTypedNow
<1>2. CASE Claim(w)
  <2>1. /\ pc[w] = "claim" /\ Goto(w, "look")
        /\ UNCHANGED <<wallets, markets, bets, grants, load, req>>
        /\ tx' = [tx EXCEPT ![w] = tx'[w]]
    BY <1>1, <1>2 DEF Claim
  <2> QED
    BY <2>1, GoesOn, RowsUnchanged DEF WalletAt
<1>3. CASE Look(w)
  <2>1. /\ pc[w] = "look" /\ Goto(w, "risk") /\ UNCHANGED <<tables, load, req, tx>>
    BY <1>3 DEF Look
  <2> QED
    BY <1>1, <2>1, GoesOn, RowsUnchanged DEF WalletAt, tables
<1>4. CASE Assess(w)
  <2>1. /\ pc[w] = "risk" /\ Goto(w, "debit") /\ UNCHANGED <<tables, load, req, tx>>
    BY <1>4 DEF Assess
  <2> QED
    BY <1>1, <2>1, GoesOn, RowsUnchanged DEF WalletAt, tables
<1>5. CASE LockBet(w)
  <2>1. /\ pc[w] = "bet" /\ Free(bets[tx[w].bet], w)
        /\ bets' = [bets EXCEPT ![tx[w].bet] = Locked(@, w)]
        /\ Goto(w, "refund") \/ Goto(w, "cashout")
        /\ UNCHANGED <<wallets, markets, grants, load, req, tx>>
    BY <1>5, Zenon DEF LockBet
  <2>2. OwnRows(bets, bets', w)
    BY <1>1, <2>1, RowWritten DEF ServingOK
  <2>3. LocksOK(w)'
    BY <1>1, <2>1, Holding, Typed DEF LocksOK, ServingOK, Locked, RowOf, Goto
  <2> QED
    BY <1>1, <2>1, <2>2, <2>3, GoesOn, RowsUnchanged DEF WalletAt
<1>6. CASE TouchMarket(w)
  <2> DEFINE m == bets[tx[w].bet].new.ticket.market
  <2>1. /\ pc[w] = "touch" /\ Free(markets[m], w)
        /\ markets' = [markets EXCEPT ![m] = Locked(@, w)]
        /\ Goto(w, "commit")
        /\ UNCHANGED <<wallets, bets, grants, load, req, tx>>
    BY <1>6, Zenon DEF TouchMarket
  <2>2. m \in Markets
    BY <1>1, <2>1, Zenon DEF ServingOK, RowOf, Bet, Ticket
  <2> HIDE DEF m
  <2>3. OwnRows(markets, markets', w)
    BY <1>1, <2>1, <2>2, RowWritten
  <2> QED
    BY <1>1, <2>1, <2>3, GoesOn, RowsUnchanged DEF WalletAt
<1> QED
  BY <1>2, <1>3, <1>4, <1>5, <1>6

LEMMA RegisterOwn ==
    ASSUME NEW w \in Workers, HouseHeld, Register(w)
    PROVE  wallets' = wallets /\ OwnStep(w) /\ HoldingOK(w)'
<1>1. /\ pc[w] = "register" /\ EndRequest(w)
      /\ UNCHANGED <<wallets, markets, bets, grants, load>>
  BY DEF Register
<1>2. pc'[w] = "idle" /\ req'[w] = NoRequest
  BY <1>1, Holding, Typed DEF EndRequest, Goto
<1>3. \A v \in Workers \ {w} : pc'[v] = pc[v] /\ req'[v] = req[v] /\ tx'[v] = tx[v]
  BY <1>1, Holding, Typed DEF EndRequest, Goto
<1>4. \A u \in Users : wallets[u].by # w
  BY <1>1, Holding DEF HoldingOK, WalletAt
<1> QED
  BY <1>1, <1>2, <1>3, <1>4, NoLocks, RowsUnchanged DEF OwnStep, HoldingOK

LEMMA PoolStatementsOwn ==
    ASSUME NEW w \in Workers, HouseHeld, AddToPool(w) \/ Price(w)
    PROVE  wallets' = wallets /\ OwnStep(w) /\ HoldingOK(w)'
<1>1. /\ markets \in [Markets -> RowOf(Market)] /\ tx \in [Workers -> Tx] /\ ServingOK(w)
      /\ req[w] \in Request \cup {NoRequest}
  BY Holding, Typed DEF TablesTypedNow
<1> DEFINE m == req[w].market
<1>2. /\ pc[w] \in {"pool", "price"} /\ Free(markets[m], w)
      /\ Goto(w, "commit") \/ (pc[w] = "price" /\ Goto(w, "pay"))
      /\ UNCHANGED <<wallets, bets, grants, load, req>>
      /\ tx' = [tx EXCEPT ![w] = tx'[w]]
  BY <1>1 DEF AddToPool, Price, FreeForUpdate
<1>3. \/ markets' = [markets EXCEPT ![m] = Locked(@, w)]
      \/ \E value : markets' = [markets EXCEPT ![m] = Written(@, w, value)]
  BY DEF AddToPool, Price
<1>4. m \in Markets
  BY <1>1, <1>2, RequestForms DEF ServingOK, OpsAt
<1> HIDE DEF m
<1>5. OwnRows(markets, markets', w) /\ markets'[m].by = w
  BY <1>1, <1>2, <1>3, <1>4, OneRow DEF Written, Locked, RowOf
<1>6. LocksOK(w)'
  BY <1>2, <1>5, Holding, Typed DEF LocksOK, Goto, m
<1> QED
  BY <1>2, <1>5, <1>6, GoesOn, RowsUnchanged DEF WalletAt

LEMMA SettlementOwn ==
    ASSUME NEW w \in Workers, HouseHeld,
           Decide(w) \/ Divide(w) \/ FinishSettle(w)
    PROVE  wallets' = wallets /\ OwnStep(w) /\ HoldingOK(w)'
<1>1. /\ markets \in [Markets -> RowOf(Market)] /\ tx \in [Workers -> Tx] /\ ServingOK(w)
      /\ req[w] \in Request \cup {NoRequest}
  BY Holding, Typed DEF TablesTypedNow
<1> DEFINE m == req[w].market
<1>2. /\ pc[w] \in {"decide", "divide", "result", "share"}
      /\ UNCHANGED <<wallets, bets, grants, load, req>>
      /\ tx' = [tx EXCEPT ![w] = tx'[w]]
      /\ \E s \in {"result", "share", "commit"} : Goto(w, s)
  BY <1>1 DEF Decide, Divide, FinishSettle, tables
<1>3. \/ markets' = markets
      \/ /\ Free(markets[m], w)
         /\ \E value : markets' = [markets EXCEPT ![m] = Written(@, w, value)]
  <2>1. CASE Decide(w)
    BY <2>1, Zenon DEF Decide
  <2>2. CASE Divide(w)
    BY <2>2 DEF Divide, tables
  <2>3. CASE FinishSettle(w)
    <3>1. CASE Mechanism(m) = "parimutuel"
      BY <2>3, <3>1 DEF FinishSettle, FreeForUpdate
    <3>2. CASE Mechanism(m) # "parimutuel"
      BY <2>3, <3>2 DEF FinishSettle
    <3> QED
      BY <3>1, <3>2
  <2> QED
    BY <2>1, <2>2, <2>3
<1>4. m \in Markets
  BY <1>1, <1>2, RequestForms DEF ServingOK, OpsAt
<1> HIDE DEF m
<1>5. OwnRows(markets, markets', w)
  BY <1>1, <1>3, <1>4, OneRow, RowsUnchanged
<1> QED
  BY <1>2, <1>5, GoesOn, RowsUnchanged DEF WalletAt

LEMMA BetRowsOwn ==
    ASSUME NEW w \in Workers, HouseHeld, Result(w) \/ VoidBet(w)
    PROVE  wallets' = wallets /\ OwnStep(w) /\ HoldingOK(w)'
<1>1. /\ bets \in [BetIds -> RowOf(Bet)] /\ tx \in [Workers -> Tx] /\ ServingOK(w)
  BY Holding, Typed DEF TablesTypedNow
<1>2. /\ pc[w] \in {"result", "unbet"}
      /\ UNCHANGED <<wallets, markets, grants, load, req>>
      /\ tx' = [tx EXCEPT ![w] = tx'[w]]
      /\ \E s \in {"payout", "result", "credit"} : Goto(w, s)
  BY <1>1 DEF Result, VoidBet
<1>3. PICK b \in BetIds : /\ Free(bets[b], w)
                          /\ \E value : bets' = [bets EXCEPT ![b] = Written(@, w, value)]
  <2>1. CASE Result(w)
    <3>1. tx[w].batch \subseteq BetIds
      BY <1>1, <2>1, Typed, Holding, Zenon DEF ServingOK, BatchOK, Result
    <3> QED
      BY <2>1, <3>1 DEF Result
  <2>2. CASE VoidBet(w)
    BY <1>1, <2>2 DEF ServingOK, VoidBet
  <2> QED
    BY <2>1, <2>2
<1>4. OwnRows(bets, bets', w)
  BY <1>1, <1>3, OneRow
<1> QED
  BY <1>2, <1>4, GoesOn, RowsUnchanged DEF WalletAt

LEMMA OfficeOwn ==
    ASSUME NEW w \in Workers, HouseHeld, LockToCancel(w) \/ FinishCancel(w) \/ WritePatch(w),
           ~Rollback(w)
    PROVE  wallets' = wallets /\ OwnStep(w) /\ HoldingOK(w)'
<1>1. /\ markets \in [Markets -> RowOf(Market)] /\ tx \in [Workers -> Tx] /\ ServingOK(w)
      /\ req[w] \in Request \cup {NoRequest}
  BY Holding, Typed DEF TablesTypedNow
<1> DEFINE m == req[w].market
<1>2. /\ pc[w] \in {"annul", "credit", "patch"}
      /\ UNCHANGED <<wallets, bets, grants, load, req>>
      /\ tx' = [tx EXCEPT ![w] = tx'[w]]
      /\ \E s \in {"credit", "commit"} : Goto(w, s)
  BY <1>1 DEF LockToCancel, FinishCancel, WritePatch, tables
<1>3. \/ markets' = markets
      \/ /\ Free(markets[m], w)
         /\ \E value : markets' = [markets EXCEPT ![m] = Written(@, w, value)]
  <2>1. CASE LockToCancel(w)
    BY <2>1 DEF LockToCancel, FreeForUpdate
  <2>2. CASE FinishCancel(w)
    BY <2>2 DEF FinishCancel, tables
  <2>3. CASE WritePatch(w)
    BY <2>3 DEF WritePatch
  <2> QED
    BY <2>1, <2>2, <2>3
<1>4. m \in Markets
  BY <1>1, <1>2, RequestForms DEF ServingOK, OpsAt
<1> HIDE DEF m
<1>5. OwnRows(markets, markets', w)
  BY <1>1, <1>3, <1>4, OneRow, RowsUnchanged
<1> QED
  BY <1>2, <1>5, GoesOn, RowsUnchanged DEF WalletAt

LEMMA ReviewOwn ==
    ASSUME NEW w \in Workers, HouseHeld, Approve(w) \/ Reject(w), ~Rollback(w)
    PROVE  wallets' = wallets /\ OwnStep(w) /\ HoldingOK(w)'
<1>1. /\ grants \in [Grants -> RowOf(Grant)] /\ tx \in [Workers -> Tx] /\ ServingOK(w)
      /\ req[w] \in Request \cup {NoRequest}
  BY Holding, Typed DEF TablesTypedNow
<1> DEFINE g == req[w].grant
<1>2. /\ pc[w] \in {"approve", "reject"} /\ Free(grants[g], w)
      /\ UNCHANGED <<wallets, bets, markets, load, req, tx>>
      /\ \E s \in {"grant", "commit"} : Goto(w, s)
      /\ \E value : grants' = [grants EXCEPT ![g] = Written(@, w, value)]
  BY DEF Approve, Reject
<1>3. g \in Grants
  BY <1>1, <1>2, RequestForms DEF ServingOK, OpsAt
<1> HIDE DEF g
<1>4. OwnRows(grants, grants', w)
  BY <1>1, <1>2, <1>3, OneRow
<1> QED
  BY <1>1, <1>2, <1>4, GoesOn, RowsUnchanged DEF WalletAt

----------------------------------------------------------------------------
(***************************************************************************)
(* The statements that write wallets, and the lines of the ledger that     *)
(* they may write.                                                         *)
(***************************************************************************)

LEMMA DebitStakeOwn ==
    ASSUME NEW w \in Workers, HouseHeld, DebitStake(w), ~Rollback(w)
    PROVE  OwnStep(w) /\ HoldingOK(w)' /\ Keeps(w, Line)
<1> DEFINE t == Head(tx[w].items)
           wallet == Seen(wallets[t.user], w)
           paid == [wallet EXCEPT !.available = @ - t.stake]
<1>1. /\ pc[w] = "debit" /\ Free(wallets[t.user], w) /\ Goto(w, "insert")
      /\ wallets' = [wallets EXCEPT ![t.user] = Written(@, w, paid)]
      /\ UNCHANGED <<markets, bets, grants, load, req, tx>>
  BY Zenon DEF DebitStake
<1>2. /\ wallets \in [Users -> RowOf(Wallet)] /\ tx \in [Workers -> Tx]
      /\ tx[w].items \in Seq(Ticket) /\ tx[w].items # <<>>
  BY <1>1, Holding, Typed, Zenon DEF TablesTypedNow, ServingOK, Tx
<1>3. t.user \in Users
  BY <1>2, HeadAndTail, TicketForm
<1>4. wallet \in Wallet
  BY <1>2, <1>3, VersionsTyped
<1>5. pc' = [pc EXCEPT ![w] = "insert"] /\ pc'[w] = "insert" /\ tx' = [tx EXCEPT ![w] = tx'[w]]
  BY <1>1, <1>2, Holding, Typed DEF Goto
<1>6. Head(tx'[w].items).user = t.user
  BY <1>1
<1> HIDE DEF t, wallet
<1>7. paid.ledger = wallet.ledger
  BY <1>4 DEF Wallet
<1> HIDE DEF paid
<1>8. OwnStep(w) /\ HoldingOK(w)'
  BY <1>1, <1>3, <1>5, <1>6, Pays, NoLocks, RowsUnchanged DEF WalletAt
<1>9. Keeps(w, Line)
  BY <1>1, <1>2, <1>3, <1>7, WalletWritten DEF wallet, Keeps
<1> QED
  BY <1>8, <1>9

\* After the debit w holds the wallet, and a later statement may write it again.
LEMMA InsertBetOwn ==
    ASSUME NEW w \in Workers, HouseHeld, InsertBet(w)
    PROVE  /\ OwnStep(w) /\ HoldingOK(w)'
           /\ \E b \in FreeBets : Keeps(w, Line \ {Entry("BET_STAKE", b)})
<1> DEFINE t == Head(tx[w].items)
           slip == IF req[w].op = "execute" THEN req[w].slip ELSE Nobody
           bet == [ticket |-> t, slip |-> slip, status |-> "open"]
           Noted(b) == Record(wallets[t.user].new, "BET_STAKE", b, t.stake)
<1>1. pc[w] = "insert" /\ UNCHANGED <<markets, grants, load, req>>
  BY Zenon DEF InsertBet
<1>2. /\ wallets \in [Users -> RowOf(Wallet)] /\ tx \in [Workers -> Tx]
      /\ bets \in [BetIds -> RowOf(Bet)] /\ pc \in [Workers -> Statement]
      /\ tx[w].items \in Seq(Ticket) /\ tx[w].items # <<>> /\ HoldingOK(w)
  BY <1>1, Holding, Typed DEF TablesTypedNow, ServingOK, Tx
<1>3. /\ \A v \in Workers \ {w} : pc'[v] = pc[v] /\ req'[v] = req[v] /\ tx'[v] = tx[v]
      /\ pc'[w] \in {"commit", "look"} /\ req' = req
  <2>1. /\ tx' = [tx EXCEPT ![w].items = Tail(@)]
        /\ Goto(w, "commit") \/ Goto(w, "look")
    BY DEF InsertBet
  <2> QED
    BY <1>1, <1>2, <2>1 DEF Goto
<1>4. PICK b \in FreeBets :
          /\ bets' = [bets EXCEPT ![b] = Written(@, w, bet)]
          /\ wallets' = [wallets EXCEPT ![t.user].new = Record(@, "BET_STAKE", b, t.stake)]
  BY DEF InsertBet
<1>5. t.user \in Users
  BY <1>2, HeadAndTail, TicketForm
<1>6. wallets[t.user].by = w
  BY <1>1, <1>2 DEF HoldingOK
<1> HIDE DEF t, bet
<1>7. wallets[t.user].new \in Wallet
  BY <1>2, <1>5, VersionsTyped
<1>8. b \in BetIds /\ Free(bets[b], w)
  BY DEF FreeBets, Free
<1>9. /\ wallets'[t.user].now = wallets[t.user].now /\ wallets'[t.user].by = w
      /\ wallets'[t.user].new = Noted(b)
      /\ \A u \in Users \ {t.user} : wallets'[u] = wallets[u]
  BY <1>2, <1>4, <1>5, <1>6 DEF RowOf
<1> HIDE DEF Noted
<1>10. OwnRows(wallets, wallets', w)
  BY <1>2, <1>6, <1>9 DEF OwnRows, Free
<1>11. OwnRows(bets, bets', w)
  BY <1>2, <1>4, <1>8, OneRow
<1>12. OwnStep(w)
  BY <1>1, <1>3, <1>10, <1>11, RowsUnchanged DEF OwnStep
<1>13. HoldingOK(w)'
  BY <1>1, <1>2, <1>3, NoLocks DEF HoldingOK, WalletAt
<1>14. Keeps(w, Line \ {Entry("BET_STAKE", b)})
  <2>1. \A l \in Line \ {Entry("BET_STAKE", b)} :
            Noted(b).ledger[l] = wallets[t.user].new.ledger[l]
    BY <1>7, WalletShaped, OtherLines DEF Noted
  <2> QED
    BY <1>6, <1>9, <2>1 DEF Keeps, Seen
<1> QED
  BY <1>12, <1>13, <1>14

LEMMA RefundStakeOwn ==
    ASSUME NEW w \in Workers, HouseHeld, RefundStake(w)
    PROVE  /\ OwnStep(w) /\ HoldingOK(w)'
           /\ Keeps(w, Line \ {Entry("BET_VOID_REFUND", tx[w].bet)})
<1> DEFINE b == tx[w].bet
           t == bets[b].new.ticket
           wallet == wallets[t.user].now
           paid == Credit(wallet, "BET_VOID_REFUND", b, t.stake)
<1>1. /\ pc[w] = "refund" /\ Free(wallets[t.user], w) /\ Goto(w, "touch")
      /\ wallets' = [wallets EXCEPT ![t.user] = Written(@, w, paid)]
      /\ bets' = [bets EXCEPT ![b].new.status = "voided"]
      /\ UNCHANGED <<markets, grants, load, req, tx>>
  BY DEF RefundStake
<1>2. /\ wallets \in [Users -> RowOf(Wallet)] /\ tx \in [Workers -> Tx] /\ b \in BetIds
      /\ bets \in [BetIds -> RowOf(Bet)] /\ pc \in [Workers -> Statement]
  BY <1>1, Holding, Typed, Zenon DEF TablesTypedNow, ServingOK
<1>3. t.user \in Users
  BY <1>2 DEF RowOf, Bet, Ticket
<1>4. OwnRows(bets, bets', w) /\ bets'[b].by = w
  <2>1. bets[b].by = w
    BY <1>1, Holding, Zenon DEF HoldingOK, LocksOK
  <2> QED
    BY <1>1, <1>2, <2>1 DEF OwnRows, RowOf, Free
<1> HIDE DEF b, t
<1>5. wallet \in Wallet /\ Seen(wallets[t.user], w) = wallet
  BY <1>1, <1>2, <1>3, Holding, VersionsTyped DEF HoldingOK, WalletAt, Seen
<1> HIDE DEF wallet
<1>6. Keeps(w, Line \ {Entry("BET_VOID_REFUND", b)})
  BY <1>1, <1>2, <1>3, <1>5, OneLine
<1> HIDE DEF paid
<1>7. pc' = [pc EXCEPT ![w] = "touch"] /\ pc'[w] = "touch" /\ tx' = [tx EXCEPT ![w] = tx'[w]]
  BY <1>1, <1>2 DEF Goto
<1>8. LocksOK(w)'
  BY <1>1, <1>4, <1>7 DEF LocksOK, b
<1>9. OwnStep(w) /\ HoldingOK(w)'
  BY <1>1, <1>3, <1>4, <1>7, <1>8, Pays, RowsUnchanged DEF WalletAt
<1> QED
  BY <1>6, <1>9 DEF b

LEMMA CashOutOwn ==
    ASSUME NEW w \in Workers, HouseHeld, CashOut(w), ~Rollback(w)
    PROVE  /\ OwnStep(w) /\ HoldingOK(w)'
           /\ Keeps(w, Line \ {Entry("BET_CASHOUT_PAYOUT", tx[w].bet),
                               Entry("BET_CASHOUT_FEE", tx[w].bet)})
<1> DEFINE b == tx[w].bet
           t == bets[b].new.ticket
           wallet == wallets[t.user].now
           paid == Credit(wallet, "BET_CASHOUT_PAYOUT", b, CashoutNet(t))
           noted == Record(paid, "BET_CASHOUT_FEE", b, CashoutFee(t))
           others == Line \ {Entry("BET_CASHOUT_PAYOUT", b), Entry("BET_CASHOUT_FEE", b)}
<1>1. /\ pc[w] = "cashout" /\ Free(wallets[t.user], w) /\ Goto(w, "commit")
      /\ wallets' = [wallets EXCEPT ![t.user] = Written(@, w, noted)]
      /\ bets' = [bets EXCEPT ![b].new.status = "voided"]
      /\ UNCHANGED <<markets, grants, load, req, tx>>
  BY Zenon DEF CashOut
<1>2. /\ wallets \in [Users -> RowOf(Wallet)] /\ tx \in [Workers -> Tx] /\ b \in BetIds
      /\ bets \in [BetIds -> RowOf(Bet)] /\ pc \in [Workers -> Statement]
  BY <1>1, Holding, Typed DEF TablesTypedNow, ServingOK
<1>3. t.user \in Users
  BY <1>2 DEF RowOf, Bet, Ticket
<1>4. OwnRows(bets, bets', w) /\ bets'[b].by = w
  <2>1. bets[b].by = w
    BY <1>1, Holding, Zenon DEF HoldingOK, LocksOK
  <2> QED
    BY <1>1, <1>2, <2>1 DEF OwnRows, RowOf, Free
<1> HIDE DEF b, t
<1>5. wallet \in Wallet /\ Seen(wallets[t.user], w) = wallet
  BY <1>1, <1>2, <1>3, Holding, VersionsTyped DEF HoldingOK, WalletAt, Seen
<1> HIDE DEF wallet
<1>6. /\ paid = Credit(wallet, "BET_CASHOUT_PAYOUT", b, CashoutNet(t))
      /\ noted = Record(paid, "BET_CASHOUT_FEE", b, CashoutFee(t))
  OBVIOUS
<1> HIDE DEF noted, paid
<1>7. Keeps(w, others)
  <2> DEFINE u == t.user
             net == CashoutNet(t)
             fee == CashoutFee(t)
  <2>1. /\ wallets' = [wallets EXCEPT ![u] = Written(@, w, noted)] /\ u \in Users
        /\ wallets \in [Users -> RowOf(Wallet)] /\ wallet = Seen(wallets[u], w)
    BY <1>1, <1>2, <1>3, <1>5
  <2>2. /\ paid = Credit(wallet, "BET_CASHOUT_PAYOUT", b, net)
        /\ noted = Record(paid, "BET_CASHOUT_FEE", b, fee)
    BY <1>6
  <2> HIDE DEF u, net, fee
  <2> QED
    BY <2>1, <2>2, TwoLines
<1> HIDE DEF others
<1>8. pc' = [pc EXCEPT ![w] = "commit"] /\ pc'[w] = "commit" /\ tx' = [tx EXCEPT ![w] = tx'[w]]
  BY <1>1, <1>2 DEF Goto
<1>9. OwnStep(w) /\ HoldingOK(w)'
  BY <1>1, <1>3, <1>4, <1>8, Pays, NoLocks, RowsUnchanged DEF WalletAt
<1> QED
  BY <1>7, <1>9 DEF b, others

LEMMA BankStakeOwn ==
    ASSUME NEW w \in Workers, HouseHeld, BankStake(w), ~Rollback(w)
    PROVE  OwnStep(w) /\ HoldingOK(w)' /\ Keeps(w, Line \ MarketLine)
<1> DEFINE r == req[w]
           wallet == wallets[r.user].now
           paid == Debit(wallet, "PARIMUTUEL_STAKE", r.market, r.amount)
<1>1. /\ pc[w] = "bank" /\ Free(wallets[r.user], w) /\ Goto(w, "pool")
      /\ wallets' = [wallets EXCEPT ![r.user] = Written(@, w, paid)]
      /\ UNCHANGED <<markets, bets, grants, load, req, tx>>
  BY DEF BankStake
<1>2. /\ wallets \in [Users -> RowOf(Wallet)] /\ tx \in [Workers -> Tx]
      /\ pc \in [Workers -> Statement] /\ r \in Request \cup {NoRequest} /\ r.op = "stake"
  BY <1>1, Holding, Typed DEF TablesTypedNow, ServingOK, OpsAt
<1>3. r.user \in Users /\ r.market \in Markets
  BY <1>2, RequestForms
<1> HIDE DEF r
<1>4. Seen(wallets[r.user], w) = wallet
  BY <1>1, <1>3, Holding DEF HoldingOK, WalletAt, Seen
<1> HIDE DEF wallet
<1>5. Keeps(w, Line \ {Entry("PARIMUTUEL_STAKE", r.market)})
  BY <1>1, <1>2, <1>3, <1>4, OneLine
<1>6. Keeps(w, Line \ MarketLine)
  BY <1>3, <1>5, KeepsLess DEF Entry, MarketLine
<1>7. pc' = [pc EXCEPT ![w] = "pool"] /\ pc'[w] = "pool" /\ tx' = [tx EXCEPT ![w] = tx'[w]]
  BY <1>1, <1>2 DEF Goto
<1> HIDE DEF paid
<1>8. OwnStep(w) /\ HoldingOK(w)'
  BY <1>1, <1>3, <1>7, Pays, NoLocks, RowsUnchanged DEF WalletAt, r
<1> QED
  BY <1>6, <1>8

LEMMA PayTradeOwn ==
    ASSUME NEW w \in Workers, HouseHeld, PayTrade(w), ~Rollback(w)
    PROVE  OwnStep(w) /\ HoldingOK(w)' /\ Keeps(w, Line \ MarketLine)
<1> DEFINE r == req[w]
           m == r.market
           cost == tx[w].due
           fee == SpreadFee(m, cost)
           wallet == wallets[r.user].now
           staked == Debit(wallet, "LMSR_TRADE_STAKE", m, cost)
           paid == Debit(staked, "LMSR_FEE", m, fee)
           others == Line \ MarketLine
<1>1. /\ pc[w] = "pay" /\ Free(wallets[r.user], w) /\ Goto(w, "commit")
      /\ wallets' = [wallets EXCEPT ![r.user] = Written(@, w, paid)]
      /\ \E traded : markets' = [markets EXCEPT ![m].new = traded]
      /\ UNCHANGED <<bets, grants, load, req, tx>>
  BY Zenon DEF PayTrade
<1>2. /\ wallets \in [Users -> RowOf(Wallet)] /\ tx \in [Workers -> Tx]
      /\ markets \in [Markets -> RowOf(Market)]
      /\ pc \in [Workers -> Statement] /\ r \in Request \cup {NoRequest} /\ r.op = "trade"
  BY <1>1, Holding, Typed DEF TablesTypedNow, ServingOK, OpsAt
<1>3. r.user \in Users /\ m \in Markets
  BY <1>2, RequestForms
<1>4. OwnRows(markets, markets', w)
  <2>1. markets[m].by = w
    BY <1>1, Holding DEF HoldingOK, LocksOK
  <2> QED
    BY <1>1, <1>2, <1>3, <2>1 DEF OwnRows, RowOf, Free
<1> HIDE DEF r, m, cost, fee
<1>5. wallet \in Wallet /\ Seen(wallets[r.user], w) = wallet
  BY <1>1, <1>2, <1>3, Holding, VersionsTyped DEF HoldingOK, WalletAt, Seen
<1> HIDE DEF wallet
<1>6. /\ staked = Debit(wallet, "LMSR_TRADE_STAKE", m, cost)
      /\ paid = Debit(staked, "LMSR_FEE", m, fee)
  OBVIOUS
<1> HIDE DEF paid, staked
<1>7. Keeps(w, others)
  <2>1. others \subseteq Line \ {Entry("LMSR_TRADE_STAKE", m), Entry("LMSR_FEE", m)}
    BY <1>3 DEF Entry, MarketLine
  <2>2. Keeps(w, Line \ {Entry("LMSR_TRADE_STAKE", m), Entry("LMSR_FEE", m)})
    <3> DEFINE u == r.user
    <3>1. /\ wallets' = [wallets EXCEPT ![u] = Written(@, w, paid)] /\ u \in Users
          /\ wallets \in [Users -> RowOf(Wallet)] /\ wallet = Seen(wallets[u], w)
      BY <1>1, <1>2, <1>3, <1>5
    <3> HIDE DEF u
    <3> QED
      BY <3>1, <1>6, TwoLines
  <2> HIDE DEF others
  <2> QED
    BY <2>1, <2>2, KeepsLess
<1> HIDE DEF others
<1>8. pc' = [pc EXCEPT ![w] = "commit"] /\ pc'[w] = "commit" /\ tx' = [tx EXCEPT ![w] = tx'[w]]
  BY <1>1, <1>2 DEF Goto
<1>9. OwnStep(w) /\ HoldingOK(w)'
  BY <1>1, <1>3, <1>4, <1>8, Pays, NoLocks, RowsUnchanged DEF WalletAt, r
<1> QED
  BY <1>7, <1>9 DEF others

LEMMA PayWinnerOwn ==
    ASSUME NEW w \in Workers, HouseHeld, PayWinner(w), ~Rollback(w)
    PROVE  /\ OwnStep(w) /\ HoldingOK(w)'
           /\ Keeps(w, Line \ {Entry("BET_WIN_PAYOUT", tx[w].bet)})
<1> DEFINE b == tx[w].bet
           t == bets[b].new.ticket
           wallet == Seen(wallets[t.user], w)
           paid == Credit(wallet, "BET_WIN_PAYOUT", b, Payout(t))
<1>1. /\ pc[w] = "payout" /\ Free(wallets[t.user], w) /\ Goto(w, "result")
      /\ wallets' = [wallets EXCEPT ![t.user] = Written(@, w, paid)]
      /\ UNCHANGED <<markets, bets, grants, load, req, tx>>
  BY Zenon DEF PayWinner
<1>2. /\ wallets \in [Users -> RowOf(Wallet)] /\ tx \in [Workers -> Tx] /\ b \in BetIds
      /\ bets \in [BetIds -> RowOf(Bet)] /\ pc \in [Workers -> Statement]
  BY <1>1, Holding, Typed, Zenon DEF TablesTypedNow, ServingOK
<1>3. t.user \in Users
  BY <1>2 DEF RowOf, Bet, Ticket
<1> HIDE DEF b, t
<1>4. Keeps(w, Line \ {Entry("BET_WIN_PAYOUT", b)})
  BY <1>1, <1>2, <1>3, OneLine
<1> HIDE DEF paid
<1>5. pc' = [pc EXCEPT ![w] = "result"] /\ pc'[w] = "result" /\ tx' = [tx EXCEPT ![w] = tx'[w]]
  BY <1>1, <1>2 DEF Goto
<1>6. OwnStep(w) /\ HoldingOK(w)'
  BY <1>1, <1>3, <1>5, Pays, NoLocks, RowsUnchanged DEF WalletAt
<1> QED
  BY <1>4, <1>6 DEF b

LEMMA PayShareOwn ==
    ASSUME NEW w \in Workers, HouseHeld, PayShare(w)
    PROVE  OwnStep(w) /\ HoldingOK(w)' /\ Keeps(w, Line \ MarketLine)
<1>1. PICK k \in tx[w].batch : \E amount \in ShareAmounts(w, k) :
          LET u == ShareOwner(w, k)
              paid == Credit(Seen(wallets[u], w), ShareLine(w), req[w].market, amount)
          IN  /\ amount # 0 => Free(wallets[u], w)
              /\ wallets' = IF amount = 0 THEN wallets
                            ELSE [wallets EXCEPT ![u] = Written(@, w, paid)]
              /\ tx' = [tx EXCEPT ![w].batch = @ \ {k}]
  BY DEF PayShare
<1> DEFINE u == ShareOwner(w, k)
           type == ShareLine(w)
           m == req[w].market
           wallet == Seen(wallets[u], w)
<1>2. PICK amount \in ShareAmounts(w, k) :
          /\ amount # 0 => Free(wallets[u], w)
          /\ wallets' = IF amount = 0 THEN wallets
                        ELSE [wallets EXCEPT ![u] =
                                 Written(@, w, Credit(wallet, type, m, amount))]
          /\ tx' = [tx EXCEPT ![w].batch = @ \ {k}]
  BY <1>1
<1>3. pc[w] = "share" /\ UNCHANGED <<markets, bets, stakes, grants, load, pc, req>>
  BY DEF PayShare
<1>4. /\ wallets \in [Users -> RowOf(Wallet)] /\ tx \in [Workers -> Tx]
      /\ stakes \in [StakeIds -> RowOf(Stake)]
      /\ pc \in [Workers -> Statement] /\ req[w] \in Request \cup {NoRequest}
      /\ req[w].op = "settle" /\ BatchOK(w) /\ TablesTypedNow
  BY <1>3, Holding, Typed DEF TablesTypedNow, ServingOK, OpsAt
<1>5. m \in Markets
  BY <1>4, RequestForms
<1>6. u \in Users
  BY <1>2, <1>3, Holding, SharesTyped
<1>7. Entry(type, m) \in MarketLine
  BY <1>5 DEF ShareLine, Entry, MarketLine
<1>8. tx' = [tx EXCEPT ![w] = tx'[w]]
  BY <1>2, <1>4
<1>9. CASE amount = 0
  <2>1. wallets' = wallets
    BY <1>2, <1>9
  <2>2. OwnStep(w) /\ HoldingOK(w)'
    BY <1>3, <1>4, <1>8, <2>1, GoesOn, RowsUnchanged DEF WalletAt, Goto
  <2> QED
    BY <2>1, <2>2, WalletsKept
<1>10. CASE amount # 0
  <2> DEFINE paid == Credit(wallet, type, m, amount)
  <2>1. wallets' = [wallets EXCEPT ![u] = Written(@, w, paid)] /\ Free(wallets[u], w)
    BY <1>2, <1>10
  <2> HIDE DEF u, type, m
  <2>2. Keeps(w, Line \ {Entry(type, m)})
    BY <1>4, <1>6, <2>1, OneLine
  <2> HIDE DEF paid
  <2>3. OwnStep(w) /\ HoldingOK(w)'
    BY <1>3, <1>4, <1>6, <1>8, <2>1, Pays, NoLocks, RowsUnchanged DEF WalletAt
  <2>4. Keeps(w, Line \ MarketLine)
    BY <1>7, <2>2, KeepsLess
  <2> QED
    BY <2>3, <2>4
<1> QED
  BY <1>9, <1>10

LEMMA CreditBetOwn ==
    ASSUME NEW w \in Workers, HouseHeld, CreditBet(w)
    PROVE  /\ OwnStep(w) /\ HoldingOK(w)'
           /\ Keeps(w, Line \ {Entry("BET_CANCEL_REFUND", tx'[w].bet)})
<1>1. PICK b \in tx[w].batch :
          LET t == bets[b].now.ticket
          IN  /\ Free(wallets[t.user], w)
              /\ wallets' = [wallets EXCEPT ![t.user] =
                     Written(@, w, Credit(Seen(@, w), "BET_CANCEL_REFUND", b, t.stake))]
              /\ tx' = [tx EXCEPT ![w].batch = @ \ {b}, ![w].bet = b]
  BY Zenon DEF CreditBet
<1>2. /\ pc[w] = "credit" /\ Goto(w, "unbet") /\ Mechanism(req[w].market) = "fixed_odds"
      /\ UNCHANGED <<markets, bets, grants, load, req>>
  BY DEF CreditBet
<1>3. /\ wallets \in [Users -> RowOf(Wallet)] /\ tx \in [Workers -> Tx]
      /\ bets \in [BetIds -> RowOf(Bet)] /\ pc \in [Workers -> Statement] /\ BatchOK(w)
  BY <1>2, Holding, Typed DEF TablesTypedNow, ServingOK
<1>4. b \in BetIds
  BY <1>1, <1>2, <1>3 DEF BatchOK
<1> DEFINE u == bets[b].now.ticket.user
           wallet == Seen(wallets[u], w)
           paid == Credit(wallet, "BET_CANCEL_REFUND", b, bets[b].now.ticket.stake)
<1>5. Free(wallets[u], w) /\ wallets' = [wallets EXCEPT ![u] = Written(@, w, paid)]
  BY <1>1, <1>3
<1>6. u \in Users
  BY <1>3, <1>4 DEF RowOf, Bet, Ticket
<1>7. tx' = [tx EXCEPT ![w] = tx'[w]] /\ tx'[w].bet = b
  BY <1>1, <1>3 DEF Tx
<1> HIDE DEF u
<1>8. Keeps(w, Line \ {Entry("BET_CANCEL_REFUND", b)})
  BY <1>3, <1>5, <1>6, OneLine
<1> HIDE DEF paid
<1>9. pc' = [pc EXCEPT ![w] = "unbet"] /\ pc'[w] = "unbet"
  BY <1>2, <1>3 DEF Goto
<1>10. OwnStep(w) /\ HoldingOK(w)'
  BY <1>2, <1>5, <1>6, <1>7, <1>9, Pays, NoLocks, RowsUnchanged DEF WalletAt
<1> QED
  BY <1>7, <1>8, <1>10

LEMMA CreditPoolOwn ==
    ASSUME NEW w \in Workers, HouseHeld, CreditPool(w)
    PROVE  OwnStep(w) /\ HoldingOK(w)' /\ Keeps(w, Line \ MarketLine)
<1> DEFINE m == req[w].market
           User(k) == IF Mechanism(m) = "parimutuel" THEN stakes[k].now.user ELSE k
           Amount(k) == IF Mechanism(m) = "parimutuel" THEN stakes[k].now.amount
                        ELSE markets[m].now.costs[k]
           Paid(k) == Credit(Seen(wallets[User(k)], w), "MARKET_CANCEL_REFUND", m, Amount(k))
<1>1. PICK k \in tx[w].batch :
          /\ Free(wallets[User(k)], w)
          /\ wallets' = [wallets EXCEPT ![User(k)] = Written(@, w, Paid(k))]
          /\ tx' = [tx EXCEPT ![w].batch = @ \ {k}]
  BY Zenon DEF CreditPool
<1>2. /\ pc[w] = "credit" /\ Mechanism(m) # "fixed_odds"
      /\ UNCHANGED <<markets, bets, stakes, grants, load, pc, req>>
  BY DEF CreditPool
<1>3. /\ wallets \in [Users -> RowOf(Wallet)] /\ tx \in [Workers -> Tx]
      /\ stakes \in [StakeIds -> RowOf(Stake)]
      /\ pc \in [Workers -> Statement] /\ req[w] \in Request \cup {NoRequest}
      /\ req[w].op = "annul" /\ BatchOK(w)
  BY <1>2, Holding, Typed DEF TablesTypedNow, ServingOK, OpsAt
<1>4. m \in Markets
  BY <1>3, RequestForms
<1> DEFINE u == User(k)
           amount == Amount(k)
           paid == Paid(k)
<1>5. u \in Users
  BY <1>1, <1>2, <1>3, <1>4, TermsForm DEF BatchOK, Mechanism, RowOf, Stake
<1>6. /\ Free(wallets[u], w) /\ wallets' = [wallets EXCEPT ![u] = Written(@, w, paid)]
      /\ paid = Credit(Seen(wallets[u], w), "MARKET_CANCEL_REFUND", m, amount)
      /\ tx' = [tx EXCEPT ![w] = tx'[w]]
  BY <1>1, <1>3
<1> HIDE DEF u, m, amount, paid
<1>7. Keeps(w, Line \ {Entry("MARKET_CANCEL_REFUND", m)})
  BY <1>3, <1>5, <1>6, OneLine
<1>8. Keeps(w, Line \ MarketLine)
  BY <1>4, <1>7, KeepsLess DEF Entry, MarketLine
<1>9. OwnStep(w) /\ HoldingOK(w)'
  BY <1>2, <1>3, <1>5, <1>6, Pays, NoLocks, RowsUnchanged DEF WalletAt
<1> QED
  BY <1>8, <1>9

LEMMA GrantFundsOwn ==
    ASSUME NEW w \in Workers, HouseHeld, GrantFunds(w)
    PROVE  /\ OwnStep(w) /\ HoldingOK(w)'
           /\ Keeps(w, Line \ {Entry("FAUCET_GRANT", req[w].grant)})
<1> DEFINE g == req[w].grant
           u == GrantTerms[g].user
           amount == GrantTerms[g].amount
           wallet == wallets[u].now
           paid == Credit(wallet, "FAUCET_GRANT", g, amount)
<1>1. /\ pc[w] = "grant" /\ Free(wallets[u], w) /\ Goto(w, "commit")
      /\ wallets' = [wallets EXCEPT ![u] = Written(@, w, paid)]
      /\ UNCHANGED <<markets, bets, grants, load, req, tx>>
  BY DEF GrantFunds
<1>2. /\ wallets \in [Users -> RowOf(Wallet)] /\ tx \in [Workers -> Tx]
      /\ pc \in [Workers -> Statement] /\ req[w] \in Request \cup {NoRequest}
      /\ req[w].op = "approve"
  BY <1>1, Holding, Typed DEF TablesTypedNow, ServingOK, OpsAt
<1>3. u \in Users
  BY <1>2, RequestForms, GrantsAssumption
<1>4. wallet = Seen(wallets[u], w)
  BY <1>1, <1>3, Holding, Zenon DEF HoldingOK, WalletAt, Seen
<1> HIDE DEF g, u, amount, wallet
<1>5. Keeps(w, Line \ {Entry("FAUCET_GRANT", g)})
  BY <1>1, <1>2, <1>3, <1>4, OneLine
<1> HIDE DEF paid
<1>6. pc' = [pc EXCEPT ![w] = "commit"] /\ pc'[w] = "commit" /\ tx' = [tx EXCEPT ![w] = tx'[w]]
  BY <1>1, <1>2 DEF Goto
<1>7. OwnStep(w) /\ HoldingOK(w)'
  BY <1>1, <1>3, <1>6, Pays, NoLocks, RowsUnchanged DEF WalletAt
<1> QED
  BY <1>5, <1>7 DEF g

----------------------------------------------------------------------------
(***************************************************************************)
(* The steps together.                                                     *)
(***************************************************************************)

\* The statements that write about bets.
WritesBets(w) ==
    \/ DebitStake(w) \/ InsertBet(w) \/ LockBet(w) \/ RefundStake(w) \/ CashOut(w)
    \/ Result(w) \/ PayWinner(w) \/ CreditBet(w) \/ VoidBet(w)

WorkerStep(w) == FixedOddsStep(w) \/ PoolStep(w) \/ FinalStep(w)

LEMMA WorkersOwn ==
    ASSUME NEW w \in Workers, HouseHeld, WorkerStep(w), ~Rollback(w)
    PROVE  OwnStep(w) /\ HoldingOK(w)'
<1>1. CASE FixedOddsStep(w)
  BY <1>1, ArrivalsOwn, BetStatementsOwn, RegisterOwn, DebitStakeOwn, InsertBetOwn,
     RefundStakeOwn, CashOutOwn
     DEF FixedOddsStep
<1>2. CASE PoolStep(w)
  BY <1>2, ArrivalsOwn, PoolStatementsOwn, BankStakeOwn, PayTradeOwn DEF PoolStep
<1>3. CASE FinalStep(w)
  BY <1>3, ArrivalsOwn, SettlementOwn, BetRowsOwn, OfficeOwn, ReviewOwn, PayWinnerOwn,
     PayShareOwn, CreditBetOwn, CreditPoolOwn, GrantFundsOwn
     DEF FinalStep
<1> QED
  BY <1>1, <1>2, <1>3 DEF WorkerStep

\* Only the approval of a faucet request writes a grant's line.
LEMMA GrantLinesKept ==
    ASSUME NEW w \in Workers, HouseHeld, WorkerStep(w), ~Rollback(w), ~GrantFunds(w)
    PROVE  Keeps(w, GrantLine)
<1>1. /\ GrantLine \subseteq Line /\ GrantLine \subseteq Line \ MarketLine
      /\ \A b : /\ GrantLine \subseteq Line \ {Entry("BET_STAKE", b)}
                /\ GrantLine \subseteq Line \ {Entry("BET_VOID_REFUND", b)}
                /\ GrantLine \subseteq Line \ {Entry("BET_CASHOUT_PAYOUT", b),
                                               Entry("BET_CASHOUT_FEE", b)}
                /\ GrantLine \subseteq Line \ {Entry("BET_WIN_PAYOUT", b)}
                /\ GrantLine \subseteq Line \ {Entry("BET_CANCEL_REFUND", b)}
  BY DEF GrantLine, Line, MarketLine, Entry
<1>2. CASE FixedOddsStep(w)
  BY <1>1, <1>2, ArrivalsOwn, BetStatementsOwn, RegisterOwn, DebitStakeOwn, InsertBetOwn,
     RefundStakeOwn, CashOutOwn, WalletsKept, KeepsLess
     DEF FixedOddsStep
<1>3. CASE PoolStep(w)
  BY <1>1, <1>3, ArrivalsOwn, PoolStatementsOwn, BankStakeOwn, PayTradeOwn, WalletsKept,
     KeepsLess DEF PoolStep
<1>4. CASE FinalStep(w)
  BY <1>1, <1>4, ArrivalsOwn, SettlementOwn, BetRowsOwn, OfficeOwn, ReviewOwn, PayWinnerOwn,
     PayShareOwn, CreditBetOwn, CreditPoolOwn, WalletsKept, KeepsLess
     DEF FinalStep
<1> QED
  BY <1>2, <1>3, <1>4 DEF WorkerStep

\* And only the bets' own statements write a bet's line, or a bet.
LEMMA BetLinesKept ==
    ASSUME NEW w \in Workers, HouseHeld, WorkerStep(w), ~Rollback(w), ~WritesBets(w)
    PROVE  Keeps(w, BetLine) /\ bets' = bets
<1>1. BetLine \subseteq Line \ MarketLine
      /\ \A g : BetLine \subseteq Line \ {Entry("FAUCET_GRANT", g)}
  <2>1. \A l \in BetLine : l.type \in BetTypes
    BY DEF BetLine, BetTypes
  <2>2. \A l \in MarketLine : l.type \notin BetTypes
    BY DEF MarketLine, BetTypes
  <2>3. \A g : Entry("FAUCET_GRANT", g).type \notin BetTypes
    BY DEF Entry, BetTypes
  <2> QED
    BY <2>1, <2>2, <2>3 DEF Line
<1>2. ASSUME wallets' = wallets
      PROVE  Keeps(w, BetLine)
  BY <1>2, WalletsKept
<1>3. ASSUME BankStake(w) \/ PayTrade(w) \/ PayShare(w) \/ CreditPool(w) \/ GrantFunds(w)
      PROVE  Keeps(w, BetLine)
  BY <1>1, <1>3, BankStakeOwn, PayTradeOwn, PayShareOwn, CreditPoolOwn, GrantFundsOwn, KeepsLess
<1>4. \/ wallets' = wallets
      \/ BankStake(w) \/ PayTrade(w) \/ PayShare(w) \/ CreditPool(w) \/ GrantFunds(w)
  BY ArrivalsOwn, BetStatementsOwn, RegisterOwn, PoolStatementsOwn, SettlementOwn,
     BetRowsOwn, OfficeOwn, ReviewOwn
     DEF WorkerStep, FixedOddsStep, PoolStep, FinalStep, WritesBets
<1>5. bets' = bets
  <2>1. CASE FixedOddsStep(w)
    BY <2>1 DEF FixedOddsStep, WritesBets, StartPlace, StartExecute, Claim, Look, Assess,
       StartQuote, Register, StartLeave, TouchMarket, tables
  <2>2. CASE PoolStep(w)
    BY <2>2, Zenon DEF PoolStep, StartStake, BankStake, AddToPool, StartTrade, Price, PayTrade,
       tables
  <2>3. CASE FinalStep(w)
    BY <2>3, Zenon DEF FinalStep, WritesBets, StartSettle, Decide, Divide, PayShare, FinishSettle,
       StartAnnul, LockToCancel, CreditPool, FinishCancel, Patch, WritePatch, StartReview,
       Approve, GrantFunds, Reject, tables
  <2> QED
    BY <2>1, <2>2, <2>3 DEF WorkerStep
<1> QED
  BY <1>2, <1>3, <1>4, <1>5

----------------------------------------------------------------------------
(***************************************************************************)
(* What the workers hold, always.                                          *)
(***************************************************************************)

\* Whoever else has a row has it still, and nobody else has got one.
Respects(old, new, w) ==
    \A k \in DOMAIN old : \A v \in Workers \ {w} : new[k].by = v <=> old[k].by = v

LEMMA OwnRespects ==
    ASSUME NEW w \in Workers, NEW old, NEW new, OwnRows(old, new, w)
    PROVE  Respects(old, new, w)
  BY NobodyAssumption DEF OwnRows, Respects, Free

LEMMA EndRespects ==
    ASSUME NEW w \in Workers, NEW K, NEW V, NEW table \in [K -> RowOf(V)]
    PROVE  /\ Respects(table, Published(table, w), w) /\ Respects(table, Discarded(table, w), w)
           /\ \A k \in K : Published(table, w)[k].by # w /\ Discarded(table, w)[k].by # w
  BY NobodyAssumption DEF Respects, Published, Discarded, Fresh

\* What the end of a request leaves of the rows: to v they look as before, and w has none.
LEMMA RowsEnd ==
    ASSUME NEW w \in Workers, NEW K, NEW V, NEW table \in [K -> RowOf(V)],
           NEW new, new \in {Published(table, w), Discarded(table, w)}
    PROVE  /\ \A k \in K : new[k].by # w /\ Seen(new[k], w) = new[k].now
           /\ \A k \in K : \A v \in Workers \ {w} :
                  /\ new[k].by = v <=> table[k].by = v
                  /\ table[k].by = v => new[k] = table[k]
           /\ \A k \in K : table[k].by # w => new[k] = table[k]
           /\ new = Discarded(table, w) => \A k \in K : new[k].now = table[k].now
           /\ new = Published(table, w) => \A k \in K : new[k].now = Seen(table[k], w)
  BY NobodyAssumption DEF RowOf, Published, Discarded, Fresh, Seen

LEMMA OthersHold ==
    ASSUME NEW w \in Workers, HouseHeld, HouseTyped', HoldingOK(w)',
           Respects(wallets, wallets', w), Respects(markets, markets', w),
           Respects(bets, bets', w), load' = load,
           \A v \in Workers \ {w} : pc'[v] = pc[v] /\ req'[v] = req[v] /\ tx'[v] = tx[v]
    PROVE  HouseHeld'
<1>1. SUFFICES ASSUME NEW v \in Workers \ {w}
               PROVE  HoldingOK(v)'
  BY DEF HouseHeld
<1>2. HoldingOK(v) /\ pc'[v] = pc[v] /\ req'[v] = req[v] /\ tx'[v] = tx[v]
  BY Holding
<1>3. /\ DOMAIN wallets = Users /\ DOMAIN markets = Markets /\ DOMAIN bets = BetIds
      /\ ServingOK(v) /\ tx[v].items \in Seq(Ticket) /\ req[v] \in Request \cup {NoRequest}
  BY Holding, Typed DEF TablesTypedNow, Tx
<1>4. /\ pc[v] = "insert" => Head(tx[v].items).user \in Users
      /\ pc[v] \in {"refund", "touch", "cashout"} => tx[v].bet \in BetIds
      /\ pc[v] = "pay" => req[v].market \in Markets
  BY <1>3, HeadAndTail, TicketForm, RequestForms DEF ServingOK, OpsAt
<1>5. LocksOK(v)'
  BY <1>2, <1>3, <1>4 DEF HoldingOK, LocksOK, Respects
<1>6. /\ pc'[v] = "insert" => wallets'[Head(tx'[v].items).user].by = v
      /\ \A u \in Users : wallets'[u].by = v => pc'[v] \in WalletAt
  BY <1>2, <1>3, <1>4 DEF HoldingOK, Respects
<1> QED
  BY <1>2, <1>5, <1>6 DEF HoldingOK

LEMMA EndHeld ==
    ASSUME NEW w \in Workers, HouseHeld, HouseTyped', Rollback(w) \/ Commit(w)
    PROVE  HouseHeld'
<1>1. /\ wallets' \in {Published(wallets, w), Discarded(wallets, w)}
      /\ markets' \in {Published(markets, w), Discarded(markets, w)}
      /\ bets' \in {Published(bets, w), Discarded(bets, w)}
      /\ EndRequest(w) /\ load' = load
  BY DEF Rollback, Commit
<1>2. /\ wallets \in [Users -> RowOf(Wallet)] /\ markets \in [Markets -> RowOf(Market)]
      /\ bets \in [BetIds -> RowOf(Bet)]
  BY Holding, Typed DEF TablesTypedNow
<1>3. /\ Respects(wallets, wallets', w) /\ \A u \in Users : wallets'[u].by # w
      /\ Respects(markets, markets', w) /\ Respects(bets, bets', w)
  BY <1>1, <1>2, EndRespects
<1>4. /\ pc'[w] = "idle" /\ req'[w] = NoRequest
      /\ \A v \in Workers \ {w} : pc'[v] = pc[v] /\ req'[v] = req[v] /\ tx'[v] = tx[v]
  BY <1>1, Holding, Typed DEF EndRequest, Goto
<1>5. HoldingOK(w)'
  BY <1>3, <1>4, NoLocks DEF HoldingOK
<1> QED
  BY <1>1, <1>3, <1>4, <1>5, OthersHold

\* The kinds of steps there are.
ClockTick ==
    \/ \E k \in Slips : Lapse(k)
    \/ \E m \in Markets : Expire(m)

LEMMA StepKinds ==
    ASSUME HouseTyped, [Next]_vars
    PROVE  \/ \E w \in Workers : WorkerStep(w) /\ ~Rollback(w)
           \/ \E w \in Workers : Rollback(w)
           \/ \E w \in Workers : Commit(w)
           \/ ClockTick
           \/ \E m \in Markets : CloseMarket(m)
           \/ UNCHANGED vars
  BY DEF Next, WorkerStep, Crash, ClockTick

LEMMA TicksKeep ==
    ASSUME ClockTick \/ UNCHANGED vars
    PROVE  UNCHANGED <<tables, load, pc, req, tx>>
  BY DEF ClockTick, Lapse, Expire, vars, tables

\* Requests come from the load, once each.
RequestMoves(w) ==
    \/ \E r \in todo : Accept(w, r)
    \/ req' = req /\ todo' = todo
    \/ EndRequest(w) /\ todo' = todo

LEMMA RequestsArrive ==
    ASSUME NEW w \in Workers, WorkerStep(w) \/ Rollback(w) \/ Commit(w)
    PROVE  RequestMoves(w) /\ load' = load
<1>1. CASE Rollback(w) \/ Commit(w)
  BY <1>1 DEF Rollback, Commit, RequestMoves
<1>2. CASE ~Rollback(w) /\ FixedOddsStep(w)
  BY <1>2 DEF FixedOddsStep, StartPlace, StartExecute, Claim, Look, Assess, DebitStake,
     InsertBet, StartQuote, Register, StartLeave, LockBet, RefundStake, TouchMarket, CashOut,
     RequestMoves
<1>3. CASE ~Rollback(w) /\ PoolStep(w)
  BY <1>3, Zenon DEF PoolStep, StartStake, BankStake, AddToPool, StartTrade, Price, PayTrade,
     RequestMoves
<1>4. CASE ~Rollback(w) /\ FinalStep(w)
  BY <1>4, Zenon DEF FinalStep, StartSettle, Decide, Result, PayWinner, Divide, PayShare,
     FinishSettle, StartAnnul, LockToCancel, CreditBet, VoidBet, CreditPool, FinishCancel,
     Patch, WritePatch, StartReview, Approve, GrantFunds, Reject, RequestMoves
<1> QED
  BY <1>1, <1>2, <1>3, <1>4 DEF WorkerStep

LEMMA HeldNext == HouseHeld /\ [Next]_vars => HouseHeld'
<1> SUFFICES ASSUME HouseHeld, [Next]_vars
             PROVE  HouseHeld'
  OBVIOUS
<1>1. HouseTyped /\ HouseTyped'
  BY NextTyped DEF HouseHeld
<1>2. ASSUME NEW w \in Workers, WorkerStep(w), ~Rollback(w)
      PROVE  HouseHeld'
  <2>1. OwnStep(w) /\ HoldingOK(w)'
    BY <1>2, WorkersOwn
  <2> QED
    BY <1>1, <2>1, OwnRespects, OthersHold DEF OwnStep
<1>3. ASSUME NEW w \in Workers, Rollback(w) \/ Commit(w)
      PROVE  HouseHeld'
  BY <1>1, <1>3, EndHeld
<1>4. CASE ClockTick \/ UNCHANGED vars
  BY <1>1, <1>4, TicksKeep DEF HouseHeld, HoldingOK, LocksOK, tables
<1>5. ASSUME NEW m \in Markets, CloseMarket(m)
      PROVE  HouseHeld'
  <2>1. /\ markets[m].by = Nobody /\ UNCHANGED <<wallets, bets, load, pc, req, tx>>
        /\ \E value : markets' = [markets EXCEPT ![m] = Fresh(value)]
    BY <1>5 DEF CloseMarket
  <2>2. markets \in [Markets -> RowOf(Market)]
    BY <1>1 DEF HouseTyped, TypeOK
  <2>3. \A k \in Markets : markets'[k].by = markets[k].by
    BY <2>1, <2>2 DEF Fresh
  <2>4. ASSUME NEW w \in Workers
        PROVE  HoldingOK(w)'
    <3>1. pc[w] = "pay" => req[w].market \in Markets
      BY Holding, Typed, RequestForms DEF ServingOK, OpsAt
    <3> QED
      BY <2>1, <2>3, <3>1, Holding DEF HoldingOK, LocksOK
  <2> QED
    BY <1>1, <2>4 DEF HouseHeld
<1> QED
  BY <1>1, <1>2, <1>3, <1>4, <1>5, StepKinds

LEMMA HeldInit == Init => HouseHeld
<1> SUFFICES ASSUME Init
             PROVE  HouseHeld
  OBVIOUS
<1>1. \A u \in Users : wallets[u].by = Nobody
  BY DEF Init, Fresh
<1>2. \A w \in Workers : HoldingOK(w)
  BY <1>1, NobodyAssumption DEF Init, HoldingOK, LocksOK
<1> QED
  BY <1>2, InitTyped DEF HouseHeld

\* Whoever is about to insert a bet, refund one, cash one out or pay for a trade has locked
\* the rows it will write without looking again; nobody keeps a wallet between requests.
THEOREM HouseHeldAlways == Spec => []HouseHeld
  BY HeldInit, HeldNext, PTL DEF Spec

----------------------------------------------------------------------------
(***************************************************************************)
(* What the quotes of betslips and the faucet requests keep.               *)
(***************************************************************************)

(***************************************************************************)
(* Quotes.                                                                 *)
(***************************************************************************)

\* Nobody is about to change what a quote asks for.
QuoteDrafts ==
    \A k \in Slips : quotes[k].new.items = quotes[k].now.items
                     /\ quotes[k].new.user = quotes[k].now.user

\* A statement can only touch the status of a quote.
SameQuotes ==
    \A k \in Slips : /\ quotes'[k].now = quotes[k].now
                     /\ quotes'[k].new.items = quotes[k].new.items
                     /\ quotes'[k].new.user = quotes[k].new.user

LEMMA QuoteStatements ==
    ASSUME NEW w \in Workers, HouseTyped, WorkerStep(w), ~Rollback(w), ~Register(w)
    PROVE  SameQuotes
<1>1. quotes \in [Slips -> RowOf(Quote)]
  BY Typed DEF TablesTypedNow
<1>2. CASE quotes' = quotes
  BY <1>2 DEF SameQuotes
<1>3. CASE Claim(w)
  <2>1. \E k : quotes' = [quotes EXCEPT ![k] = Locked(@, w)]
    BY <1>3 DEF Claim
  <2> QED
    BY <1>1, <2>1 DEF SameQuotes, Locked, RowOf
<1>4. CASE InsertBet(w)
  <2> DEFINE slip == IF req[w].op = "execute" THEN req[w].slip ELSE Nobody
             last == Len(tx[w].items) = 1
  <2>1. quotes' = IF last /\ slip # Nobody
                  THEN [quotes EXCEPT ![slip].new.status = "executed"] ELSE quotes
    BY <1>4 DEF InsertBet
  <2> HIDE DEF slip, last
  <2> QED
    BY <1>1, <2>1 DEF SameQuotes, RowOf, Quote
<1>5. quotes' = quotes \/ Claim(w) \/ InsertBet(w)
  <2>1. CASE FixedOddsStep(w)
    BY <2>1 DEF FixedOddsStep, StartPlace, StartExecute, Look, Assess, DebitStake,
       StartQuote, StartLeave, LockBet, RefundStake, TouchMarket, CashOut, tables
  <2>2. CASE PoolStep(w)
    BY <2>2, Zenon DEF PoolStep, StartStake, BankStake, AddToPool, StartTrade, Price, PayTrade,
       tables
  <2>3. CASE FinalStep(w)
    BY <2>3, Zenon DEF FinalStep, StartSettle, Decide, Result, PayWinner, Divide, PayShare,
       FinishSettle, StartAnnul, LockToCancel, CreditBet, VoidBet, CreditPool, FinishCancel,
       Patch, WritePatch, StartReview, Approve, GrantFunds, Reject, tables
  <2> QED
    BY <2>1, <2>2, <2>3 DEF WorkerStep
<1> QED
  BY <1>2, <1>3, <1>4, <1>5

\* What a quote asks for is not changed by any step once the quote is there.
Kept(k) ==
    quotes[k].now.status # "none" =>
        quotes'[k].now.items = quotes[k].now.items /\ quotes'[k].now.user = quotes[k].now.user

LEMMA QuotesNext ==
    ASSUME HouseTyped, QuoteDrafts, [Next]_vars
    PROVE  QuoteDrafts' /\ \A k \in Slips : Kept(k)
<1>1. quotes \in [Slips -> RowOf(Quote)]
  BY DEF HouseTyped, TypeOK
<1>2. ASSUME SameQuotes
      PROVE  QuoteDrafts' /\ \A k \in Slips : Kept(k)
  BY <1>2 DEF SameQuotes, QuoteDrafts, Kept
<1>3. ASSUME NEW w \in Workers, Register(w)
      PROVE  QuoteDrafts' /\ \A k \in Slips : Kept(k)
  <2>1. \/ quotes' = quotes
        \/ \E k, quote : /\ quotes[k].now.status = "none"
                         /\ quotes' = [quotes EXCEPT ![k] = Fresh(quote)]
    BY <1>3 DEF Register
  <2> QED
    BY <1>1, <2>1 DEF QuoteDrafts, Kept, Fresh
<1>4. ASSUME NEW w \in Workers, WorkerStep(w), ~Rollback(w), ~Register(w)
      PROVE  QuoteDrafts' /\ \A k \in Slips : Kept(k)
  BY <1>2, <1>4, QuoteStatements
<1>5. ASSUME NEW w \in Workers, Rollback(w) \/ Commit(w)
      PROVE  QuoteDrafts' /\ \A k \in Slips : Kept(k)
  <2>1. quotes' \in {Published(quotes, w), Discarded(quotes, w)}
    BY <1>5 DEF Rollback, Commit
  <2> QED
    BY <1>1, <2>1 DEF QuoteDrafts, Kept, Published, Discarded, Fresh
<1>6. CASE ClockTick \/ UNCHANGED vars \/ \E m \in Markets : CloseMarket(m)
  BY <1>2, <1>6, TicksKeep DEF SameQuotes, CloseMarket, tables
<1> QED
  BY <1>3, <1>4, <1>5, <1>6, StepKinds

\* A betslip quote keeps what was first asked under its idempotency key.
THEOREM QuotesAreKept == Spec => QuotesKept
<1>1. Init => QuoteDrafts
  BY DEF Init, QuoteDrafts, Fresh
<1>2. HouseTyped /\ QuoteDrafts /\ [Next]_vars => QuoteDrafts'
  BY QuotesNext
<1>3. HouseTyped /\ QuoteDrafts /\ [Next]_vars =>
          [\A k \in Slips : quotes[k].now.status # "none" =>
               quotes'[k].now.items = quotes[k].now.items
               /\ quotes'[k].now.user = quotes[k].now.user]_vars
  BY QuotesNext DEF Kept
<1> QED
  BY <1>1, <1>2, <1>3, HouseTypedAlways, PTL DEF Spec, QuotesKept

----------------------------------------------------------------------------
(***************************************************************************)
(* Faucet requests.                                                        *)
(***************************************************************************)

\* What a wallet says was granted by g, and what g gives to u.
Paid(wallet, g) == wallet.ledger[Entry("FAUCET_GRANT", g)]
Due(u, g) == IF u = GrantTerms[g].user THEN GrantTerms[g].amount ELSE 0

\* What w is about to commit.
Granting(w, g) == pc[w] = "commit" /\ req[w].op = "approve" /\ req[w].grant = g

\* A worker that holds a faucet request: an approval has found it pending.
ReviewHolds(w) ==
    \A g \in Grants : grants[g].by = w =>
        /\ pc[w] \in {"grant", "commit"} /\ req[w].grant = g
        /\ \/ /\ req[w].op = "approve"
              /\ grants[g].now.status = "pending" /\ grants[g].new.status = "approved"
           \/ /\ req[w].op = "reject" /\ pc[w] = "commit"
              /\ grants[g].new.status = "rejected"

ReviewOK(w) ==
    /\ ReviewHolds(w)
    /\ pc[w] = "grant" => grants[req[w].grant].by = w
    /\ \A g \in Grants : Granting(w, g) => grants[g].by = w
    /\ \A g \in Grants : \A u \in Users :
           Paid(Seen(wallets[u], w), g) =
               Paid(wallets[u].now, g) + (IF Granting(w, g) THEN Due(u, g) ELSE 0)
    /\ Alone /\ req[w].op = "reject" => grants[req[w].grant].now.status = "pending"

GrantInv == /\ HouseHeld /\ GrantedOnce /\ IsFiniteSet(load.crew)
            /\ \A w \in Workers : ReviewOK(w)

\* Two workers of one crew.
LEMMA NotAlone ==
    ASSUME IsFiniteSet(load.crew), NEW v \in load.crew, NEW w \in load.crew, v # w
    PROVE  ~Alone
<1>1. Cardinality({v}) = 1 /\ IsFiniteSet({v})
  BY FS_Singleton
<1>2. Cardinality({v} \cup {w}) = 2
  <2> DEFINE one == {v}
  <2>1. w \notin one /\ Cardinality(one) = 1 /\ IsFiniteSet(one)
    BY <1>1
  <2> HIDE DEF one
  <2>2. Cardinality(one \cup {w}) = 1 + 1
    BY <2>1, FS_AddElement
  <2> QED
    BY <2>2 DEF one
<1>3. Cardinality({v} \cup {w}) <= Cardinality(load.crew)
  BY FS_Subset
<1>4. Cardinality(load.crew) \in Nat
  BY FS_CardinalityType
<1> QED
  BY <1>2, <1>3, <1>4 DEF Alone

\* The statements that write faucet requests.
LEMMA GrantsKept ==
    ASSUME NEW w \in Workers, WorkerStep(w), ~Rollback(w), ~Approve(w), ~Reject(w)
    PROVE  grants' = grants
<1>1. CASE FixedOddsStep(w)
  BY <1>1 DEF FixedOddsStep, StartPlace, StartExecute, Claim, Look, Assess, DebitStake,
     InsertBet, StartQuote, Register, StartLeave, LockBet, RefundStake, TouchMarket,
     CashOut, tables
<1>2. CASE PoolStep(w)
  BY <1>2, Zenon DEF PoolStep, StartStake, BankStake, AddToPool, StartTrade, Price, PayTrade, tables
<1>3. CASE FinalStep(w)
  BY <1>3, Zenon DEF FinalStep, StartSettle, Decide, Result, PayWinner, Divide, PayShare,
     FinishSettle, StartAnnul, LockToCancel, CreditBet, VoidBet, CreditPool, FinishCancel,
     Patch, WritePatch, StartReview, GrantFunds, tables
<1> QED
  BY <1>1, <1>2, <1>3 DEF WorkerStep

\* And those that have nothing to do with them.
LEMMA Elsewhere ==
    ASSUME NEW w \in Workers, HouseTyped, WorkerStep(w), ~Rollback(w),
           ~Approve(w), ~Reject(w), ~GrantFunds(w), ~StartReview(w)
    PROVE  /\ req'[w].op \notin {"approve", "reject"}
           /\ pc[w] = "idle" \/ req[w].op \notin {"approve", "reject"}
<1>1. /\ req \in [Workers -> Request \cup {NoRequest}] /\ ServingOK(w)
      /\ pc[w] \in Statement
  BY Typed
<1>2. CASE req' = req /\ pc[w] \notin {"idle", "commit", "approve", "grant", "reject"}
  BY <1>1, <1>2 DEF ServingOK, OpsAt, Statement
<1>3. CASE \E r : Accept(w, r) /\ r.op \notin {"approve", "reject"}
  BY <1>1, <1>3 DEF Accept
<1>4. CASE EndRequest(w) /\ pc[w] = "register"
  BY <1>1, <1>4 DEF EndRequest, NoRequest, ServingOK, OpsAt
<1>5. \/ req' = req /\ pc[w] \notin {"idle", "commit", "approve", "grant", "reject"}
      \/ \E r : Accept(w, r) /\ r.op \notin {"approve", "reject"}
      \/ EndRequest(w) /\ pc[w] = "register"
  <2>1. CASE FixedOddsStep(w)
    BY <2>1 DEF FixedOddsStep, StartPlace, StartExecute, Claim, Look, Assess, DebitStake,
       InsertBet, StartQuote, Register, StartLeave, LockBet, RefundStake, TouchMarket, CashOut
  <2>2. CASE PoolStep(w)
    BY <2>2, Zenon DEF PoolStep, StartStake, BankStake, AddToPool, StartTrade, Price, PayTrade
  <2>3. CASE FinalStep(w)
    BY <2>3, Zenon DEF FinalStep, StartSettle, Decide, Result, PayWinner, Divide, PayShare,
       FinishSettle, StartAnnul, LockToCancel, CreditBet, VoidBet, CreditPool, FinishCancel,
       Patch, WritePatch
  <2> QED
    BY <2>1, <2>2, <2>3 DEF WorkerStep
<1> QED
  BY <1>2, <1>3, <1>4, <1>5

\* A step of w as another worker sees it.
LEMMA OthersReview ==
    ASSUME NEW w \in Workers, NEW v \in Workers, v # w, HouseHeld, OwnStep(w), ReviewOK(v)
    PROVE  ReviewOK(v)'
<1>1. /\ DOMAIN wallets = Users /\ DOMAIN grants = Grants
      /\ req[v] \in Request \cup {NoRequest} /\ ServingOK(v)
  BY Holding, Typed DEF TablesTypedNow
<1>2. pc'[v] = pc[v] /\ req'[v] = req[v] /\ load' = load
  BY DEF OwnStep
<1>3. \A g \in Grants : /\ grants'[g].now = grants[g].now
                        /\ grants'[g].by = v <=> grants[g].by = v
                        /\ grants[g].by = v => grants'[g] = grants[g]
  BY <1>1, NobodyAssumption DEF OwnStep, OwnRows, Free
<1>4. \A u \in Users : Seen(wallets[u], v)' = Seen(wallets[u], v) /\ wallets'[u].now = wallets[u].now
  BY <1>1, NobodyAssumption DEF OwnStep, OwnRows, Free, Seen
<1>5. /\ pc[v] = "grant" => req[v].grant \in Grants
      /\ req[v].op = "reject" => req[v].grant \in Grants
  BY <1>1, RequestForms DEF ServingOK, OpsAt
<1>6. ReviewHolds(v)'
  BY <1>2, <1>3 DEF ReviewOK, ReviewHolds
<1>7. \A g \in Grants : Granting(v, g)' = Granting(v, g)
  BY <1>2 DEF Granting
<1>8. \A g \in Grants : \A u \in Users :
          Paid(Seen(wallets[u], v)', g) =
              Paid(wallets'[u].now, g) + (IF Granting(v, g)' THEN Due(u, g) ELSE 0)
  BY <1>4, <1>7 DEF ReviewOK
<1>9. Alone' = Alone
  BY <1>2 DEF Alone
<1> QED
  BY <1>2, <1>3, <1>5, <1>6, <1>7, <1>8, <1>9 DEF ReviewOK

\* A statement of w that leaves the faucet requests alone.
LEMMA QuietReview ==
    ASSUME NEW w \in Workers, HouseHeld, HouseTyped', ReviewOK(w), OwnStep(w),
           grants' = grants, Keeps(w, GrantLine),
           pc[w] \notin {"grant", "commit"} \/ req[w].op \notin {"approve", "reject"},
           pc'[w] \notin {"grant", "commit"} \/ req'[w].op \notin {"approve", "reject"},
           req'[w].op = "reject" => grants[req'[w].grant].now.status = "pending"
    PROVE  ReviewOK(w)'
<1>1. DOMAIN wallets = Users
  BY Holding, Typed DEF TablesTypedNow
<1>2. \A g \in Grants : grants'[g].by # w
  BY DEF ReviewOK, ReviewHolds
<1>3. \A g : ~Granting(w, g) /\ ~Granting(w, g)'
  BY DEF Granting
<1>4. \A u \in Users : wallets'[u].now = wallets[u].now
  BY <1>1 DEF OwnStep, OwnRows
<1>5. \A g \in Grants : \A u \in Users :
          Paid(Seen(wallets[u], w)', g) = Paid(wallets'[u].now, g)
  <2>1. ASSUME NEW g \in Grants, NEW u \in Users
        PROVE  Paid(Seen(wallets[u], w)', g) = Paid(wallets'[u].now, g)
    <3> DEFINE l == Entry("FAUCET_GRANT", g)
    <3>1. l \in GrantLine
      BY DEF Entry, GrantLine
    <3>2. Seen(wallets[u], w)'.ledger[l] = Seen(wallets[u], w).ledger[l]
      BY <3>1 DEF Keeps
    <3>3. Seen(wallets[u], w).ledger[l] = wallets[u].now.ledger[l]
      <4>1. Paid(Seen(wallets[u], w), g) =
                Paid(wallets[u].now, g) + (IF Granting(w, g) THEN Due(u, g) ELSE 0)
        BY DEF ReviewOK
      <4>2. wallets[u].now.ledger[l] \in Nat
        <5>1. wallets[u].now \in Wallet /\ l \in Line
          BY <3>1, Holding, Typed, VersionsTyped DEF TablesTypedNow, Line
        <5> QED
          BY <5>1 DEF Wallet
      <4> QED
        BY <1>3, <4>1, <4>2 DEF Paid
    <3> QED
      BY <1>4, <3>2, <3>3 DEF Paid
  <2> QED
    BY <2>1
<1>6. pc'[w] # "grant"
  <2>1. req'[w].op = "approve" \/ pc'[w] # "grant"
    BY DEF HouseTyped, Serving, ServingOK, OpsAt
  <2> QED
    BY <2>1
<1>7. \A g \in Grants : \A u \in Users :
          Paid(Seen(wallets[u], w)', g) =
              Paid(wallets'[u].now, g) + (IF Granting(w, g)' THEN Due(u, g) ELSE 0)
  <2>1. \A g \in Grants : \A u \in Users : Paid(wallets'[u].now, g) \in Nat
    <3>1. \A g \in Grants : Entry("FAUCET_GRANT", g) \in Line
      BY DEF Entry, GrantLine, Line
    <3>2. \A u \in Users : wallets'[u].now \in Wallet
      BY DEF HouseTyped, TypeOK, RowOf
    <3> QED
      BY <3>1, <3>2 DEF Wallet, Paid
  <2> QED
    BY <1>3, <1>5, <2>1
<1> QED
  BY <1>2, <1>3, <1>6, <1>7 DEF ReviewOK, ReviewHolds

LEMMA StartReviewOK ==
    ASSUME NEW w \in Workers, HouseHeld, HouseTyped', ReviewOK(w), StartReview(w), ~Rollback(w)
    PROVE  ReviewOK(w)' /\ grants' = grants
<1>1. PICK r \in todo : /\ r.op \in {"approve", "reject"}
                        /\ grants[r.grant].now.status = "pending"
                        /\ Accept(w, r) /\ Goto(w, r.op)
  BY DEF StartReview
<1>2. grants' = grants
  BY DEF StartReview, tables
<1>3. pc[w] = "idle" /\ pc'[w] = r.op /\ req'[w] = r
  BY <1>1, Holding, Typed DEF Accept, Goto
<1>4. OwnStep(w) /\ Keeps(w, GrantLine)
  BY WorkersOwn, GrantLinesKept, <1>3, Holding, Typed
     DEF WorkerStep, FinalStep, StartReview, GrantFunds
<1> QED
  BY <1>1, <1>2, <1>3, <1>4, QuietReview

LEMMA ApproveOK ==
    ASSUME NEW w \in Workers, HouseHeld, ReviewOK(w), OwnStep(w), Approve(w), ~Rollback(w)
    PROVE  ReviewOK(w)'
<1> DEFINE g == req[w].grant
<1>1. /\ pc[w] = "approve" /\ Goto(w, "grant") /\ grants[g].now.status = "pending"
      /\ grants' = [grants EXCEPT ![g] = Written(@, w, [status |-> "approved"])]
      /\ UNCHANGED <<wallets, req>>
  BY DEF Approve
<1>2. /\ grants \in [Grants -> RowOf(Grant)] /\ req[w] \in Request \cup {NoRequest}
      /\ req[w].op = "approve" /\ pc \in [Workers -> Statement]
  BY <1>1, Holding, Typed DEF TablesTypedNow, ServingOK, OpsAt
<1>3. g \in Grants
  BY <1>2, RequestForms
<1>4. pc'[w] = "grant" /\ req'[w] = req[w]
  BY <1>1, <1>2 DEF Goto
<1>5. /\ grants'[g].by = w /\ grants'[g].now.status = "pending"
      /\ grants'[g].new.status = "approved"
      /\ \A h \in Grants \ {g} : grants'[h] = grants[h]
  BY <1>1, <1>2, <1>3 DEF Written, RowOf
<1>6. ReviewHolds(w)'
  BY <1>1, <1>2, <1>4, <1>5 DEF ReviewOK, ReviewHolds
<1>7. \A h : ~Granting(w, h) /\ ~Granting(w, h)'
  BY <1>1, <1>4 DEF Granting
<1>8. \A u \in Users : Seen(wallets[u], w)' = Seen(wallets[u], w) /\ wallets'[u].now = wallets[u].now
  BY <1>1 DEF Seen
<1> QED
  BY <1>2, <1>4, <1>5, <1>6, <1>7, <1>8 DEF ReviewOK

LEMMA RejectOK ==
    ASSUME NEW w \in Workers, HouseHeld, ReviewOK(w), OwnStep(w), Reject(w)
    PROVE  ReviewOK(w)'
<1> DEFINE g == req[w].grant
<1>1. /\ pc[w] = "reject" /\ Goto(w, "commit")
      /\ grants' = [grants EXCEPT ![g] = Written(@, w, [status |-> "rejected"])]
      /\ UNCHANGED <<wallets, req, load>>
  BY DEF Reject
<1>2. /\ grants \in [Grants -> RowOf(Grant)] /\ req[w] \in Request \cup {NoRequest}
      /\ req[w].op = "reject" /\ pc \in [Workers -> Statement]
  BY <1>1, Holding, Typed DEF TablesTypedNow, ServingOK, OpsAt
<1>3. g \in Grants
  BY <1>2, RequestForms
<1>4. pc'[w] = "commit" /\ req'[w] = req[w]
  BY <1>1, <1>2 DEF Goto
<1>5. /\ grants'[g].by = w /\ grants'[g].now = grants[g].now
      /\ grants'[g].new.status = "rejected"
      /\ \A h \in Grants \ {g} : grants'[h] = grants[h]
  BY <1>1, <1>2, <1>3 DEF Written, RowOf
<1>6. ReviewHolds(w)'
  BY <1>1, <1>2, <1>4, <1>5 DEF ReviewOK, ReviewHolds
<1>7. \A h : ~Granting(w, h) /\ ~Granting(w, h)'
  BY <1>1, <1>2, <1>4 DEF Granting
<1>8. \A u \in Users : Seen(wallets[u], w)' = Seen(wallets[u], w) /\ wallets'[u].now = wallets[u].now
  BY <1>1 DEF Seen
<1>9. Alone' = Alone
  BY <1>1 DEF Alone
<1> QED
  BY <1>2, <1>4, <1>5, <1>6, <1>7, <1>8, <1>9 DEF ReviewOK

\* What a credit adds to its line.
LEMMA CreditWritten ==
    ASSUME NEW wallet, Shaped(wallet), NEW type, NEW ref, NEW amount,
           Entry(type, ref) \in Line
    PROVE  Credit(wallet, type, ref, amount).ledger[Entry(type, ref)] =
               wallet.ledger[Entry(type, ref)] + amount
<1> DEFINE credited == Credit(wallet, type, ref, amount)
<1>1. credited \in {Record(wallet, type, ref, amount), Credit(wallet, type, ref, amount),
                    Debit(wallet, type, ref, amount)}
  OBVIOUS
<1> HIDE DEF credited
<1>2. credited.ledger[Entry(type, ref)] = wallet.ledger[Entry(type, ref)] + amount
  BY <1>1, EntryWritten
<1> QED
  BY <1>2 DEF credited

LEMMA GrantFundsOK ==
    ASSUME NEW w \in Workers, HouseHeld, ReviewOK(w), OwnStep(w), GrantFunds(w),
           Keeps(w, Line \ {Entry("FAUCET_GRANT", req[w].grant)})
    PROVE  ReviewOK(w)'
<1> DEFINE g == req[w].grant
           u == GrantTerms[g].user
           amount == GrantTerms[g].amount
           paid == Credit(wallets[u].now, "FAUCET_GRANT", g, amount)
<1>1. /\ pc[w] = "grant" /\ Goto(w, "commit")
      /\ wallets' = [wallets EXCEPT ![u] = Written(@, w, paid)]
      /\ UNCHANGED <<grants, req, load>>
  BY DEF GrantFunds
<1>2. /\ wallets \in [Users -> RowOf(Wallet)] /\ req[w] \in Request \cup {NoRequest}
      /\ req[w].op = "approve" /\ pc \in [Workers -> Statement]
  BY <1>1, Holding, Typed DEF TablesTypedNow, ServingOK, OpsAt
<1>3. g \in Grants /\ u \in Users /\ amount \in Nat
  <2>1. g \in Grants
    BY <1>2, RequestForms
  <2> QED
    BY <2>1, GrantsAssumption
<1>4. pc'[w] = "commit" /\ req'[w] = req[w]
  BY <1>1, <1>2 DEF Goto
<1>5. /\ grants[g].by = w
      /\ ReviewHolds(w)'
  BY <1>1, <1>4 DEF ReviewOK, ReviewHolds
<1>6. \A h : ~Granting(w, h) /\ (Granting(w, h)' <=> h = g)
  BY <1>1, <1>2, <1>4 DEF Granting
<1>7. ASSUME NEW h \in Grants, NEW v \in Users
      PROVE  Paid(Seen(wallets[v], w)', h) =
                 Paid(wallets'[v].now, h) + (IF Granting(w, h)' THEN Due(v, h) ELSE 0)
  <2> DEFINE l == Entry("FAUCET_GRANT", h)
             row == wallets[v]
  <2>1. l \in Line /\ row.now \in Wallet /\ Seen(row, w) \in Wallet
    BY <1>2, VersionsTyped DEF Entry, GrantLine, Line
  <2>2. row.now.ledger[l] \in Nat /\ Seen(row, w).ledger[l] = row.now.ledger[l]
    <3>1. row.now.ledger[l] \in Nat /\ Seen(row, w).ledger[l] \in Nat
      BY <2>1 DEF Wallet
    <3>2. Paid(Seen(row, w), h) = Paid(row.now, h) + (IF Granting(w, h) THEN Due(v, h) ELSE 0)
      BY DEF ReviewOK
    <3> QED
      BY <1>6, <3>1, <3>2 DEF Paid
  <2>3. wallets'[v].now = row.now
    BY <1>1, <1>2, <1>3 DEF Written, RowOf
  <2>4. CASE h # g
    <3>1. l \in Line \ {Entry("FAUCET_GRANT", g)}
      BY <2>1, <2>4 DEF Entry
    <3>2. Seen(wallets[v], w)'.ledger[l] = Seen(wallets[v], w).ledger[l]
      BY <3>1 DEF Keeps
    <3> QED
      BY <1>6, <2>2, <2>3, <2>4, <3>2 DEF Paid
  <2>5. CASE h = g /\ v # u
    <3>1. wallets'[v] = wallets[v]
      BY <1>1, <1>2, <2>5
    <3> QED
      BY <2>2, <2>5, <3>1 DEF Paid, Due, Seen
  <2>6. CASE h = g /\ v = u
    <3> HIDE DEF amount
    <3>1. paid.ledger[l] = row.now.ledger[l] + amount
      <4>1. Shaped(row.now)
        BY <2>1, WalletShaped
      <4>2. /\ paid = Credit(row.now, "FAUCET_GRANT", g, amount)
            /\ l = Entry("FAUCET_GRANT", g)
        BY <2>6
      <4> HIDE DEF paid, row, l, g
      <4> QED
        BY <2>1, <4>1, <4>2, CreditWritten
    <3> HIDE DEF paid
    <3>2. wallets'[u].by = w /\ wallets'[u].new = paid
      BY <1>1, <1>2, <1>3 DEF Written, RowOf
    <3> QED
      BY <1>6, <2>3, <2>6, <3>1, <3>2, Zenon DEF Paid, Due, Seen, amount
  <2> QED
    BY <2>4, <2>5, <2>6
<1> QED
  BY <1>1, <1>2, <1>4, <1>5, <1>6, <1>7, Zenon DEF ReviewOK

\* A step within a request.
LEMMA ReviewSteps ==
    ASSUME NEW w \in Workers, GrantInv, HouseTyped', WorkerStep(w), ~Rollback(w)
    PROVE  /\ \A v \in Workers : ReviewOK(v)'
           /\ GrantedOnce' /\ load' = load
<1>1. OwnStep(w) /\ HouseHeld /\ ReviewOK(w)
  BY WorkersOwn DEF GrantInv
<1>2. ReviewOK(w)'
  <2>1. CASE Approve(w)
    BY <1>1, <2>1, ApproveOK
  <2>2. CASE Reject(w)
    BY <1>1, <2>2, RejectOK
  <2>3. CASE GrantFunds(w)
    BY <1>1, <2>3, GrantFundsOK, GrantFundsOwn
  <2>4. CASE StartReview(w)
    BY <1>1, <2>4, StartReviewOK
  <2>5. CASE ~Approve(w) /\ ~Reject(w) /\ ~GrantFunds(w) /\ ~StartReview(w)
    <3>1. grants' = grants /\ Keeps(w, GrantLine)
      BY <1>1, <2>5, GrantsKept, GrantLinesKept
    <3>2. /\ req'[w].op \notin {"approve", "reject"}
          /\ pc[w] = "idle" \/ req[w].op \notin {"approve", "reject"}
      BY <1>1, <2>5, Elsewhere, Holding
    <3> QED
      BY <1>1, <3>1, <3>2, QuietReview
  <2> QED
    BY <2>1, <2>2, <2>3, <2>4, <2>5
<1>3. \A v \in Workers : ReviewOK(v)'
  BY <1>1, <1>2, OthersReview DEF GrantInv
<1>4. /\ \A u \in Users : wallets'[u].now = wallets[u].now
      /\ \A g \in Grants : grants'[g].now = grants[g].now
  BY <1>1, Holding, Typed DEF TablesTypedNow, OwnStep, OwnRows
<1>5. Alone' = Alone /\ load' = load
  BY <1>1 DEF OwnStep, Alone
<1>6. GrantedOnce'
  BY <1>4, <1>5 DEF GrantInv, GrantedOnce
<1> QED
  BY <1>3, <1>5, <1>6

LEMMA EndReview ==
    ASSUME NEW w \in Workers, GrantInv, Rollback(w) \/ Commit(w)
    PROVE  \A v \in Workers : ReviewOK(v)'
<1>1. /\ wallets \in [Users -> RowOf(Wallet)] /\ grants \in [Grants -> RowOf(Grant)]
      /\ pc \in [Workers -> Statement] /\ req \in [Workers -> Request \cup {NoRequest}]
  BY Holding, Typed DEF TablesTypedNow, GrantInv
<1>2. /\ wallets' \in {Published(wallets, w), Discarded(wallets, w)}
      /\ grants' \in {Published(grants, w), Discarded(grants, w)}
      /\ EndRequest(w) /\ load' = load
  BY DEF Rollback, Commit
<1>3. /\ pc'[w] = "idle" /\ req'[w] = NoRequest
      /\ \A v \in Workers \ {w} : pc'[v] = pc[v] /\ req'[v] = req[v]
  BY <1>1, <1>2 DEF EndRequest, Goto
<1>4. /\ \A u \in Users : wallets'[u].by # w /\ Seen(wallets'[u], w) = wallets'[u].now
      /\ \A u \in Users : \A v \in Workers \ {w} :
             /\ wallets'[u].by = v <=> wallets[u].by = v
             /\ wallets[u].by = v => wallets'[u] = wallets[u]
  BY <1>1, <1>2, RowsEnd
<1>5. /\ \A g \in Grants : grants'[g].by # w
      /\ \A g \in Grants : \A v \in Workers \ {w} :
             /\ grants'[g].by = v <=> grants[g].by = v
             /\ grants[g].by = v => grants'[g] = grants[g]
  BY <1>1, <1>2, RowsEnd
<1>6. wallets' \in [Users -> RowOf(Wallet)]
  BY <1>1, <1>2, TablesTyped
<1>7. \A g \in Grants : \A u \in Users : Paid(wallets'[u].now, g) \in Nat
  <2>1. \A g \in Grants : Entry("FAUCET_GRANT", g) \in Line
    BY DEF Entry, GrantLine, Line
  <2> QED
    BY <1>6, <2>1 DEF RowOf, Wallet, Paid
<1>8. ReviewOK(w)'
  <2>1. \A g : ~Granting(w, g)'
    BY <1>3 DEF Granting
  <2>2. \A u \in Users : Seen(wallets[u], w)' = wallets'[u].now
    BY <1>4 DEF Seen
  <2>3. req'[w].op # "reject" /\ pc'[w] # "grant"
    BY <1>3 DEF NoRequest
  <2> QED
    BY <1>5, <1>7, <2>1, <2>2, <2>3 DEF ReviewOK, ReviewHolds
<1>9. ASSUME NEW v \in Workers \ {w}
      PROVE  ReviewOK(v)'
  <2>1. ReviewOK(v) /\ pc'[v] = pc[v] /\ req'[v] = req[v]
    BY <1>3 DEF GrantInv
  <2>2. ReviewHolds(v)' /\ \A g \in Grants : Granting(v, g)' = Granting(v, g)
    BY <1>5, <2>1 DEF ReviewOK, ReviewHolds, Granting
  <2>3. /\ pc'[v] = "grant" => grants'[req'[v].grant].by = v
        /\ \A g \in Grants : Granting(v, g)' => grants'[g].by = v
    <3>1. pc[v] = "grant" => req[v].grant \in Grants
      BY <1>1, RequestForms, Holding, Typed DEF GrantInv, ServingOK, OpsAt
    <3> QED
      BY <1>5, <2>1, <2>2, <3>1 DEF ReviewOK
  <2>4. ASSUME NEW g \in Grants, NEW u \in Users
        PROVE  Paid(Seen(wallets[u], v)', g) =
                   Paid(wallets'[u].now, g) + (IF Granting(v, g)' THEN Due(u, g) ELSE 0)
    <3> DEFINE l == Entry("FAUCET_GRANT", g)
               due == IF Granting(v, g) THEN Due(u, g) ELSE 0
    <3>1. wallets[u].now.ledger[l] \in Nat /\ due \in Nat
      <4>1. wallets[u].now \in Wallet /\ l \in Line
        BY <1>1, VersionsTyped DEF Entry, GrantLine, Line
      <4> QED
        BY <4>1, GrantsAssumption DEF Wallet, Due
    <3>2. Paid(Seen(wallets[u], v), g) = Paid(wallets[u].now, g) + due
      BY <2>1 DEF ReviewOK
    <3>3. CASE wallets[u].by = v
      <4>1. wallets'[u] = wallets[u]
        BY <1>4, <3>3
      <4> QED
        BY <2>2, <3>2, <4>1 DEF Seen
    <3>4. CASE wallets[u].by # v
      <4>1. due = 0
        BY <3>1, <3>2, <3>4 DEF Seen, Paid
      <4>2. Seen(wallets[u], v)' = wallets'[u].now
        BY <1>4, <3>4 DEF Seen
      <4> HIDE DEF due
      <4>3. Paid(Seen(wallets[u], v)', g) = Paid(wallets'[u].now, g) + due
        BY <1>7, <4>1, <4>2
      <4> QED
        BY <2>2, <4>3 DEF due
    <3> QED
      BY <3>3, <3>4
  <2>5. Alone' /\ req'[v].op = "reject" => grants'[req'[v].grant].now.status = "pending"
    <3>1. SUFFICES ASSUME Alone', req'[v].op = "reject"
                   PROVE  grants'[req'[v].grant].now.status = "pending"
      OBVIOUS
    <3>2. Alone /\ req[v].op = "reject" /\ grants[req[v].grant].now.status = "pending"
      BY <1>2, <2>1, <3>1 DEF Alone, ReviewOK
    <3>3. v \in load.crew /\ req[v].grant \in Grants
      BY <1>1, <3>2, RequestForms, Holding DEF GrantInv, HoldingOK, NoRequest
    <3>4. w \notin load.crew
      BY <3>2, <3>3, NotAlone DEF GrantInv
    <3>5. pc[w] = "idle"
      BY <3>4, Holding DEF GrantInv, HoldingOK
    <3>6. grants' = Discarded(grants, w)
      BY <3>5 DEF Commit, Rollback
    <3>7. grants'[req[v].grant].now = grants[req[v].grant].now
      BY <1>1, <3>3, <3>6, RowsEnd
    <3> QED
      BY <2>1, <3>2, <3>7
  <2> QED
    BY <2>2, <2>3, <2>4, <2>5 DEF ReviewOK
<1> QED
  BY <1>8, <1>9

LEMMA EndGranted ==
    ASSUME NEW w \in Workers, GrantInv, Rollback(w) \/ Commit(w)
    PROVE  GrantedOnce'
<1>1. /\ wallets \in [Users -> RowOf(Wallet)] /\ grants \in [Grants -> RowOf(Grant)]
      /\ ReviewOK(w)
  BY Holding, Typed DEF TablesTypedNow, GrantInv
<1>2. Alone' = Alone
  BY DEF Alone, Rollback, Commit
<1>3. CASE Rollback(w)
  <2>1. /\ \A u \in Users : wallets'[u].now = wallets[u].now
        /\ \A g \in Grants : grants'[g].now = grants[g].now
    <3>1. wallets' = Discarded(wallets, w) /\ grants' = Discarded(grants, w)
      BY <1>3 DEF Rollback
    <3> QED
      BY <1>1, <3>1, RowsEnd
  <2> QED
    BY <1>2, <2>1 DEF GrantInv, GrantedOnce
<1>4. CASE Commit(w)
  <2>1. /\ wallets' = Published(wallets, w) /\ grants' = Published(grants, w)
        /\ pc[w] = "commit"
    BY <1>4 DEF Commit
  <2>2. /\ \A u \in Users : wallets'[u].now = Seen(wallets[u], w)
        /\ \A g \in Grants : grants'[g].now = Seen(grants[g], w)
    BY <1>1, <2>1, RowsEnd
  <2>3. ASSUME NEW g \in Grants, NEW u \in Users
        PROVE  LET paid == Paid(wallets'[u].now, g)
                   status == grants'[g].now.status
               IN  /\ status = "approved" => paid = Due(u, g)
                   /\ status = "pending" => paid = 0
                   /\ status = "rejected" => paid \in {0, IF Alone THEN 0 ELSE Due(u, g)}
    <3> DEFINE before == Paid(wallets[u].now, g)
               status == grants[g].now.status
    <3>1. /\ status = "approved" => before = Due(u, g)
          /\ status = "pending" => before = 0
          /\ status = "rejected" => before \in {0, IF Alone THEN 0 ELSE Due(u, g)}
          /\ status \in {"pending", "approved", "rejected"}
      BY <1>1 DEF GrantInv, GrantedOnce, Paid, Due, RowOf, Grant
    <3>2. before \in Nat /\ Due(u, g) \in Nat
      <4>1. wallets[u].now \in Wallet /\ Entry("FAUCET_GRANT", g) \in Line
        BY <1>1, VersionsTyped DEF Entry, GrantLine, Line
      <4> QED
        BY <4>1, GrantsAssumption DEF Wallet, Paid, Due
    <3>3. Paid(wallets'[u].now, g) = before + (IF Granting(w, g) THEN Due(u, g) ELSE 0)
      BY <1>1, <2>2 DEF ReviewOK
    <3>4. CASE grants[g].by # w
      <4>1. ~Granting(w, g) /\ grants'[g].now = grants[g].now
        BY <1>1, <2>2, <3>4 DEF ReviewOK, Seen
      <4> QED
        BY <3>1, <3>2, <3>3, <4>1
    <3>5. CASE grants[g].by = w
      <4>1. /\ grants'[g].now = grants[g].new /\ req[w].grant = g
            /\ \/ /\ req[w].op = "approve"
                  /\ grants[g].now.status = "pending" /\ grants[g].new.status = "approved"
               \/ req[w].op = "reject" /\ grants[g].new.status = "rejected"
        BY <1>1, <2>2, <3>5 DEF ReviewOK, ReviewHolds, Seen
      <4>2. CASE req[w].op = "approve"
        BY <2>1, <3>1, <3>2, <3>3, <4>1, <4>2 DEF Granting
      <4>3. CASE req[w].op = "reject"
        <5>1. ~Granting(w, g) /\ (Alone => status = "pending")
          BY <1>1, <4>1, <4>3 DEF Granting, ReviewOK
        <5> QED
          BY <3>1, <3>2, <3>3, <4>1, <4>3, <5>1
      <4> QED
        BY <4>1, <4>2, <4>3
    <3> QED
      BY <3>4, <3>5
  <2> QED
    BY <1>2, <2>3 DEF GrantedOnce, Paid, Due
<1> QED
  BY <1>3, <1>4

LEMMA GrantInit == Init => GrantInv
<1> SUFFICES ASSUME Init
             PROVE  GrantInv
  OBVIOUS
<1>1. /\ \A g \in Grants : grants[g] = Fresh([status |-> "pending"])
      /\ \A u \in Users : wallets[u] = Fresh(NewWallet(InitialFunds[u]))
      /\ \A w \in Workers : pc[w] = "idle" /\ req[w] = NoRequest
  BY DEF Init
<1>2. ASSUME NEW u \in Users
      PROVE  /\ wallets[u].new = wallets[u].now
             /\ \A g \in Grants : Paid(wallets[u].now, g) = 0
  <2>1. \A g \in Grants : Entry("FAUCET_GRANT", g) \in Line
    BY DEF Entry, GrantLine, Line
  <2> DEFINE wallet == NewWallet(InitialFunds[u])
  <2>2. wallet.ledger = [l \in Line |-> 0]
    BY DEF NewWallet
  <2> HIDE DEF wallet
  <2>3. wallets[u] = Fresh(wallet)
    BY <1>1 DEF wallet
  <2>4. wallets[u].now = wallet /\ wallets[u].new = wallet
    BY <2>3 DEF Fresh
  <2> QED
    BY <2>1, <2>2, <2>4 DEF Paid
<1>3. GrantedOnce
  BY <1>1, <1>2 DEF GrantedOnce, Paid, Fresh
<1>4. IsFiniteSet(load.crew)
  BY MixesAssumption DEF Init
<1>5. ASSUME NEW w \in Workers
      PROVE  ReviewOK(w)
  <2>1. \A u \in Users : Seen(wallets[u], w) = wallets[u].now
    BY <1>2 DEF Seen
  <2>2. pc[w] = "idle" /\ req[w].op = "none" /\ \A g \in Grants : grants[g].by # w
    BY <1>1, NobodyAssumption DEF NoRequest, Fresh
  <2> QED
    BY <1>2, <2>1, <2>2 DEF ReviewOK, ReviewHolds, Granting
<1> QED
  BY <1>3, <1>4, <1>5, HeldInit DEF GrantInv

LEMMA GrantNext == GrantInv /\ [Next]_vars => GrantInv'
<1> SUFFICES ASSUME GrantInv, [Next]_vars
             PROVE  GrantInv'
  OBVIOUS
<1>1. HouseHeld /\ HouseTyped /\ HouseHeld' /\ HouseTyped'
  BY HeldNext DEF GrantInv, HouseHeld
<1>2. ASSUME NEW w \in Workers, WorkerStep(w), ~Rollback(w)
      PROVE  GrantInv'
  BY <1>1, <1>2, ReviewSteps DEF GrantInv
<1>3. ASSUME NEW w \in Workers, Rollback(w) \/ Commit(w)
      PROVE  GrantInv'
  <2>1. load' = load
    BY <1>3 DEF Rollback, Commit
  <2> QED
    BY <1>1, <1>3, <2>1, EndReview, EndGranted DEF GrantInv
<1>4. CASE ClockTick \/ UNCHANGED vars \/ \E m \in Markets : CloseMarket(m)
  <2>1. UNCHANGED <<wallets, grants, load, pc, req>>
    BY <1>4, TicksKeep DEF CloseMarket, tables
  <2>2. \A w \in Workers : ReviewOK(w)'
    BY <2>1 DEF GrantInv, ReviewOK, ReviewHolds, Granting, Seen, Alone
  <2> QED
    BY <1>1, <2>1, <2>2 DEF GrantInv, GrantedOnce, Alone
<1> QED
  BY <1>1, <1>2, <1>3, <1>4, StepKinds

\* A faucet request is paid at most once, to its user, and when it is approved; one that is
\* rejected is paid nothing if one worker serves, and may have been paid if reviews race.
THEOREM GrantsPaidOnce == Spec => []GrantedOnce
<1>1. GrantInv => GrantedOnce
  BY DEF GrantInv
<1> QED
  BY <1>1, GrantInit, GrantNext, PTL DEF Spec

----------------------------------------------------------------------------
(***************************************************************************)
(* Who holds market rows.                                                  *)
(***************************************************************************)

\* The statements at which a worker may hold market rows.
MarketAt == {"commit", "pay", "share", "result", "payout", "credit", "unbet"}

\* A row that nobody holds has one version, and w holds rows at no other statement.
MarketsOK(w) == \A m \in Markets : markets[m].by = w => pc[w] \in MarketAt

Clean == \A m \in Markets : markets[m].by = Nobody => markets[m].new = markets[m].now

MarketsHeld == HouseHeld /\ Clean /\ \A w \in Workers : MarketsOK(w)

----------------------------------------------------------------------------
(***************************************************************************)
(* Who writes market rows.                                                 *)
(***************************************************************************)

\* An arrival, at a statement that needs no row.
LEMMA NewcomersHoldNothing ==
    ASSUME NEW w \in Workers, HouseHeld,
           \/ StartPlace(w) \/ StartExecute(w) \/ StartQuote(w) \/ StartLeave(w)
           \/ StartStake(w) \/ StartTrade(w) \/ StartSettle(w) \/ StartAnnul(w)
           \/ Patch(w) \/ StartReview(w)
    PROVE  pc[w] \notin MarketAt /\ markets' = markets
<1>1. pc[w] = "idle"
  BY DEF StartPlace, StartExecute, StartQuote, StartLeave, StartStake, StartTrade,
     StartSettle, StartAnnul, Patch, StartReview, Accept
<1>2. UNCHANGED tables
  BY DEF StartPlace, StartExecute, StartQuote, StartLeave, StartStake, StartTrade,
     StartSettle, StartAnnul, Patch, StartReview
<1>. QED
  BY <1>1, <1>2 DEF MarketAt, tables

LEMMA MarketWriters ==
    ASSUME NEW w \in Workers, HouseHeld, WorkerStep(w), ~Rollback(w)
    PROVE  /\ pc[w] \in MarketAt => pc'[w] \in MarketAt
           /\ markets' # markets => pc'[w] \in MarketAt
<1>1. pc \in [Workers -> Statement]
  BY Holding, Typed
<1>2. CASE \/ StartPlace(w) \/ StartExecute(w) \/ StartQuote(w) \/ StartLeave(w)
           \/ StartStake(w) \/ StartTrade(w) \/ StartSettle(w) \/ StartAnnul(w)
           \/ Patch(w) \/ StartReview(w)
  BY <1>2, NewcomersHoldNothing
<1>3. CASE \/ Claim(w) \/ Look(w) \/ Assess(w) \/ DebitStake(w) \/ InsertBet(w) \/ Register(w)
           \/ LockBet(w) \/ RefundStake(w) \/ CashOut(w) \/ BankStake(w)
           \/ Approve(w) \/ GrantFunds(w) \/ Reject(w)
  BY <1>3 DEF Claim, Look, Assess, DebitStake, InsertBet, Register, LockBet, RefundStake,
     CashOut, BankStake, Approve, GrantFunds, Reject, MarketAt, tables
<1>4. CASE TouchMarket(w) \/ AddToPool(w) \/ Price(w) \/ PayTrade(w) \/ WritePatch(w)
  BY <1>1, <1>4, Zenon DEF TouchMarket, AddToPool, Price, PayTrade, WritePatch, Goto, MarketAt
<1>5. CASE Decide(w) \/ Result(w) \/ PayWinner(w) \/ Divide(w)
  BY <1>1, <1>5 DEF Decide, Result, PayWinner, Divide, Goto, MarketAt, tables
<1>6. CASE PayShare(w) \/ FinishSettle(w)
  BY <1>1, <1>6 DEF PayShare, FinishSettle, Goto, MarketAt, tables
<1>7. CASE LockToCancel(w) \/ CreditBet(w) \/ VoidBet(w) \/ CreditPool(w) \/ FinishCancel(w)
  BY <1>1, <1>7, Zenon DEF LockToCancel, CreditBet, VoidBet, CreditPool, FinishCancel, Goto,
     MarketAt, tables
<1>. QED
  BY <1>2, <1>3, <1>4, <1>5, <1>6, <1>7 DEF WorkerStep, FixedOddsStep, PoolStep, FinalStep

LEMMA MarketsHeldInit == Init => MarketsHeld
<1> SUFFICES ASSUME Init
             PROVE  MarketsHeld
  OBVIOUS
<1>1. \A m \in Markets : markets[m].by = Nobody /\ markets[m].new = markets[m].now
  BY DEF Init, Fresh
<1>. QED
  BY <1>1, HeldInit, NobodyAssumption DEF MarketsHeld, Clean, MarketsOK

LEMMA MarketsHeldNext == MarketsHeld /\ [Next]_vars => MarketsHeld'
<1> SUFFICES ASSUME MarketsHeld, [Next]_vars
             PROVE  MarketsHeld'
  OBVIOUS
<1>1. /\ HouseHeld /\ HouseHeld' /\ HouseTyped
      /\ markets \in [Markets -> RowOf(Market)]
  BY HeldNext DEF MarketsHeld, HouseHeld, HouseTyped, TypeOK
<1>2. ASSUME NEW w \in Workers, WorkerStep(w), ~Rollback(w)
      PROVE  MarketsHeld'
  <2>1. OwnStep(w)
    BY <1>1, <1>2, WorkersOwn
  <2>2. /\ pc[w] \in MarketAt => pc'[w] \in MarketAt
        /\ markets' # markets => pc'[w] \in MarketAt
    BY <1>1, <1>2, MarketWriters
  <2>3. Clean'
    BY <1>1, <2>1, NobodyAssumption DEF OwnStep, OwnRows, Clean, MarketsHeld
  <2>4. MarketsOK(w)'
    BY <1>1, <2>2 DEF MarketsHeld, MarketsOK
  <2>5. ASSUME NEW v \in Workers \ {w}
        PROVE  MarketsOK(v)'
    BY <1>1, <2>1, NobodyAssumption DEF OwnStep, OwnRows, Free, MarketsOK, MarketsHeld
  <2>. QED
    BY <1>1, <2>3, <2>4, <2>5 DEF MarketsHeld
<1>3. ASSUME NEW w \in Workers, Rollback(w) \/ Commit(w)
      PROVE  MarketsHeld'
  <2>1. markets' \in {Published(markets, w), Discarded(markets, w)} /\ EndRequest(w)
    BY <1>3 DEF Rollback, Commit
  <2>2. \A v \in Workers \ {w} : pc'[v] = pc[v]
    BY <1>1, <2>1, Holding, Typed DEF EndRequest, Goto
  <2>3. Clean'
    BY <1>1, <2>1 DEF Published, Discarded, Fresh, Clean, MarketsHeld
  <2>4. ASSUME NEW v \in Workers
        PROVE  MarketsOK(v)'
    BY <1>1, <2>1, <2>2, RowsEnd DEF MarketsOK, MarketsHeld
  <2>. QED
    BY <1>1, <2>3, <2>4 DEF MarketsHeld
<1>4. CASE ClockTick \/ UNCHANGED vars
  BY <1>1, <1>4, TicksKeep DEF MarketsHeld, Clean, MarketsOK, tables
<1>5. ASSUME NEW m \in Markets, CloseMarket(m)
      PROVE  MarketsHeld'
  <2>1. /\ markets[m].by = Nobody /\ pc' = pc
        /\ \E value : markets' = [markets EXCEPT ![m] = Fresh(value)]
    BY <1>5 DEF CloseMarket
  <2>2. Clean'
    BY <1>1, <2>1 DEF Fresh, Clean, MarketsHeld
  <2>3. \A v \in Workers : MarketsOK(v)'
    BY <1>1, <2>1, NobodyAssumption DEF Fresh, MarketsOK, MarketsHeld
  <2>. QED
    BY <1>1, <2>2, <2>3 DEF MarketsHeld
<1>. QED
  BY <1>1, <1>2, <1>3, <1>4, <1>5, StepKinds

=============================================================================

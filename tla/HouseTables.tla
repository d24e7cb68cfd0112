----------------------------- MODULE HouseTables -----------------------------
(***************************************************************************)
(* The tables that the house's own markets share (fixed odds, parimutuel   *)
(* and LMSR), and the transactions that work on them.                      *)
(*                                                                         *)
(* A worker serves one request at a time, in one PostgreSQL transaction at *)
(* READ COMMITTED.  A step runs one statement that may wait for a row lock,*)
(* and the code up to the next such statement.  A row keeps its committed  *)
(* value and, while some worker has it locked, the value that worker wrote.*)
(***************************************************************************)
EXTENDS Integers, Sequences, FiniteSetsExt

CONSTANTS
    Workers,        \* server processes, each with a database connection
    Nobody,         \* the holder of an unlocked row
    Users,          \* ids of the customers
    Markets,        \* ids of the markets
    Terms,          \* [Markets -> MarketTerms]: what a market was created with
    InitialFunds,   \* [Users -> Nat]
    GrantTerms,     \* [Grants -> [user, amount]]: the faucet requests
    Slips,          \* the idempotency keys of betslip quotes
    MaxBets,        \* bound: rows of the table bets
    MaxStakes,      \* bound: PARIMUTUEL_STAKE entries
    Mixes           \* bound: the loads a run may start with, see Mix

Sides == {"YES", "NO"}

BetIds == 1 .. MaxBets
StakeIds == 1 .. MaxStakes
Grants == DOMAIN GrantTerms

MarketTerms ==
    [mechanism : {"fixed_odds", "parimutuel", "lmsr"}, fee_bps : Nat,
     odds_minor : [Sides -> Nat], liability_cap : Nat \ {0},
     takeout_bps : 1000 .. 3000, spread_fee_bps : 0 .. 500, subsidy : Nat]

MarketStatus == {"draft", "open", "closed", "settled", "cancelled"}

\* A bet that is asked for: the leg is named by its side.
Ticket == [user : Users, market : Markets, side : Sides, stake : Nat \ {0}]

\* attempt tells apart requests that are made more than once.
Request ==
    [op : {"place"}, ticket : Ticket]
      \cup [op : {"quote"}, slip : Slips, user : Users, items : Seq(Ticket)]
      \cup [op : {"execute"}, slip : Slips, attempt : Nat]
      \cup [op : {"void", "cashout"}, bet : BetIds]
      \cup [op : {"stake", "trade"}, user : Users, market : Markets, side : Sides,
            amount : Nat \ {0}]
      \cup [op : {"settle"}, market : Markets, outcome : Sides]
      \cup [op : {"annul"}, market : Markets]
      \cup [op : {"patch"}, market : Markets, status : MarketStatus]
      \cup [op : {"approve", "reject"}, grant : Grants, attempt : Nat]

\* A load: who serves, which markets have a close_at, and the requests that clients may
\* make, once each.
Mix == [crew : SUBSET Workers, timed : SUBSET Markets, todo : SUBSET Request]

ASSUME NobodyAssumption == Nobody \notin Workers
ASSUME SlipsAssumption == Nobody \notin Slips
ASSUME IdsAssumption ==
    /\ Users \subseteq Nat /\ Users # {}
    /\ Markets \subseteq Nat /\ Markets # {}
ASSUME FiniteAssumption == IsFiniteSet(Users) /\ IsFiniteSet(Markets) /\ IsFiniteSet(Grants)
ASSUME TermsAssumption == Terms \in [Markets -> MarketTerms]
ASSUME FundsAssumption == InitialFunds \in [Users -> Nat]
ASSUME GrantsAssumption ==
    GrantTerms \in [Grants -> [user : Users, amount : Nat \ {0}]] /\ Grants \subseteq Nat
ASSUME BoundsAssumption == MaxBets \in Nat /\ MaxStakes \in Nat
ASSUME MixesAssumption ==
    \A mix \in Mixes :
        /\ mix.crew \subseteq Workers /\ IsFiniteSet(mix.crew)
        /\ mix.timed \subseteq Markets
        /\ \A r \in mix.todo : r \in Request

VARIABLES
    wallets,   \* [Users -> row of Wallet]
    markets,   \* [Markets -> row of Market]
    bets,      \* [BetIds -> row of Bet]
    stakes,    \* [StakeIds -> row of Stake], the PARIMUTUEL_STAKE entries
    quotes,    \* [Slips -> row of Quote]
    grants,    \* [Grants -> row of Grant]
    expired,   \* the markets whose close_at has passed
    lapsed,    \* the quotes whose expires_at has passed
    load,      \* the crew and the timed markets of this run's load
    todo,      \* the requests not yet made
    pc,        \* [Workers -> statement about to run]
    req,       \* [Workers -> the request being served]
    tx         \* [Workers -> the request's local variables]

tables == <<wallets, markets, bets, stakes, quotes, grants>>
clocks == <<expired, lapsed>>
vars == <<wallets, markets, bets, stakes, quotes, grants, expired, lapsed,
          load, todo, pc, req, tx>>

----------------------------------------------------------------------------
(***************************************************************************)
(* What the rows hold.                                                     *)
(***************************************************************************)

BetStatus == {"none", "open", "settled_win", "settled_loss", "voided"}
Bet == [ticket : Ticket, slip : Slips \cup {Nobody}, status : BetStatus]

NoTicket ==
    [user |-> CHOOSE u \in Users : TRUE, market |-> CHOOSE m \in Markets : TRUE,
     side |-> "YES", stake |-> 1]

\* pool: parimutuel_pool_yes/no_minor.  shares: lmsr_q_yes/no.  held: lmsr_positions.
\* costs and trades: the cost_minor of the lmsr_trade.place audit events, and how many.
Market ==
    [status : MarketStatus, outcome : Sides \cup {"none"},
     pool : [Sides -> Nat], shares : [Sides -> Nat], held : [Users -> [Sides -> Nat]],
     costs : [Users -> Nat], trades : Nat]

NewMarket ==
    LET Zero == [s \in Sides |-> 0]
    IN  [status |-> "open", outcome |-> "none", pool |-> Zero, shares |-> Zero,
         held |-> [u \in Users |-> Zero], costs |-> [u \in Users |-> 0], trades |-> 0]

\* amount 0 is an entry that does not exist.
Stake == [user : Users, market : Markets, side : Sides, amount : Nat]

Quote == [user : Users, items : Seq(Ticket), status : {"none", "pending", "executed"}]

Grant == [status : {"pending", "approved", "rejected"}]

\* The ledger by entry type and subject.  BET_CANCEL_REFUND is the MARKET_CANCEL_REFUND
\* of one bet.  Some entries do not say which market they are about; the model does.
BetLine ==
    [type : {"BET_STAKE", "BET_WIN_PAYOUT", "BET_VOID_REFUND", "BET_CANCEL_REFUND",
             "BET_CASHOUT_PAYOUT", "BET_CASHOUT_FEE"}, ref : BetIds]
MarketLine ==
    [type : {"PARIMUTUEL_STAKE", "PARIMUTUEL_REFUND", "LMSR_TRADE_STAKE", "LMSR_FEE",
             "SETTLEMENT_WIN", "MARKET_CANCEL_REFUND"}, ref : Markets]
GrantLine == [type : {"FAUCET_GRANT"}, ref : Grants]
Line == BetLine \cup MarketLine \cup GrantLine

Entry(type, ref) == [type |-> type, ref |-> ref]

\* wallets.available_minor, and the sums of the user's ledger entries.
Wallet == [available : Nat, ledger : [Line -> Nat]]

NewWallet(funds) == [available |-> funds, ledger |-> [l \in Line |-> 0]]

Record(wallet, type, ref, amount) ==
    [wallet EXCEPT !.ledger[Entry(type, ref)] = @ + amount]

Credit(wallet, type, ref, amount) ==
    [Record(wallet, type, ref, amount) EXCEPT !.available = @ + amount]

Debit(wallet, type, ref, amount) ==
    [Record(wallet, type, ref, amount) EXCEPT !.available = @ - amount]

----------------------------------------------------------------------------
(***************************************************************************)
(* Rows under transactions.                                                *)
(***************************************************************************)

RowOf(Values) == [now : Values, new : Values, by : Workers \cup {Nobody}]

Fresh(value) == [now |-> value, new |-> value, by |-> Nobody]

Free(row, w) == row.by \in {w, Nobody}

\* What a plain SELECT of w sees.
Seen(row, w) == IF row.by = w THEN row.new ELSE row.now

\* SELECT ... FOR UPDATE, and an UPDATE or INSERT.
Locked(row, w) == [row EXCEPT !.by = w]
Written(row, w, value) == [row EXCEPT !.new = value, !.by = w]

\* The table after COMMIT and after ROLLBACK of w's transaction.
Published(table, w) ==
    [k \in DOMAIN table |-> IF table[k].by = w THEN Fresh(table[k].new) ELSE table[k]]

Discarded(table, w) ==
    [k \in DOMAIN table |-> IF table[k].by = w THEN Fresh(table[k].now) ELSE table[k]]

\* The in-memory market of a settlement is in pool; batch holds the ids that a loop has
\* not visited yet; bet is the bet worked on; items are the tickets not yet placed.
NoTx == [items |-> <<>>, batch |-> {}, bet |-> 0, pool |-> [s \in Sides |-> 0], due |-> 0]

NoRequest == [op |-> "none"]

Goto(w, statement) == pc' = [pc EXCEPT ![w] = statement]

\* A request arrives at a free worker.
Accept(w, r) ==
    /\ pc[w] = "idle"
    /\ w \in load.crew
    /\ r \in todo
    /\ todo' = todo \ {r}
    /\ req' = [req EXCEPT ![w] = r]

EndRequest(w) ==
    /\ Goto(w, "idle")
    /\ req' = [req EXCEPT ![w] = NoRequest]
    /\ tx' = [tx EXCEPT ![w] = NoTx]

\* COMMIT: everything w wrote appears at once.
Commit(w) ==
    /\ pc[w] = "commit"
    /\ wallets' = Published(wallets, w)
    /\ markets' = Published(markets, w)
    /\ bets' = Published(bets, w)
    /\ stakes' = Published(stakes, w)
    /\ quotes' = Published(quotes, w)
    /\ grants' = Published(grants, w)
    /\ EndRequest(w)
    /\ UNCHANGED <<expired, lapsed, load, todo>>

\* ROLLBACK; the caller is answered with an error.
Rollback(w) ==
    /\ wallets' = Discarded(wallets, w)
    /\ markets' = Discarded(markets, w)
    /\ bets' = Discarded(bets, w)
    /\ stakes' = Discarded(stakes, w)
    /\ quotes' = Discarded(quotes, w)
    /\ grants' = Discarded(grants, w)
    /\ EndRequest(w)
    /\ UNCHANGED <<expired, lapsed, load, todo>>

\* The worker dies, loses its connection, or is the victim of a deadlock.
Crash(w) == pc[w] # "idle" /\ Rollback(w)

\* The foreign key of a bet that w inserts share-locks its market row.
Shares(w, m) ==
    \E b \in BetIds :
        bets[b].by = w /\ bets[b].now.status = "none" /\ bets[b].new.ticket.market = m

\* May w take the market row with SELECT ... FOR UPDATE?
FreeForUpdate(w, m) ==
    Free(markets[m], w) /\ \A v \in Workers \ {w} : ~Shares(v, m)

\* Market#open? and the close_at check, as the services make them.
TakesBets(m, w) == Seen(markets[m], w).status = "open" /\ m \notin expired
=============================================================================

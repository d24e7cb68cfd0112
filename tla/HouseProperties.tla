--------------------------- MODULE HouseProperties ---------------------------
(***************************************************************************)
(* What the house's markets must keep, whatever the order of steps.  A     *)
(* property that begins with Alone is claimed of one worker only: the      *)
(* README says which races break it.                                       *)
(***************************************************************************)
EXTENDS House

Alone == Cardinality(load.crew) <= 1

\* A load in which no cash-out can meet the settlement or the cancellation of a market.
CashoutsApart(mix) ==
    \/ \A v, w \in mix.crew : v = w
    \/ \A r \in mix.todo : r.op # "cashout"
    \/ \A r \in mix.todo : r.op \notin {"settle", "annul"}

\* A load in which no pool that was cancelled, and its stakes paid back, is brought back to
\* life: by an admin who sets its status, or by a settlement that looked at it before.
PoolsStayCancelled(mix) ==
    \A r, s \in mix.todo :
        /\ r.op = "annul" /\ s.op \in {"settle", "patch"} /\ r.market = s.market
        /\ Mechanism(r.market) = "parimutuel"
        => s.op = "settle" /\ \A v, w \in mix.crew : v = w

\* A load in which no admin sets the status of a pool or of a market maker's market, which
\* pays nobody, and two workers do not settle and cancel the same one: the settlement would
\* go by a status it read before.
EndsStand(mix) ==
    /\ \A r \in mix.todo : r.op = "patch" => Mechanism(r.market) = "fixed_odds"
    /\ \A r, s \in mix.todo :
           /\ r.op = "annul" /\ s.op = "settle" /\ r.market = s.market
           /\ Mechanism(r.market) # "fixed_odds"
           => \A v, w \in mix.crew : v = w

\* A load in which, if one worker serves it, no admin sets a market to settled or to
\* cancelled by hand, which pays nobody and leaves the bets open.
PatchesDecideNothing(mix) ==
    (\A v, w \in mix.crew : v = w) =>
        \A r \in mix.todo : r.op = "patch" => r.status \notin {"settled", "cancelled"}

----------------------------------------------------------------------------
(***************************************************************************)
(* Types.                                                                  *)
(***************************************************************************)

Statement ==
    {"idle", "commit", "look", "risk", "debit", "insert", "claim", "register", "bet",
     "refund", "touch", "cashout", "bank", "pool", "price", "pay", "decide", "result",
     "payout", "divide", "share", "annul", "credit", "unbet", "patch", "approve", "grant",
     "reject"}

Tx ==
    [items : Seq(Ticket), batch : SUBSET Nat, bet : BetIds \cup {0},
     pool : [Sides -> Nat], due : Nat]

\* Every row is of its table's type, in both versions; in particular no wallet column and
\* no count of shares is ever negative.
TypeOK ==
    /\ wallets \in [Users -> RowOf(Wallet)]
    /\ markets \in [Markets -> RowOf(Market)]
    /\ bets \in [BetIds -> RowOf(Bet)]
    /\ stakes \in [StakeIds -> RowOf(Stake)]
    /\ quotes \in [Slips -> RowOf(Quote)]
    /\ grants \in [Grants -> RowOf(Grant)]
    /\ expired \subseteq Markets
    /\ lapsed \subseteq Slips
    /\ pc \in [Workers -> Statement]
    /\ \A r \in todo : r \in Request
    /\ req \in [Workers -> Request \cup {NoRequest}]
    /\ tx \in [Workers -> Tx]

----------------------------------------------------------------------------
(***************************************************************************)
(* Bets.                                                                   *)
(***************************************************************************)

BetTypes ==
    {"BET_STAKE", "BET_WIN_PAYOUT", "BET_VOID_REFUND", "BET_CANCEL_REFUND",
     "BET_CASHOUT_PAYOUT", "BET_CASHOUT_FEE"}

\* The ledger's lines about bet b, and such lines: a stake and, if any, what it returned.
Booked(wallet, b) == [type \in BetTypes |-> wallet.ledger[Entry(type, b)]]

Lines(stake, type, amount) ==
    [l \in BetTypes |-> IF l = "BET_STAKE" THEN stake ELSE IF l = type THEN amount ELSE 0]

CashLines(t) ==
    [Lines(t.stake, "BET_CASHOUT_PAYOUT", CashoutNet(t)) EXCEPT
        !["BET_CASHOUT_FEE"] = CashoutFee(t)]

\* What the ledger may say of a bet, by its status.
FairLines(row) ==
    LET t == row.ticket
    IN  CASE row.status = "none" -> {Lines(0, "BET_STAKE", 0)}
          [] row.status \in {"open", "settled_loss"} -> {Lines(t.stake, "BET_STAKE", 0)}
          [] row.status = "settled_win" -> {Lines(t.stake, "BET_WIN_PAYOUT", Payout(t))}
          [] row.status = "voided" ->
                {Lines(t.stake, "BET_VOID_REFUND", t.stake),
                 Lines(t.stake, "BET_CANCEL_REFUND", t.stake), CashLines(t)}

\* A bet is paid for once and returns once, what its status says, to its owner and to
\* nobody else: whatever a placement, a void, a settlement, a cancellation or an admin's
\* update of the market do at the same time.  Only a cash-out may not be among them.
BetsPaidOnce ==
    \A b \in BetIds : \A u \in Users :
        Booked(wallets[u].now, b) \in
            IF bets[b].now.ticket.user = u THEN FairLines(bets[b].now)
            ELSE {Lines(0, "BET_STAKE", 0)}

\* What a bet has returned to its owner.
Returned(b) ==
    LET ledger == wallets[bets[b].now.ticket.user].now.ledger
    IN  ledger[Entry("BET_WIN_PAYOUT", b)] + ledger[Entry("BET_VOID_REFUND", b)]
          + ledger[Entry("BET_CANCEL_REFUND", b)] + ledger[Entry("BET_CASHOUT_PAYOUT", b)]

WorthOf(t, how) ==
    CASE how = "settled_win" -> {Payout(t)}
      [] how = "settled_loss" -> {0}
      [] OTHER -> {t.stake, CashoutNet(t)}

Book ==
    [b \in BetIds |->
        [status |-> bets[b].now.status, ticket |-> bets[b].now.ticket,
         returned |-> Returned(b)]]

Promise == INSTANCE BetBook WITH
    Bets <- BetIds, Tickets <- Ticket, Worth <- WorthOf, book <- Book

\* The services implement the promise: seen from outside, in committed rows, each bet
\* goes from placed to decided in one step, together with its money, and stays decided.
PromiseKept == Promise!Spec

\* A betslip is placed as a whole, once, or not at all: its bets are the items of the
\* quote exactly when the quote is executed, through failures at any item and races.
SlipsAllOrNothing ==
    \A k \in Slips :
        LET items == quotes[k].now.items
            placed == {b \in BetIds : bets[b].now.status # "none" /\ bets[b].now.slip = k}
            Asked(t) == Cardinality({i \in 1 .. Len(items) : items[i] = t})
            Got(t) == Cardinality({b \in placed : bets[b].now.ticket = t})
        IN  IF quotes[k].now.status = "executed"
            THEN /\ Cardinality(placed) = Len(items)
                 /\ \A i \in 1 .. Len(items) : Asked(items[i]) = Got(items[i])
            ELSE placed = {}

\* A betslip quote keeps what was first asked under its idempotency key.
QuotesKept ==
    [][\A k \in Slips : quotes[k].now.status # "none" =>
           quotes'[k].now.items = quotes[k].now.items /\ quotes'[k].now.user = quotes[k].now.user]_vars

CommittedBets == [b \in BetIds |-> bets[b].now]

LiabilityNow(m) == Liability(TicketsOf(CommittedBets, m), m)

\* Bets, also the later ones of a betslip, are only added up to the liability cap; what
\* the cap does not promise is that a void or a cash-out leaves the rest within it.
CapKept ==
    [][Alone =>
           \A m \in Markets :
               ~(OpenBets(CommittedBets', m) \subseteq OpenBets(CommittedBets, m)) =>
                   LiabilityNow(m)' <= Terms[m].liability_cap]_vars

\* A market that is settled or cancelled leaves no bet of its mechanism undecided.
NothingLeftOpen ==
    Alone =>
        \A m \in Markets :
            Mechanism(m) = "fixed_odds" /\ markets[m].now.status \in {"settled", "cancelled"}
                => OpenBets(CommittedBets, m) = {}

----------------------------------------------------------------------------
(***************************************************************************)
(* Faucet.                                                                 *)
(***************************************************************************)

\* A faucet request is paid at most once, to its user, and when it is approved; and one
\* that is rejected is not paid, unless the reviews race.
GrantedOnce ==
    \A g \in Grants : \A u \in Users :
        LET paid == wallets[u].now.ledger[Entry("FAUCET_GRANT", g)]
            due == IF u = GrantTerms[g].user THEN GrantTerms[g].amount ELSE 0
        IN  /\ grants[g].now.status = "approved" => paid = due
            /\ grants[g].now.status = "pending" => paid = 0
            /\ grants[g].now.status = "rejected" => paid \in {0, IF Alone THEN 0 ELSE due}

----------------------------------------------------------------------------
(***************************************************************************)
(* Pools and the market maker.                                             *)
(***************************************************************************)

StakeTotal(m, sides) ==
    SumFunctionOnSet([i \in StakeIds |-> stakes[i].now.amount], StakesOn(m, sides))

\* The pool columns are the sums of the stakes' ledger entries, as long as there is a pool.
PoolMatchesStakes ==
    \A m \in Markets : markets[m].now.status # "cancelled" =>
        \A side \in Sides : markets[m].now.pool[side] = StakeTotal(m, {side})

LineOf(u, type, m) == wallets[u].now.ledger[Entry(type, m)]

\* A settled pool pays out no more than is left after the takeout, and all of it but for
\* a cent a winning stake; those without a winning stake get nothing; and when nobody has
\* one, everyone gets exactly the stakes back.
PoolPaysOut ==
    Alone =>
        \A m \in Markets :
            Mechanism(m) = "parimutuel" /\ markets[m].now.status = "settled" =>
                LET side == markets[m].now.outcome
                    won == StakesOn(m, {side})
                    total == StakeTotal(m, Sides)
                    left == total - Takeout(m, total)
                    paid == SumFunction([u \in Users |-> LineOf(u, "SETTLEMENT_WIN", m)])
                IN  IF won = {}
                    THEN \A u \in Users :
                            LineOf(u, "PARIMUTUEL_REFUND", m) = LineOf(u, "PARIMUTUEL_STAKE", m)
                    ELSE /\ paid <= left
                         /\ paid >= left - Cardinality(won)
                         /\ \A u \in Users : (\A i \in won : stakes[i].now.user # u) =>
                                LineOf(u, "SETTLEMENT_WIN", m) = 0

\* However trades interleave, together they have paid the cost function's rise to where
\* the shares are now, give or take half a cent for each trade that was rounded.  (So the
\* market maker loses at most its subsidy, which is the cost at no shares, and that.)
PathIndependent ==
    \A m \in Markets : Mechanism(m) = "lmsr" =>
        LET market == markets[m].now
            rise == CostFunction(market.shares) - CostFunction(NewMarket.shares)
            off == 10000 * SumFunction(market.costs) - rise
        IN  2 * Max({off, -off}) <= 10000 * market.trades

\* The quantities that set the price are the contracts that are held, and a settlement
\* pays 100 for each winning one.
PositionsPaid ==
    \A m \in Markets : Mechanism(m) = "lmsr" =>
        LET market == markets[m].now
        IN  /\ market.status # "cancelled" =>
                  \A side \in Sides :
                      market.shares[side] = SumFunction([u \in Users |-> market.held[u][side]])
            /\ Alone /\ market.status = "settled" =>
                  \A u \in Users :
                      LineOf(u, "SETTLEMENT_WIN", m) = 100 * market.held[u][market.outcome]

\* After a cancellation every customer of a pool or of the market maker has back what
\* the stakes or the contracts cost, fees apart.
CancelMakesWhole ==
    Alone =>
        \A m \in Markets : markets[m].now.status = "cancelled" => \A u \in Users :
            LineOf(u, "MARKET_CANCEL_REFUND", m) =
                LineOf(u, "PARIMUTUEL_STAKE", m) + LineOf(u, "LMSR_TRADE_STAKE", m)

----------------------------------------------------------------------------
(***************************************************************************)
(* Money.                                                                  *)
(***************************************************************************)

Debits == {"BET_STAKE", "PARIMUTUEL_STAKE", "LMSR_TRADE_STAKE", "LMSR_FEE"}

\* The entries that take from a wallet, and those that add to it; a cash-out's fee is the
\* one entry that is not a movement of money.
PaidLines == {l \in Line : l.type \in Debits}
ReceivedLines == {l \in Line : l.type \notin Debits /\ l.type # "BET_CASHOUT_FEE"}

Explained(u, wallet) ==
    wallet.available =
        InitialFunds[u] + SumFunctionOnSet(wallet.ledger, ReceivedLines)
                        - SumFunctionOnSet(wallet.ledger, PaidLines)

\* Every balance is the funds it began with and what the ledger says of it, through every
\* race and crash.
LedgerExplainsWallets == \A u \in Users : Explained(u, wallets[u].now)
=============================================================================

------------------------------ MODULE FixedOdds ------------------------------
(***************************************************************************)
(* Bets against the house: BetPlacementService with HouseRiskService,      *)
(* BetslipQuoteService and BetslipExecutionService, BetVoidService and     *)
(* CashoutExecutionService.                                                *)
(***************************************************************************)
EXTENDS HouseTables

(***************************************************************************)
(* Amounts.                                                                *)
(***************************************************************************)

Fee(t) == (t.stake * Terms[t.market].fee_bps) \div 10000
NetStake(t) == t.stake - Fee(t)
Payout(t) == (t.stake * Terms[t.market].odds_minor[t.side]) \div 10000

\* CashoutQuoteService: the gross value is the potential payout, the fee is rounded up.
CashoutFee(t) == (Payout(t) * Terms[t.market].fee_bps + 9999) \div 10000
CashoutNet(t) == Payout(t) - CashoutFee(t)

Total(Amount(_), tickets) == SumFunction([b \in DOMAIN tickets |-> Amount(tickets[b])])

\* HouseRiskService.worst_case_liability of open bets, given as id -> ticket.
Liability(tickets, m) ==
    LET On(side) == [b \in {c \in DOMAIN tickets : tickets[c].side = side} |-> tickets[b]]
        Pnl(side) == Total(NetStake, tickets) - Total(Payout, On(side))
    IN  Max({0} \cup {-Pnl(side) : side \in Sides})

\* market.bets.open, from the values of the rows.
OpenBets(rows, m) == {b \in BetIds : rows[b].status = "open" /\ rows[b].ticket.market = m}

TicketsOf(rows, m) == [b \in OpenBets(rows, m) |-> rows[b].ticket]

BetsSeen(w) == [b \in BetIds |-> Seen(bets[b], w)]

\* The rows yet to be inserted, in the order of their ids.
FreeBets == {b \in BetIds : bets[b].by = Nobody /\ bets[b].now.status = "none"}

----------------------------------------------------------------------------
(***************************************************************************)
(* Placing bets, one or those of a betslip.                                *)
(***************************************************************************)

StartPlace(w) ==
    \E r \in todo :
        /\ r.op = "place"
        /\ Accept(w, r)
        /\ tx' = [tx EXCEPT ![w].items = <<r.ticket>>]
        /\ Goto(w, "look")
        /\ UNCHANGED <<tables, clocks, load>>

\* BetslipExecutionService.execute!, up to the transaction.
StartExecute(w) ==
    \E r \in todo :
        /\ r.op = "execute"
        /\ Accept(w, r)
        /\ quotes[r.slip].now.status = "pending"
        /\ r.slip \notin lapsed
        /\ Goto(w, "claim")
        /\ UNCHANGED <<tables, clocks, load, tx>>

\* Mutant: the quote is not looked at again once it is locked.
ClaimUnchecked(w) ==
    LET k == req[w].slip
    IN  /\ pc[w] = "claim"
        /\ Free(quotes[k], w)
        /\ quotes' = [quotes EXCEPT ![k] = Locked(@, w)]
        /\ tx' = [tx EXCEPT ![w].items = quotes[k].now.items]
        /\ Goto(w, "look")
        /\ UNCHANGED <<wallets, markets, bets, stakes, grants, clocks, load, todo, req>>

\* quote.lock! and the second executed? check.
Claim(w) ==
    LET k == req[w].slip
    IN  /\ pc[w] = "claim"
        /\ Free(quotes[k], w)
        /\ IF quotes[k].now.status = "executed" THEN Rollback(w)
           ELSE /\ quotes' = [quotes EXCEPT ![k] = Locked(@, w)]
                /\ tx' = [tx EXCEPT ![w].items = quotes[k].now.items]
                /\ Goto(w, "look")
                /\ UNCHANGED <<wallets, markets, bets, stakes, grants, clocks, load,
                               todo, req>>

\* Mutant: a market that is not open is not refused.
LookUnchecked(w) ==
    LET t == Head(tx[w].items)
    IN  /\ pc[w] = "look"
        /\ IF NetStake(t) > 0
           THEN Goto(w, "risk") /\ UNCHANGED <<tables, clocks, load, todo, req, tx>>
           ELSE Rollback(w)

\* place!: the checks on the market and the stake, before the transaction.
Look(w) ==
    LET t == Head(tx[w].items)
    IN  /\ pc[w] = "look"
        /\ IF TakesBets(t.market, w) /\ NetStake(t) > 0
           THEN Goto(w, "risk") /\ UNCHANGED <<tables, clocks, load, todo, req, tx>>
           ELSE Rollback(w)

\* Mutant: the new bet is left out of the liability.
AssessWithout(w) ==
    LET t == Head(tx[w].items)
    IN  /\ pc[w] = "risk"
        /\ IF /\ Seen(wallets[t.user], w).available >= t.stake
              /\ Liability(TicketsOf(BetsSeen(w), t.market), t.market)
                   <= Terms[t.market].liability_cap
           THEN Goto(w, "debit") /\ UNCHANGED <<tables, clocks, load, todo, req, tx>>
           ELSE Rollback(w)

\* The pre-check of the balance, and the liability with the new bet (as bet 0), both
\* on what was committed when they ran.
Assess(w) ==
    LET t == Head(tx[w].items)
        open == TicketsOf(BetsSeen(w), t.market)
        simulated == [b \in DOMAIN open \cup {0} |-> IF b = 0 THEN t ELSE open[b]]
    IN  /\ pc[w] = "risk"
        /\ IF /\ Seen(wallets[t.user], w).available >= t.stake
              /\ Liability(simulated, t.market) <= Terms[t.market].liability_cap
           THEN Goto(w, "debit") /\ UNCHANGED <<tables, clocks, load, todo, req, tx>>
           ELSE Rollback(w)

\* Mutant: the balance is not checked again under the lock.
DebitUnchecked(w) ==
    LET t == Head(tx[w].items)
        wallet == Seen(wallets[t.user], w)
    IN  /\ pc[w] = "debit"
        /\ Free(wallets[t.user], w)
        /\ wallets' = [wallets EXCEPT ![t.user] =
                           Written(@, w, [wallet EXCEPT !.available = @ - t.stake])]
        /\ Goto(w, "insert")
        /\ UNCHANGED <<markets, bets, stakes, quotes, grants, clocks, load, todo, req, tx>>

\* wallet.lock!, the authoritative check of the balance, and the debit.
DebitStake(w) ==
    LET t == Head(tx[w].items)
        wallet == Seen(wallets[t.user], w)
    IN  /\ pc[w] = "debit"
        /\ Free(wallets[t.user], w)
        /\ IF wallet.available < t.stake THEN Rollback(w)
           ELSE /\ wallets' = [wallets EXCEPT ![t.user] =
                                  Written(@, w, [wallet EXCEPT !.available = @ - t.stake])]
                /\ Goto(w, "insert")
                /\ UNCHANGED <<markets, bets, stakes, quotes, grants, clocks, load, todo,
                               req, tx>>

\* Those who hold a market row FOR UPDATE; they make an INSERT with its key wait.
LocksForUpdate(v, m) ==
    /\ markets[m].by = v
    /\ \/ req[v].op \in {"annul", "stake", "trade"}
       \/ req[v].op = "settle" /\ Terms[m].mechanism = "parimutuel"

\* Bet.create! and its ledger entry.  After the last bet of a betslip the quote is
\* marked and the execution made.
InsertBet(w) ==
    LET t == Head(tx[w].items)
        slip == IF req[w].op = "execute" THEN req[w].slip ELSE Nobody
        last == Len(tx[w].items) = 1
    IN  /\ pc[w] = "insert"
        /\ \A v \in Workers \ {w} : ~LocksForUpdate(v, t.market)
        /\ \E b \in FreeBets :
               /\ \A c \in FreeBets : b <= c
               /\ bets' = [bets EXCEPT ![b] =
                      Written(@, w, [ticket |-> t, slip |-> slip, status |-> "open"])]
               /\ wallets' = [wallets EXCEPT ![t.user].new = Record(@, "BET_STAKE", b, t.stake)]
        /\ quotes' = IF last /\ slip # Nobody
                     THEN [quotes EXCEPT ![slip].new.status = "executed"] ELSE quotes
        /\ tx' = [tx EXCEPT ![w].items = Tail(@)]
        /\ Goto(w, IF last THEN "commit" ELSE "look")
        /\ UNCHANGED <<markets, stakes, grants, clocks, load, todo, req>>

----------------------------------------------------------------------------
(***************************************************************************)
(* Quotes of betslips.                                                     *)
(***************************************************************************)

\* The items are checked and the key looked up; a request whose key is there is
\* answered with the quote there is, or refused.
StartQuote(w) ==
    \E r \in todo :
        /\ r.op = "quote"
        /\ Accept(w, r)
        /\ r.items # <<>>
        /\ \A i \in 1 .. Len(r.items) : Seen(markets[r.items[i].market], w).status = "open"
        /\ quotes[r.slip].now.status = "none"
        /\ Goto(w, "register")
        /\ UNCHANGED <<tables, clocks, load, tx>>

\* Mutant: the key is not unique, and the later quote replaces the earlier one.
RegisterOver(w) ==
    /\ pc[w] = "register"
    /\ quotes' = [quotes EXCEPT ![req[w].slip] =
                     Fresh([user |-> req[w].user, items |-> req[w].items,
                            status |-> "pending"])]
    /\ EndRequest(w)
    /\ UNCHANGED <<wallets, markets, bets, stakes, grants, clocks, load, todo>>

\* BetslipQuote.create!, a transaction of its own; when another request has inserted
\* the key meanwhile, this one is answered with that quote, or refused.
Register(w) ==
    LET k == req[w].slip
    IN  /\ pc[w] = "register"
        /\ quotes' = IF quotes[k].now.status # "none" THEN quotes
                     ELSE [quotes EXCEPT ![k] =
                              Fresh([user |-> req[w].user, items |-> req[w].items,
                                     status |-> "pending"])]
        /\ EndRequest(w)
        /\ UNCHANGED <<wallets, markets, bets, stakes, grants, clocks, load, todo>>

\* The 60 seconds of a quote pass.
Lapse(k) ==
    /\ quotes[k].now.status = "pending"
    /\ k \notin lapsed
    /\ lapsed' = lapsed \cup {k}
    /\ UNCHANGED <<tables, expired, load, todo, pc, req, tx>>

----------------------------------------------------------------------------
(***************************************************************************)
(* Leaving a bet: a void by an operator, a cash-out by its owner.          *)
(***************************************************************************)

StartLeave(w) ==
    \E r \in todo :
        /\ r.op \in {"void", "cashout"}
        /\ bets[r.bet].now.status # "none"
        /\ Accept(w, r)
        /\ tx' = [tx EXCEPT ![w].bet = r.bet]
        /\ Goto(w, "bet")
        /\ UNCHANGED <<tables, clocks, load>>

\* Bet.lock.find and the checks; only a cash-out looks at the market, which it does
\* not lock.
LockBet(w) ==
    LET b == tx[w].bet
    IN  /\ pc[w] = "bet"
        /\ Free(bets[b], w)
        /\ IF /\ bets[b].now.status = "open"
              /\ req[w].op = "cashout" =>
                     markets[bets[b].now.ticket.market].now.status = "open"
           THEN /\ bets' = [bets EXCEPT ![b] = Locked(@, w)]
                /\ Goto(w, IF req[w].op = "void" THEN "refund" ELSE "cashout")
                /\ UNCHANGED <<wallets, markets, stakes, quotes, grants, clocks, load,
                               todo, req, tx>>
           ELSE Rollback(w)

\* BetVoidService: the stake goes back.
RefundStake(w) ==
    LET b == tx[w].bet
        t == bets[b].new.ticket
    IN  /\ pc[w] = "refund"
        /\ Free(wallets[t.user], w)
        /\ wallets' = [wallets EXCEPT ![t.user] =
                          Written(@, w, Credit(@.now, "BET_VOID_REFUND", b, t.stake))]
        /\ bets' = [bets EXCEPT ![b].new.status = "voided"]
        /\ Goto(w, "touch")
        /\ UNCHANGED <<markets, stakes, quotes, grants, clocks, load, todo, req, tx>>

\* Mutant: the market is not touched, so its row is not locked.
TouchNothing(w) ==
    /\ pc[w] = "touch"
    /\ Goto(w, "commit")
    /\ UNCHANGED <<tables, clocks, load, todo, req, tx>>

\* market.touch, an UPDATE.
TouchMarket(w) ==
    LET m == bets[tx[w].bet].new.ticket.market
    IN  /\ pc[w] = "touch"
        /\ Free(markets[m], w)
        /\ markets' = [markets EXCEPT ![m] = Locked(@, w)]
        /\ Goto(w, "commit")
        /\ UNCHANGED <<wallets, bets, stakes, quotes, grants, clocks, load, todo, req, tx>>

\* Mutant: the wallet is credited the gross value.
CashOutGross(w) ==
    LET b == tx[w].bet
        t == bets[b].new.ticket
        paid == Credit(wallets[t.user].now, "BET_CASHOUT_PAYOUT", b, CashoutNet(t))
    IN  /\ pc[w] = "cashout"
        /\ Free(wallets[t.user], w)
        /\ wallets' = [wallets EXCEPT ![t.user] =
               Written(@, w, Record([paid EXCEPT !.available = @ + CashoutFee(t)],
                                    "BET_CASHOUT_FEE", b, CashoutFee(t)))]
        /\ bets' = [bets EXCEPT ![b].new.status = "voided"]
        /\ Goto(w, "commit")
        /\ UNCHANGED <<markets, stakes, quotes, grants, clocks, load, todo, req, tx>>

\* CashoutExecutionService: the net value is paid.  The fee gets a ledger entry too,
\* and is not debited from the wallet.  An entry of amount 0 is invalid.
CashOut(w) ==
    LET b == tx[w].bet
        t == bets[b].new.ticket
        paid == Credit(wallets[t.user].now, "BET_CASHOUT_PAYOUT", b, CashoutNet(t))
    IN  /\ pc[w] = "cashout"
        /\ Free(wallets[t.user], w)
        /\ IF CashoutNet(t) <= 0 THEN Rollback(w)
           ELSE /\ wallets' = [wallets EXCEPT ![t.user] =
                       Written(@, w, Record(paid, "BET_CASHOUT_FEE", b, CashoutFee(t)))]
                /\ bets' = [bets EXCEPT ![b].new.status = "voided"]
                /\ Goto(w, "commit")
                /\ UNCHANGED <<markets, stakes, quotes, grants, clocks, load, todo, req, tx>>

FixedOddsStep(w) ==
    \/ StartPlace(w) \/ StartExecute(w) \/ Claim(w) \/ Look(w) \/ Assess(w)
    \/ DebitStake(w) \/ InsertBet(w)
    \/ StartQuote(w) \/ Register(w)
    \/ StartLeave(w) \/ LockBet(w) \/ RefundStake(w) \/ TouchMarket(w) \/ CashOut(w)
=============================================================================

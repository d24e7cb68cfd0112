----------------------------- MODULE HouseFinals -----------------------------
(***************************************************************************)
(* What ends a market of the house: SettlementService with its handlers,   *)
(* MarketCancellationService, CloseExpiredMarketsJob and the update of an  *)
(* admin; and the review of faucet requests.                               *)
(***************************************************************************)
EXTENDS FixedOdds, HousePools

Mechanism(m) == Terms[m].mechanism

\* The stakes in a market that are committed, on the given sides.
StakesOn(m, sides) ==
    {i \in StakeIds : LET s == stakes[i].now
                      IN  s.amount > 0 /\ s.market = m /\ s.side \in sides}

----------------------------------------------------------------------------
(***************************************************************************)
(* Settlement.                                                             *)
(***************************************************************************)

\* The status is checked on the record that the controller loaded, with no lock.
StartSettle(w) ==
    \E r \in todo :
        /\ r.op = "settle"
        /\ markets[r.market].now.status \in {"open", "closed"}
        /\ Accept(w, r)
        /\ tx' = [tx EXCEPT ![w].pool = markets[r.market].now.pool]
        /\ Goto(w, IF Mechanism(r.market) = "parimutuel" THEN "divide" ELSE "decide")
        /\ UNCHANGED <<tables, clocks, load>>

\* Mutant: the bets are loaded before the market row is locked.
DecideFirst(w) ==
    LET r == req[w]
        m == r.market
        settled == [markets[m].now EXCEPT !.status = "settled", !.outcome = r.outcome]
    IN  /\ pc[w] = "decide"
        /\ IF tx[w].due = 0
           THEN /\ tx' = [tx EXCEPT ![w].batch = OpenBets(BetsSeen(w), m), ![w].due = 1]
                /\ UNCHANGED <<markets, pc>>
           ELSE /\ Free(markets[m], w)
                /\ markets' = [markets EXCEPT ![m] = Written(@, w, settled)]
                /\ Goto(w, IF Mechanism(m) = "lmsr" THEN "share" ELSE "result")
                /\ UNCHANGED tx
        /\ UNCHANGED <<wallets, bets, stakes, quotes, grants, clocks, load, todo, req>>

\* market.update!, which waits for the row, and then the load of the open bets or of
\* the winning positions.
Decide(w) ==
    LET r == req[w]
        m == r.market
        settled == [markets[m].now EXCEPT !.status = "settled", !.outcome = r.outcome]
    IN  /\ pc[w] = "decide"
        /\ Free(markets[m], w)
        /\ markets' = [markets EXCEPT ![m] = Written(@, w, settled)]
        /\ IF Mechanism(m) = "lmsr"
           THEN /\ tx' = [tx EXCEPT ![w].batch = {u \in Users : settled.held[u][r.outcome] > 0}]
                /\ Goto(w, "share")
           ELSE /\ tx' = [tx EXCEPT ![w].batch = OpenBets(BetsSeen(w), m)]
                /\ Goto(w, "result")
        /\ UNCHANGED <<wallets, bets, stakes, quotes, grants, clocks, load, todo, req>>

\* bet.update!: the row is written as won or lost, whatever it is by now.
Result(w) ==
    LET Won(b) == bets[b].now.ticket.side = req[w].outcome
    IN  /\ pc[w] = "result"
        /\ \E b \in tx[w].batch :
               /\ Free(bets[b], w)
               /\ bets' = [bets EXCEPT ![b] =
                      Written(@, w, [@.now EXCEPT !.status =
                                         IF Won(b) THEN "settled_win" ELSE "settled_loss"])]
               /\ tx' = [tx EXCEPT ![w].batch = @ \ {b}, ![w].bet = b]
               /\ Goto(w, IF Won(b) THEN "payout" ELSE "result")
        /\ UNCHANGED <<wallets, markets, stakes, quotes, grants, clocks, load, todo, req>>

\* The winner's wallet.  A payout of 0 is not a valid ledger entry: the settlement of
\* the whole market is rolled back.
PayWinner(w) ==
    LET b == tx[w].bet
        t == bets[b].new.ticket
    IN  /\ pc[w] = "payout"
        /\ Free(wallets[t.user], w)
        /\ IF Payout(t) = 0 THEN Rollback(w)
           ELSE /\ wallets' = [wallets EXCEPT ![t.user] =
                       Written(@, w, Credit(Seen(@, w), "BET_WIN_PAYOUT", b, Payout(t)))]
                /\ Goto(w, "result")
                /\ UNCHANGED <<markets, bets, stakes, quotes, grants, clocks, load,
                               todo, req, tx>>

\* Parimutuel: who is paid is decided by the pools of the loaded record, and the
\* entries there are.
Divide(w) ==
    LET r == req[w]
        sides == IF tx[w].pool[r.outcome] = 0 THEN Sides ELSE {r.outcome}
    IN  /\ pc[w] = "divide"
        /\ tx' = [tx EXCEPT ![w].batch = StakesOn(r.market, sides)]
        /\ Goto(w, "share")
        /\ UNCHANGED <<tables, clocks, load, todo, req>>

\* Who gets what for member k of the batch: a stake in the pool or a holder of winning
\* contracts, at 100 cents a contract.
ShareOwner(w, k) == IF Mechanism(req[w].market) = "lmsr" THEN k ELSE stakes[k].now.user

ShareLine(w) ==
    IF Mechanism(req[w].market) = "parimutuel" /\ tx[w].pool[req[w].outcome] = 0
    THEN "PARIMUTUEL_REFUND" ELSE "SETTLEMENT_WIN"

ShareAmounts(w, k) ==
    LET r == req[w]
        pool == tx[w].pool
    IN  IF Mechanism(r.market) = "lmsr"
        THEN {100 * Seen(markets[r.market], w).held[k][r.outcome]}
        ELSE IF pool[r.outcome] = 0 THEN {stakes[k].now.amount}
        ELSE PoolShares(r.market, pool, r.outcome, stakes[k].now.amount)

\* One turn of the loop over the entries or positions; a share of nothing is skipped.
PayShare(w) ==
    /\ pc[w] = "share"
    /\ \E k \in tx[w].batch : \E amount \in ShareAmounts(w, k) :
           LET u == ShareOwner(w, k)
               paid == Credit(Seen(wallets[u], w), ShareLine(w), req[w].market, amount)
           IN  /\ amount # 0 => Free(wallets[u], w)
               /\ wallets' = IF amount = 0 THEN wallets
                             ELSE [wallets EXCEPT ![u] = Written(@, w, paid)]
               /\ tx' = [tx EXCEPT ![w].batch = @ \ {k}]
    /\ UNCHANGED <<markets, bets, stakes, quotes, grants, clocks, load, todo, pc, req>>

\* The loop is over.  A parimutuel market is only now locked and marked.
FinishSettle(w) ==
    LET r == req[w]
        m == r.market
    IN  /\ pc[w] \in {"result", "share"}
        /\ tx[w].batch = {}
        /\ IF Mechanism(m) = "parimutuel"
           THEN /\ FreeForUpdate(w, m)
                /\ markets' = [markets EXCEPT ![m] =
                       Written(@, w, [@.now EXCEPT !.status = "settled", !.outcome = r.outcome])]
           ELSE UNCHANGED markets
        /\ Goto(w, "commit")
        /\ UNCHANGED <<wallets, bets, stakes, quotes, grants, clocks, load, todo, req, tx>>

----------------------------------------------------------------------------
(***************************************************************************)
(* Cancellation.                                                           *)
(***************************************************************************)

StartAnnul(w) ==
    \E r \in todo :
        /\ r.op = "annul"
        /\ Accept(w, r)
        /\ Goto(w, "annul")
        /\ UNCHANGED <<tables, clocks, load, tx>>

\* What the loop of the mechanism's refund will visit: bets, stakes or traders.
ToRefund(w, m) ==
    CASE Mechanism(m) = "fixed_odds" -> OpenBets(BetsSeen(w), m)
      [] Mechanism(m) = "parimutuel" -> StakesOn(m, Sides)
      [] OTHER -> {u \in Users : markets[m].now.costs[u] > 0}

\* Market.lock.find and the check, and the changes to the market that the same
\* transaction makes after the refunds.
LockToCancel(w) ==
    LET m == req[w].market
        zero == [s \in Sides |-> 0]
        cancelled == [markets[m].now EXCEPT !.status = "cancelled", !.pool = zero,
                                            !.held = [u \in Users |-> zero]]
    IN  /\ pc[w] = "annul"
        /\ FreeForUpdate(w, m)
        /\ IF markets[m].now.status \notin {"open", "closed"} THEN Rollback(w)
           ELSE /\ tx' = [tx EXCEPT ![w].batch = ToRefund(w, m)]
                /\ markets' = [markets EXCEPT ![m] = Written(@, w, cancelled)]
                /\ Goto(w, "credit")
                /\ UNCHANGED <<wallets, bets, stakes, quotes, grants, clocks, load,
                               todo, req>>

\* credit! for an open bet; the bet itself is updated by the next statement.
CreditBet(w) ==
    /\ pc[w] = "credit"
    /\ Mechanism(req[w].market) = "fixed_odds"
    /\ \E b \in tx[w].batch :
           LET t == bets[b].now.ticket
           IN  /\ Free(wallets[t.user], w)
               /\ wallets' = [wallets EXCEPT ![t.user] =
                      Written(@, w, Credit(Seen(@, w), "BET_CANCEL_REFUND", b, t.stake))]
               /\ tx' = [tx EXCEPT ![w].batch = @ \ {b}, ![w].bet = b]
    /\ Goto(w, "unbet")
    /\ UNCHANGED <<markets, bets, stakes, quotes, grants, clocks, load, todo, req>>

VoidBet(w) ==
    LET b == tx[w].bet
    IN  /\ pc[w] = "unbet"
        /\ Free(bets[b], w)
        /\ bets' = [bets EXCEPT ![b] = Written(@, w, [@.now EXCEPT !.status = "voided"])]
        /\ Goto(w, "credit")
        /\ UNCHANGED <<wallets, markets, stakes, quotes, grants, clocks, load, todo, req, tx>>

\* Mutant: fees are counted, as they are in a CLOB market.
CreditWithFees(w) ==
    LET m == req[w].market
    IN  /\ pc[w] = "credit"
        /\ Mechanism(m) = "lmsr"
        /\ \E k \in tx[w].batch :
               LET amount == markets[m].now.costs[k] + SpreadFee(m, markets[m].now.costs[k])
               IN  /\ Free(wallets[k], w)
                   /\ wallets' = [wallets EXCEPT ![k] =
                          Written(@, w, Credit(Seen(@, w), "MARKET_CANCEL_REFUND", m, amount))]
                   /\ tx' = [tx EXCEPT ![w].batch = @ \ {k}]
        /\ UNCHANGED <<markets, bets, stakes, quotes, grants, clocks, load, todo, pc, req>>

\* credit! for a stake in a pool, or for what a trader has paid before fees.
CreditPool(w) ==
    LET m == req[w].market
    IN  /\ pc[w] = "credit"
        /\ Mechanism(m) # "fixed_odds"
        /\ \E k \in tx[w].batch :
               LET pari == Mechanism(m) = "parimutuel"
                   u == IF pari THEN stakes[k].now.user ELSE k
                   amount == IF pari THEN stakes[k].now.amount ELSE markets[m].now.costs[k]
               IN  /\ Free(wallets[u], w)
                   /\ wallets' = [wallets EXCEPT ![u] =
                          Written(@, w, Credit(Seen(@, w), "MARKET_CANCEL_REFUND", m, amount))]
                   /\ tx' = [tx EXCEPT ![w].batch = @ \ {k}]
        /\ UNCHANGED <<markets, bets, stakes, quotes, grants, clocks, load, todo, pc, req>>

FinishCancel(w) ==
    /\ pc[w] = "credit"
    /\ tx[w].batch = {}
    /\ Goto(w, "commit")
    /\ UNCHANGED <<tables, clocks, load, todo, req, tx>>

----------------------------------------------------------------------------
(***************************************************************************)
(* The market's life apart from that.                                      *)
(***************************************************************************)

\* close_at passes.
Expire(m) ==
    /\ m \in load.timed \ expired
    /\ expired' = expired \cup {m}
    /\ UNCHANGED <<tables, lapsed, load, todo, pc, req, tx>>

\* CloseExpiredMarketsJob: one UPDATE, guarded by the status that it finds.
CloseMarket(m) ==
    /\ m \in expired
    /\ markets[m].by = Nobody
    /\ markets[m].now.status = "open"
    /\ markets' = [markets EXCEPT ![m] = Fresh([markets[m].now EXCEPT !.status = "closed"])]
    /\ UNCHANGED <<wallets, bets, stakes, quotes, grants, clocks, load, todo, pc, req, tx>>

\* Admin::MarketsController#update with a status: any, and whatever the market's is.
Patch(w) ==
    \E r \in todo :
        /\ r.op = "patch"
        /\ Accept(w, r)
        /\ Goto(w, "patch")
        /\ UNCHANGED <<tables, clocks, load, tx>>

WritePatch(w) ==
    LET m == req[w].market
        patched == [markets[m].now EXCEPT !.status = req[w].status]
    IN  /\ pc[w] = "patch"
        /\ Free(markets[m], w)
        /\ markets' = [markets EXCEPT ![m] = Written(@, w, patched)]
        /\ Goto(w, "commit")
        /\ UNCHANGED <<wallets, bets, stakes, quotes, grants, clocks, load, todo, req, tx>>

----------------------------------------------------------------------------
(***************************************************************************)
(* Faucet requests.  The controllers only take pending ones.               *)
(***************************************************************************)

StartReview(w) ==
    \E r \in todo :
        /\ r.op \in {"approve", "reject"}
        /\ grants[r.grant].now.status = "pending"
        /\ Accept(w, r)
        /\ Goto(w, r.op)
        /\ UNCHANGED <<tables, clocks, load, tx>>

\* Mutant: the request is not checked again once it is locked.
ApproveUnchecked(w) ==
    LET g == req[w].grant
    IN  /\ pc[w] = "approve"
        /\ Free(grants[g], w)
        /\ grants' = [grants EXCEPT ![g] = Written(@, w, [status |-> "approved"])]
        /\ Goto(w, "grant")
        /\ UNCHANGED <<wallets, markets, bets, stakes, quotes, clocks, load, todo, req, tx>>

\* WalletGrantService.approve!: the lock, the check and the update.
Approve(w) ==
    LET g == req[w].grant
    IN  /\ pc[w] = "approve"
        /\ Free(grants[g], w)
        /\ IF grants[g].now.status # "pending" THEN Rollback(w)
           ELSE /\ grants' = [grants EXCEPT ![g] = Written(@, w, [status |-> "approved"])]
                /\ Goto(w, "grant")
                /\ UNCHANGED <<wallets, markets, bets, stakes, quotes, clocks, load,
                               todo, req, tx>>

GrantFunds(w) ==
    LET g == req[w].grant
        u == GrantTerms[g].user
    IN  /\ pc[w] = "grant"
        /\ Free(wallets[u], w)
        /\ wallets' = [wallets EXCEPT ![u] =
               Written(@, w, Credit(@.now, "FAUCET_GRANT", g, GrantTerms[g].amount))]
        /\ Goto(w, "commit")
        /\ UNCHANGED <<markets, bets, stakes, quotes, grants, clocks, load, todo, req, tx>>

\* WalletGrantService.reject!: an UPDATE of a record loaded without a lock.
Reject(w) ==
    LET g == req[w].grant
    IN  /\ pc[w] = "reject"
        /\ Free(grants[g], w)
        /\ grants' = [grants EXCEPT ![g] = Written(@, w, [status |-> "rejected"])]
        /\ Goto(w, "commit")
        /\ UNCHANGED <<wallets, markets, bets, stakes, quotes, clocks, load, todo, req, tx>>

FinalStep(w) ==
    \/ StartSettle(w) \/ Decide(w) \/ Result(w) \/ PayWinner(w)
    \/ Divide(w) \/ PayShare(w) \/ FinishSettle(w)
    \/ StartAnnul(w) \/ LockToCancel(w) \/ CreditBet(w) \/ VoidBet(w)
    \/ CreditPool(w) \/ FinishCancel(w)
    \/ Patch(w) \/ WritePatch(w)
    \/ StartReview(w) \/ Approve(w) \/ GrantFunds(w) \/ Reject(w)
=============================================================================

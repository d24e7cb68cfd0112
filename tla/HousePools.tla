------------------------------ MODULE HousePools ------------------------------
(***************************************************************************)
(* The markets whose prices their customers make: stakes in a parimutuel   *)
(* pool (ParimutuelPoolService) and trades with the LMSR market maker      *)
(* (LmsrTradeService, LmsrPricingService).                                 *)
(***************************************************************************)
EXTENDS HouseTables

CONSTANTS
    MaxGap,   \* the widest gap between the two sides' shares that is told from wider ones
    Excess    \* [0 .. MaxGap -> b * ln(1 + exp(-gap / b))] in millionths of an ADIV

Million == 1000000

\* Excess falls with the gap, by less than the gap grows, and is next to nothing where
\* the table ends.
ASSUME ExcessAssumption ==
    /\ MaxGap \in Nat
    /\ Excess \in [0 .. MaxGap -> Nat]
    /\ \A g, h \in 0 .. MaxGap :
           g <= h => Excess[h] <= Excess[g] /\ Excess[g] <= Excess[h] + Million * (h - g)
    /\ Excess[MaxGap] <= Million

(***************************************************************************)
(* Parimutuel.                                                             *)
(***************************************************************************)

FreeStakes == {i \in StakeIds : stakes[i].by = Nobody /\ stakes[i].now.amount = 0}

StartStake(w) ==
    \E r \in todo :
        /\ r.op = "stake"
        /\ Terms[r.market].mechanism = "parimutuel"
        /\ TakesBets(r.market, w)
        /\ Accept(w, r)
        /\ Goto(w, "bank")
        /\ UNCHANGED <<tables, clocks, load, tx>>

\* The wallet is debited and the ledger entry, from which shares are paid, is made.
BankStake(w) ==
    LET r == req[w]
        wallet == wallets[r.user].now
    IN  /\ pc[w] = "bank"
        /\ Free(wallets[r.user], w)
        /\ FreeStakes # {}
        /\ IF wallet.available < r.amount THEN Rollback(w)
           ELSE /\ wallets' = [wallets EXCEPT ![r.user] =
                       Written(@, w, Debit(wallet, "PARIMUTUEL_STAKE", r.market, r.amount))]
                /\ \E i \in FreeStakes :
                       /\ \A j \in FreeStakes : i <= j
                       /\ stakes' = [stakes EXCEPT ![i] =
                              Written(@, w, [user |-> r.user, market |-> r.market,
                                             side |-> r.side, amount |-> r.amount])]
                /\ Goto(w, "pool")
                /\ UNCHANGED <<markets, bets, quotes, grants, clocks, load, todo, req, tx>>

\* Mutant: the increment is committed on its own, whatever becomes of the stake.
AddAtOnce(w) ==
    LET r == req[w]
    IN  /\ pc[w] = "pool"
        /\ FreeForUpdate(w, r.market)
        /\ markets' = [markets EXCEPT ![r.market] =
               Fresh([@.now EXCEPT !.pool[r.side] = @ + r.amount])]
        /\ Goto(w, "commit")
        /\ UNCHANGED <<wallets, bets, stakes, quotes, grants, clocks, load, todo, req, tx>>

\* market.lock! and increment!.  The status is not looked at again.
AddToPool(w) ==
    LET r == req[w]
        m == r.market
        added == [markets[m].now EXCEPT !.pool[r.side] = @ + r.amount]
    IN  /\ pc[w] = "pool"
        /\ FreeForUpdate(w, m)
        /\ markets' = [markets EXCEPT ![m] = Written(@, w, added)]
        /\ Goto(w, "commit")
        /\ UNCHANGED <<wallets, bets, stakes, quotes, grants, clocks, load, todo, req, tx>>

\* The operator's part of a pool, rounded up.
Takeout(m, total) == (total * Terms[m].takeout_bps + 9999) \div 10000

\* Mutant: the winners share the whole pool.
PoolSharesUntaken(m, pool, side, amount) ==
    {(amount * (pool["YES"] + pool["NO"])) \div pool[side]}

\* What a stake on the winning side may be paid.  The ratio is a float: it can turn a
\* whole number of cents into a little less, which is then rounded down.
PoolShares(m, pool, side, amount) ==
    LET total == pool["YES"] + pool["NO"]
        after == total - Takeout(m, total)
        share == (amount * after) \div pool[side]
    IN  IF (amount * after) % pool[side] = 0 /\ after % pool[side] # 0 /\ share > 0
        THEN {share, share - 1} ELSE {share}

----------------------------------------------------------------------------
(***************************************************************************)
(* LMSR.                                                                   *)
(***************************************************************************)

\* C(q) = b * ln(exp(q_yes / b) + exp(q_no / b)), in millionths of an ADIV.
CostFunction(shares) ==
    LET high == Max({shares["YES"], shares["NO"]})
        low == Min({shares["YES"], shares["NO"]})
    IN  Million * high + (IF high - low <= MaxGap THEN Excess[high - low] ELSE 0)

\* (raw_cost * 100).round; a purchase never costs less than nothing.
RawCost(before, after) == (CostFunction(after) - CostFunction(before) + 5000) \div 10000

SpreadFee(m, cost) == (Terms[m].spread_fee_bps * cost + 9999) \div 10000

\* Mutant: every purchase moves the YES quantity.
BoughtYes(r, shares) == [shares EXCEPT !["YES"] = @ + r.amount]

Bought(r, shares) == [shares EXCEPT ![r.side] = @ + r.amount]

StartTrade(w) ==
    \E r \in todo :
        /\ r.op = "trade"
        /\ Terms[r.market].mechanism = "lmsr"
        /\ TakesBets(r.market, w)
        /\ Accept(w, r)
        /\ Goto(w, "price")
        /\ UNCHANGED <<tables, clocks, load, tx>>

\* Mutant: the trade is priced before the market row is locked.
PriceFirst(w) ==
    LET r == req[w]
        shares == markets[r.market].now.shares
    IN  /\ pc[w] = "price"
        /\ IF tx[w].due = 0
           THEN /\ tx' = [tx EXCEPT ![w].due = RawCost(shares, Bought(r, shares))]
                /\ UNCHANGED <<markets, pc>>
           ELSE /\ FreeForUpdate(w, r.market)
                /\ markets' = [markets EXCEPT ![r.market] = Locked(@, w)]
                /\ Goto(w, "pay")
                /\ UNCHANGED tx
        /\ UNCHANGED <<wallets, bets, stakes, quotes, grants, clocks, load, todo, req>>

\* market.lock! and the price at the quantities it finds.  The subsidy guard only
\* concerns trades that the market pays for, and no quantity is negative.
Price(w) ==
    LET r == req[w]
        shares == markets[r.market].now.shares
    IN  /\ pc[w] = "price"
        /\ FreeForUpdate(w, r.market)
        /\ markets' = [markets EXCEPT ![r.market] = Locked(@, w)]
        /\ tx' = [tx EXCEPT ![w].due = RawCost(shares, Bought(r, shares))]
        /\ Goto(w, "pay")
        /\ UNCHANGED <<wallets, bets, stakes, quotes, grants, clocks, load, todo, req>>

\* The wallet, two ledger entries, the quantities, the position and the audit event.
\* An entry of amount 0 is invalid.
PayTrade(w) ==
    LET r == req[w]
        m == r.market
        cost == tx[w].due
        fee == SpreadFee(m, cost)
        wallet == wallets[r.user].now
        staked == Debit(wallet, "LMSR_TRADE_STAKE", m, cost)
        traded == [markets[m].new EXCEPT !.shares = Bought(r, @),
                                         !.held[r.user][r.side] = @ + r.amount,
                                         !.costs[r.user] = @ + cost, !.trades = @ + 1]
    IN  /\ pc[w] = "pay"
        /\ Free(wallets[r.user], w)
        /\ IF wallet.available < cost + fee \/ cost = 0 THEN Rollback(w)
           ELSE /\ wallets' = [wallets EXCEPT ![r.user] =
                       Written(@, w, Debit(staked, "LMSR_FEE", m, fee))]
                /\ markets' = [markets EXCEPT ![m].new = traded]
                /\ Goto(w, "commit")
                /\ UNCHANGED <<bets, stakes, quotes, grants, clocks, load, todo, req, tx>>

PoolStep(w) ==
    \/ StartStake(w) \/ BankStake(w) \/ AddToPool(w)
    \/ StartTrade(w) \/ Price(w) \/ PayTrade(w)
=============================================================================

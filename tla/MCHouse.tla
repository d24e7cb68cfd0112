------------------------------- MODULE MCHouse -------------------------------
(***************************************************************************)
(* Small instances of the house's markets for TLC: loads that one or two   *)
(* workers serve, and the terms of the markets they are about.             *)
(***************************************************************************)
EXTENDS HouseProperties, TLC

TwoUsers == {1, 2}

\* Market 1 and 2 take bets at fixed odds, 3 is a pool, 4 a market maker.
FourMarkets == 1 .. 4

\* A leg at certain odds with a fee of 2% is the one kind the house can lose on.
SomeTerms ==
    [m \in FourMarkets |->
        [mechanism |-> CASE m <= 2 -> "fixed_odds" [] m = 3 -> "parimutuel" [] OTHER -> "lmsr",
         fee_bps |-> 200,
         odds_minor |-> [s \in Sides |-> IF s = "YES" THEN 10000 ELSE 4000],
         liability_cap |-> 3,
         takeout_bps |-> 1000,
         spread_fee_bps |-> 500,
         subsidy |-> 100]]

SomeFunds == [u \in TwoUsers |-> IF u = 1 THEN 240 ELSE 200]

OneGrant == (1 :> [user |-> 1, amount |-> 40])

\* For a subsidy of 1 ADIV, where b is 1 / ln 2: a million times log2(1 + 2^-gap).
SomeExcess ==
    [gap \in 0 .. 9 |->
        <<1000000, 584963, 321928, 169925, 87463, 44394, 22368, 11227, 5625, 2815>>[gap + 1]]

T(user, market, side, stake) == [user |-> user, market |-> market, side |-> side, stake |-> stake]

Place(t) == [op |-> "place", ticket |-> t]
Slip(key, user, items) == [op |-> "quote", slip |-> key, user |-> user, items |-> items]
Execute(key, n) == [op |-> "execute", slip |-> key, attempt |-> n]
Void(b) == [op |-> "void", bet |-> b]
Cashout(b) == [op |-> "cashout", bet |-> b]
Settle(m, side) == [op |-> "settle", market |-> m, outcome |-> side]
Annul(m) == [op |-> "annul", market |-> m]
Patched(m, status) == [op |-> "patch", market |-> m, status |-> status]
PoolStake(user, side, amount) ==
    [op |-> "stake", user |-> user, market |-> 3, side |-> side, amount |-> amount]
Trade(user, side, amount) ==
    [op |-> "trade", user |-> user, market |-> 4, side |-> side, amount |-> amount]
Review(op, g, n) == [op |-> op, grant |-> g, attempt |-> n]

One(timed, requests) == [crew |-> {"w1"}, timed |-> timed, todo |-> requests]
Two(requests) == [crew |-> {"w1", "w2"}, timed |-> {}, todo |-> requests]

AllLoads ==
    { \* one worker: bets, slips and every way out of a bet
      One({1}, {Place(T(1, 1, "YES", 100)), Place(T(2, 1, "YES", 100)), Place(T(2, 1, "NO", 50)),
                Void(1), Cashout(2), Settle(1, "YES"), Annul(1)}),
      One({}, {Slip("k", 1, <<T(1, 1, "YES", 100), T(1, 2, "NO", 50), T(1, 1, "YES", 60)>>),
               Execute("k", 1), Place(T(2, 1, "NO", 50)), Void(1), Settle(2, "NO")}),
      \* one worker: a bet so small that winning it pays nothing, in a market brought back
      One({}, {Place(T(1, 1, "NO", 2)), Settle(1, "NO"), Settle(1, "YES"), Void(1), Annul(1),
               Patched(1, "open"), Patched(1, "draft")}),
      \* one worker: a pool, a market maker
      One({3}, {PoolStake(1, "YES", 33), PoolStake(2, "YES", 7), PoolStake(2, "NO", 51),
                Settle(3, "YES"), Settle(3, "NO"), Annul(3)}),
      One({}, {Trade(1, "YES", 1), Trade(2, "NO", 1), Trade(1, "YES", 2), Trade(2, "YES", 1),
               Settle(4, "YES"), Annul(4)}),
      \* one worker: faucet requests
      One({}, {Review("approve", 1, 1), Review("approve", 1, 2), Review("reject", 1, 1), Place(T(1, 1, "NO", 280))}),
      \* two workers: a market ends, is reopened and ends again while bets come and go
      Two({Place(T(1, 1, "YES", 100)), Place(T(2, 1, "NO", 50)), Place(T(1, 1, "NO", 50)),
           Void(1), Void(2), Settle(1, "YES"), Annul(1)}),
      Two({Place(T(1, 1, "YES", 100)), Place(T(2, 1, "YES", 100)), Void(1), Settle(1, "YES"),
           Settle(1, "NO"), Patched(1, "open")}),
      \* two workers: an admin ends a market by hand, or makes it a draft, in the meantime
      Two({Place(T(1, 1, "YES", 100)), Place(T(2, 1, "NO", 50)), Void(1), Settle(1, "YES"),
           Patched(1, "settled"), Patched(1, "draft")}),
      \* two workers: voids and cash-outs of the same bets
      Two({Place(T(1, 1, "YES", 100)), Place(T(1, 1, "NO", 50)), Void(1), Cashout(1), Cashout(2)}),
      \* two workers: one key asked for twice, executed twice
      Two({Slip("k", 1, <<T(1, 1, "YES", 100), T(1, 2, "NO", 50)>>),
           Slip("k", 2, <<T(2, 1, "NO", 50)>>), Execute("k", 1), Execute("k", 2),
           Place(T(1, 1, "NO", 150))}),
      \* two workers: stakes and trades
      Two({PoolStake(1, "YES", 33), PoolStake(2, "NO", 51), PoolStake(1, "NO", 20), Settle(3, "YES")}),
      Two({Trade(1, "YES", 2), Trade(2, "NO", 1), Trade(2, "YES", 1), Settle(4, "YES")}),
      \* two workers: reviews of one request
      Two({Review("approve", 1, 1), Review("approve", 1, 2), Review("reject", 1, 1), Place(T(1, 1, "NO", 280))}) }

ASSUME LoadsAssumption ==
    \A mix \in AllLoads :
        /\ CashoutsApart(mix) /\ PoolsStayCancelled(mix) /\ PatchesDecideNothing(mix)
        /\ EndsStand(mix)

\* A cash-out and the settlement of its market.
CashoutLoad == {Two({Place(T(1, 1, "YES", 100)), Cashout(1), Settle(1, "YES")})}
=============================================================================

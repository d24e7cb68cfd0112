-------------------------------- MODULE House --------------------------------
(***************************************************************************)
(* The house's markets as one system: customers, operators, and the close  *)
(* job at work on the same tables.                                         *)
(***************************************************************************)
EXTENDS HouseFinals

Init ==
    /\ wallets = [u \in Users |-> Fresh(NewWallet(InitialFunds[u]))]
    /\ markets = [m \in Markets |-> Fresh(NewMarket)]
    /\ bets = [b \in BetIds |->
                  Fresh([ticket |-> NoTicket, slip |-> Nobody, status |-> "none"])]
    /\ stakes = [i \in StakeIds |->
                    Fresh([user |-> NoTicket.user, market |-> NoTicket.market,
                           side |-> "YES", amount |-> 0])]
    /\ quotes = [k \in Slips |->
                    Fresh([user |-> NoTicket.user, items |-> <<>>, status |-> "none"])]
    /\ grants = [g \in Grants |-> Fresh([status |-> "pending"])]
    /\ expired = {}
    /\ lapsed = {}
    /\ \E mix \in Mixes : load = [crew |-> mix.crew, timed |-> mix.timed] /\ todo = mix.todo
    /\ pc = [w \in Workers |-> "idle"]
    /\ req = [w \in Workers |-> NoRequest]
    /\ tx = [w \in Workers |-> NoTx]

Next ==
    \/ \E w \in Workers :
           FixedOddsStep(w) \/ PoolStep(w) \/ FinalStep(w) \/ Commit(w) \/ Crash(w)
    \/ \E k \in Slips : Lapse(k)
    \/ \E m \in Markets : Expire(m) \/ CloseMarket(m)

Spec == Init /\ [][Next]_vars
=============================================================================

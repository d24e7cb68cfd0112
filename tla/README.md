# Verification of Adivento

TLA+ models of Adivento's services, the TLC instances that check them, and theorems
about them that TLAPS proves. Paths below are relative to the repository's root
unless they name a file of this directory.

Adivento is a Rails monolith for prediction markets over PostgreSQL and Redis. Every
operation is a service object that runs inside one database transaction of a Puma
thread or of a job; what makes it hard is that many of these run at once, at READ
COMMITTED, with row locks taken in different orders, and that money moves in each.

## Running

    tlc -workers 2 -config RacingAll.cfg MCClob.tla      # any .cfg of the table below
    tlc -workers 2 -config House.cfg MCHouse.tla
    tlc -workers 2 -config Edge.cfg MCEdge.tla
    tlapm SumLemmas.tla                                  # and the seven modules named ...Proofs

## Inventory

| Component | State it keeps | Operations | What is hard | What makes it correct | Here |
|---|---|---|---|---|---|
| CLOB matching (`app/services/clob/order_matching_service.rb`, `net_position_service.rb`) | order rows, wallets, ledger, last price of the market | place GTC/IOC/FOK, buy/sell | `SKIP LOCKED`, reads without locks, wallet locks of several users, partial fills, fees that cannot be paid | quantities add up, reservations back the open bids, YES/NO pairs, price-time priority, an uncrossed book | modelled |
| CLOB cancellation (`order_cancellation_service.rb`) | order, wallet | cancel | races with fills, settlement and market cancellation | releases exactly what is left | modelled |
| CLOB settlement (`settlement_service.rb`, `settlement/clob_settlement_handler.rb`) | orders, wallets, market | sweep the book, pay winners | everything loaded without locks, market written last | one payout of 100 per winning contract; fills survive | modelled |
| Market cancellation (`market_cancellation_service.rb`) | everything of a market | refund by mechanism | net cash outlay from the ledger, clawbacks, lock orders | everyone made whole | modelled |
| Close job (`app/jobs/close_expired_markets_job.rb`) | market status | close expired markets | races with every request | only open markets are closed | modelled |
| Wallets and ledger | balances, entries | used by all | balance and entries must move together | balance derivable from the ledger (by entry types, see below), never negative | modelled |
| CLOB cashout, operator buyback | none | one GTC order through matching | price from a book read earlier | as matching | their orders; not the buyback's choice of price |
| Fixed odds (`bet_placement_service.rb`, `bet_void_service.rb`, `cashout_*`, `house_risk_service.rb`, `settle_fixed_odds!`) | bets, wallets | place, void, cash out, settle | liability cap read outside the transaction, unlocked bets at settlement | cap kept, a bet paid once | modelled |
| Betslips | quotes, executions | quote, execute | idempotency key, expiry, double submit | executed at most once, all or nothing | modelled |
| Faucet (`wallet_grant_service.rb`) | requests | approve, reject | reject takes no lock | one decision per request | modelled |
| Parimutuel | pools, stake entries | stake, settle, refund | pools from memory, stakes from the ledger | payouts at most the pool | modelled |
| LMSR | quantities, positions, loss | trade, settle | status not rechecked after the lock, rounding | price from the quantities under the lock, loss within the subsidy | modelled |
| Market lifecycle (backoffice, admin API) | status | create, open, update, settle, cancel | unrestricted status updates | no way back from a final status | from `open` on |
| Hot storage (`app/services/hot_storage`, reconcile job) | Redis snapshot and stream | project, read, reconcile | written before commit, of a market loaded earlier, no version check, versions that some changes leave alone, TTL | snapshot converges to the committed row; equal versions mean what they promise | modelled |
| Authorization | role permissions, grants | allowed? | several grants, expiry | deny wins | not modelled: one stateless query |
| Page script (`app/assets/javascripts/adivento.js`) | theme, frames, tabs, ticket, sheets | toggle, visit, open, close | timers and frames against clicks; pages rendered in two themes | one theme everywhere, a scrim exactly while a sheet is open | all but drawing |
| Design canvas (`docs/design/wireframes/v1/design-canvas.jsx`) | arrangement, its file, view | rename, delete, drag, focus, zoom, export | slow or failing reads, delayed writes, another revision of the source, a host that resets itself | nothing lost that was not changed, every artboard reachable, host and canvas agree, fonts complete | all but drawing and geometry |
| Price history, SSE, web pages, sessions, catalogs, seeds | rows written once, or none | | | | not modelled: I/O and static data |

Components interact through the shared rows only: services call one another inside one
transaction, and otherwise meet in PostgreSQL's locks. `PROJECT.json` lists each hazard
at the line where it bites, with the properties that would catch it.

## Plan

Written, in this order:

1. `ClobBook` - the book as data: rows, matching order, compatibility, fills, positions.
2. `ClobEngine` - the CLOB services as concurrent transactions.
3. `ClobProperties` - what they promise, and the inductive invariant.
4. `MCClob` and its `.cfg` files - the instances.
5. `ClobEngineProofs` - the invariant of the CLOB's transactions and what follows from it:
   types, kept fills, the ledger, pairs of contracts.
6. `HouseTables` (rows, requests, transactions), `FixedOdds` (bets, betslips),
   `HousePools` (parimutuel, LMSR), `HouseFinals` (settlement, cancellation, close,
   updates, faucet) and `House`, which composes them: the customers of three mechanisms and their
   operators on one set of tables.
7. `BetBook` - the abstract promise about a bet, which `House` implements
   (`PromiseKept`); `HouseProperties`, `MCHouse`.
8. `HotStorage`, `Client`, `Canvas`, `Viewport`, `FontExport` - parts that share no state
   with one another, each a module with its properties; `Edge` and `MCEdge` check them in
   one run.
9. `EdgeProofs` - the theorems about the parts at the edge.
10. `HouseStepProofs` (types, locks, what a step writes, quotes, the faucet) and, on top of
    it, `HouseBetProofs` (bets, the refinement of `BetBook`, betslips, what one worker leaves
    behind).
11. `SumLemmas` - sums over finite sets; with it `HouseMoneyProofs` (ledger, market maker,
    pools, and what one worker's settlements and cancellations pay), `ClobTradeProofs` (rows, collateral, reservations, FOK and IOC orders) and
    `ClobSerialProofs` (what one worker promises: finished books, positions, payouts,
    priority, uncrossed books, reservations, cancelled markets).

Left:

12. `Exchange`: an abstract exchange in which every request is one atomic step, and
    `ClobEngine` with one process shown to implement it.

The instances are kept few: each answers one question, so that all of them can be rerun
after every change of the code.

## How the CLOB model corresponds to the code

A **worker** is a server process with its database connection. It serves one request at
a time (`req[w]`), with the service's local variables in `tx[w]` and `pc[w]` naming the
statement it is about to run. A step is one statement that may wait for a row lock,
with the Ruby code up to the next such statement: nothing that another transaction
could observe or disturb lies between.

Of each order row and wallet there are two versions: the **committed** one (`orders`,
`wallets`) and the one **written by the holder of its lock** (`draft`, `purse`, with the
holders in `owner`, `holder`). An UPDATE locks like a `SELECT ... FOR UPDATE`. `Commit`
publishes the held versions, `Rollback` discards them. A plain SELECT sees the committed
rows and its own writes (`OrdersSeenBy`). The market row is locked by `keeper`; the key-share
lock that an INSERT into `orders` takes through its foreign key is `Sharers`, since it
is what a cancellation's `Market.lock` waits for and what a fill's update does not.

| Code | Actions |
|---|---|
| `OrderMatchingService#call` | `StartPlace`, `Insert`, `ReserveFunds` or `CheckPosition`, `Scan`, `Cross` (the two queries of `resting_for`, with FOK's counting pass), `FillOrder`, `CreditSeller`, `StampMarket` per fill, `FinishPlace` |
| `OrderCancellationService#call` | `StartCancel`, `CancelOrder`, `Unreserve` |
| `SettlementService.settle!`, CLOB | `StartSettle` (the unlocked check), `Snapshot`, `SweepOrder`, `ReleaseSwept` (pass 1), `StartPayout`, `Assess`, `PayWinner` (pass 2), `FinishSettle` |
| `MarketCancellationService`, CLOB | `StartAnnul`, `LockForAnnul`, `LockForVoid`, `VoidOrder`, `StartRefund`, `Refund`, `FinishAnnul` |
| `CloseExpiredMarketsJob` | `CloseExpired`; `Expire` is the clock |
| PostgreSQL | `Commit`, `Rollback`, `Crash`, `DeadlockVictim` |

Some details the model keeps because properties depend on them:

- Active Record writes only the columns that changed. `CancelRow(row, seen)` writes
  `cancelled_quantity` and `status` computed from the copy that was loaded, and leaves
  `filled_quantity` as the row has it now.
- `Solvent` is the validation of `Wallet`: an update that would make a column negative
  raises and rolls the request back.
- `FOR UPDATE SKIP LOCKED` is `Lockable`; queries lock every row they return, also those
  that the loop never reaches.
- A fill against one's own bid goes through the same wallet twice, the second time
  reread under the lock: `AfterFill` composes the two updates.
- The fee is rounded up to a cent, per fill.

What is abstracted there: market legs, audit events, the snapshot projection (its Redis errors
are rescued and it reads only; `HotStorage` has it), messages; the ledger is kept as sums per user and
market (`spent`, `fees`, `won`), which its writers can only change under the user's wallet lock.
Some steps stand for several queries: the net position of a seller (`net_position_service.rb:6-7`)
and the sells that were promised before (`order_matching_service.rb:79-87`) are read in the one step
`CheckPosition`, by `FreePosition`, and the two sums of a winner's position in the one step `Assess`.
At READ COMMITTED another transaction may commit between the queries, which the model does not
show. With one worker nothing can come between; with two, `NoOversell` and `PaidOnce`, which turn on
these positions, fail anyway.

The directions of the ledger's entries are left out. `ORDER_FILL_CREDIT` has the
direction "credit", and the CLOB's specification says that the maker receives it
(`docs/specs/2026-05-27-clob-order-book.md:162,183`), but a fill books it for the stake that it
takes out of the maker's reserved money (`order_matching_service.rb:173-189`): credits less debits
come out too high by twice that stake. `MarketCancellationService` (`market_cancellation_service.rb:86-92`)
counts it as money paid, and so does `spent`: `LedgerExplainsWallets` says that a wallet follows
from the entries *by their types*, which is less than what `README.md:96` promises to those who read
directions (a finding).

## How the house's markets correspond to the code

`HouseTables` has the same workers and transactions, with one representation for all
tables: a row is `[now, new, by]`, its committed value, the value that the lock's holder
has written, and the holder. `Locked` and `Written` take a row, `Published` and `Discarded`
end a transaction, `Seen` is a plain SELECT. INSERT's key-share lock on the market is `Shares`,
which `FreeForUpdate` respects, and `LocksForUpdate` is the same conflict seen from the
INSERT. A wallet carries the sums of its ledger entries by type and by what they refer
to, so that a property can say which bet was paid how often. A run starts with a *load*,
the requests that may be made, once each and in any order, and the crew that serves them.

| Code | Actions |
|---|---|
| `BetPlacementService.place!` | `StartPlace`, `Look` (market, net stake), `Assess` (pre-check of the balance and liability, outside the transaction), `DebitStake`, `InsertBet` |
| `BetslipQuoteService.call`, `BetslipExecutionService.execute!` | `StartQuote`, `Register`, `Lapse`; `StartExecute`, `Claim`, then placement for each item in one transaction |
| `BetVoidService.void!`, `CashoutExecutionService.execute!` | `StartLeave`, `LockBet`, then `RefundStake`, `TouchMarket` or `CashOut` |
| `ParimutuelPoolService.add_stake` | `StartStake`, `BankStake`, `AddToPool` |
| `LmsrTradeService#call` | `StartTrade`, `Price`, `PayTrade` |
| `SettlementService.settle!` | `StartSettle`; fixed odds: `Decide`, `Result` and `PayWinner` per bet; parimutuel: `Divide`, `PayShare` per stake; LMSR: `Decide`, `PayShare` per position; `FinishSettle` |
| `MarketCancellationService#call` | `StartAnnul`, `LockToCancel`, `CreditBet` and `VoidBet` per bet or `CreditPool` per stake or trader, `FinishCancel` |
| `CloseExpiredMarketsJob`, `Admin::MarketsController#update` | `CloseMarket` (`Expire` is the clock), `Patch`, `WritePatch` |
| `WalletGrantService` | `StartReview`, `Approve`, `GrantFunds`, `Reject` |
| PostgreSQL | `Commit`, `Rollback`; `Crash` is also a deadlock's victim |

Kept because properties depend on it: all roundings (`Fee`, `Payout`, `CashoutFee`,
`Takeout`, `PoolShares`, `RawCost`, `SpreadFee`); entries of 0, which the ledger refuses; a
payout ratio that is a float and may lose a cent (`PoolShares` returns both); in-memory
records that are older than the rows (`tx.pool`). `Excess` is the transcendental part of the
LMSR cost function as a table, since C(q) = max(q) + b ln(1 + exp(-gap/b)); beyond `MaxGap`
it is taken for 0, which no run reaches.

## How the parts at the edge correspond to the code

- `HotStorage`: the committed rows of one market, of one mechanism, are the changes made to its
  own row (`columns`), those made to its bets, orders and legs (`sums`), and a version
  (`updated_at`); a snapshot in Redis is a copy of these. A change is made once, by a
  service whose *kind* says what it does:

  | Kind | Service | `updated_at` | Market's row | Projects |
  |---|---|---|---|---|
  | `settle` | `SettlementService` and its handlers | set | held | in its transaction |
  | `cancel` | `MarketCancellationService` | set | held | never |
  | `update` | an admin's update, `market.open` | set | held | after the commit |
  | `close` | `CloseExpiredMarketsJob` (`update_all`) | left | held | never |
  | `place` | a placed bet, a new leg | left | not written | after the commit |
  | `void` | `BetVoidService` (`touch`) | set | held | in its transaction |
  | `stake` | `ParimutuelPoolService` (`increment!`, which leaves timestamps alone) | left | held | in its transaction |
  | `trade` | `LmsrTradeService` (`update_columns`) | set | held | in its transaction |
  | `fill` | a placement that trades (`update_columns`) | set | held from its fill on | in its transaction, the market its request loaded |
  | `order` | a placement that does not | left | not written | the same |
  | `silent` | a cash-out, the cancellation of an order | left | not written | never |

  `LoadRequest` is where the request of a placement loads the market; `Begin` is the write of a
  change with the copy that its service goes on with: the row under the lock, or, for a placement,
  that older market with the new `updated_at`. `build_snapshot` is two steps, `LoadMarket` (or
  `Begin`) and `SumUp`, because it is several queries: a copy may be torn. The job loads the
  market (`Reconcile`) before it reads Redis (`Compare`). Redis may refuse any write, a
  transaction may fail after it has projected (`Undo`). Versions are only compared for equality;
  they are numbered in the order in which transactions write the row, and assumed to differ
  although they count milliseconds. A settlement or cancellation is taken to change bets or
  orders as well as the row, also of a pool or a market maker, of which snapshots sum up none.
- `Client`: one tab of a browser. A script runs to its end, so a step is a click, a frame
  or a timer. `Set` is `theme.set` with all that listens to it; `Visit` loads a page of some layout.
- `Canvas`: `state.sections` against the file beside the page. Rendering and the effects that
  follow an event are one step; the read, the 150 ms view, the 180 ms commit of a drag and
  the 250 ms write are steps of their own, in any order the timers allow. `source` may be
  another revision at each visit.
- `Viewport`: `DCViewport` and the messages between it and the host. The host (external) shows
  the last scale it was told, and resets itself and probes on the frame's load event.
- `FontExport`: how `dcExport` gathers fonts: `WalkAll` walks the sheets it may read, `Fetched` and
  `FetchFails` are answers in any order, `Await` is the loop over the list of promises.

`Edge` composes them as alternatives: `part` says which one a behaviour is about, since
they share nothing and an interleaving of them would show nothing.

## Instances

**CLOB.** `MCClob` gives the tickets: each is chosen so that some cross, some do not, some improve
on others, and some meet a wallet that cannot pay. All instances have one market: two
markets share only wallets, and a lock on a wallet already meets every other request.
Prices are multiples of ten because only sums and comparisons with 100 matter; the
fee is the highest one allowed, 2%, which is one to two cents on these stakes.
Bounds: `MaxOrders` (rows inserted in a run), `Tickets`, `Ops` (kinds of requests) and
the number of workers. Four rows are enough for a position to be made (two rows), one
order resting and another racing it; two workers are enough for every pairwise race
and for a cycle of lock waits; three users so that a fill can have a bystander.

| Run | Workers, rows | Requests | Checks |
|---|---|---|---|
| `SerialBook` | 1, 4 | bids, cancellations | `BookUncrossed`, `PriceTimePriority` |
| `SerialFinal` | 1, 4 | all | `NoOversell`, `PaidOnce`, `MadeWhole`, `ClosedBooksAreEmpty`, `Collateralised` |
| `RacingTrades` | 2, 4 | bids, cancellations | `RowsAddUp`, `ReservedBacksOrders`, `TakersNeverRest` |
| `RacingSells` | 2, 4 | bids, sells, cancellations | `RowsAddUp`, `Collateralised` |
| `RacingAll` | 2, 3 | all | `EngineInv`, `ContractsPair`, `LedgerExplainsWallets`, `FillsAreKept` |
| `Progress` | 2, 2 | all, fair | `RequestsEnd` |
| `FindRestingSell` | 1, 4 | bids, sells | refutes `ReservedBacksOrders` |
| `FindDoubleSettle` | 2, 2 | bids, settlements | refutes `PaidOnce` |
| `FindBlockedBook` | 1, 4 | bids, sells | refutes `BookUncrossed` |

**House.** `MCHouse` has two customers, two fixed-odds markets (odds 1.0 and 0.4 per unit
staked, fee 2%, a cap that two bets reach), a pool with a takeout of 10% and a market
maker with a subsidy of 1 ADIV. `AllLoads` are fourteen loads:

| Workers | Loads |
|---|---|
| 1 | bets, every way out of a bet, and expiry; a betslip of three items on two markets, its execution, a void and a settlement; a bet that wins nothing, in a market that an admin reopens or makes a draft; a pool; the market maker; faucet requests and a bet that needs their money |
| 2 | a market that is settled or cancelled while bets are placed and voided; one that is settled, reopened by an admin and settled again; one that an admin sets to settled or to draft by hand meanwhile; voids and cash-outs of the same bets; one idempotency key asked for twice and executed twice; stakes and a settlement; trades and a settlement; three reviews of one faucet request |

Bounds: `MaxBets = 3`, so that a market holds a winner, a loser and a bet in between;
`MaxStakes = 3`, two winners to share and a loser; two workers for every pairwise race.
`FindPaidTwice` has one load: a bet, its cash-out and the settlement, on two workers.
CHECK_DEADLOCK is off since a run may stop when its load is served.

**Edge.** `HotStorage`: a market of any mechanism and a change of each of the eleven kinds, two of
which are begun in a run (`MaxBegun`: one that a copy misses and one that gives the copy its
version; `VersionsIdentify` is proved for any number), a reader and the job, which come again and again. `Client`: a light and a dark layout, two scrims (two is where a timer can meet the wrong one), four
listeners. `Canvas`: three sections, two revisions of the source that differ in an
artboard and in order, two edits. `Viewport`: three steps of scale, two positions,
two messages each way. `FontExport`: all documents of three style sheets. CHECK_DEADLOCK
is off: an export ends.

| Run | Checks |
|---|---|
| `House` | `TypeOK`, `BetsPaidOnce`, `SlipsAllOrNothing`, `NothingLeftOpen`, `GrantedOnce`, `PoolMatchesStakes`, `PoolPaysOut`, `PathIndependent`, `PositionsPaid`, `CancelMakesWhole`, `LedgerExplainsWallets`, `QuotesKept`, `CapKept`, `PromiseKept` |
| `FindPaidTwice` | refutes `BetsPaidOnce` |
| `Edge` | `EdgeTypeOK`, `VersionsIdentify`, `TruthAtLast`, `ThemeAgrees`, `ScrimServesSheet`, `UntouchedKept`, `ArtboardsReachable`, `HostAgrees`, `FontsComplete` |

The *Serial* runs say what the services promise when requests do not overlap; the
*Racing* runs what remains when they do. Where a run has no deadlock check the system
may really stop: all rows are used and all markets ended. Where TLC does check for deadlock this
says little, since a worker can nearly always crash or take a request; that no request
is stuck is what `Progress` checks (`RequestsEnd`): with two rows, where a wallet and an order may
be locked in either order, but not the four that two placements need to wait for each other's wallets.

Crashes and deadlock victims are steps of every run. A victim is any worker on a cycle
of the waits-for graph, as PostgreSQL's detector may choose any of them.

### What the runs show

- Quantities, pairs, the ledger and the committed fills survive every interleaving
  checked, including those in which settlement and cancellation work on stale rows.
- `NoOversell`, `PaidOnce` and `ClosedBooksAreEmpty` need requests not to overlap: with two
  workers two sells (TD-034 of `docs/wiki/tech-debt-backlog.md` knows of these) or two
  settlements (`FindDoubleSettle`) pass their unlocked checks, and an order checked
  against an open market is inserted into a settled one.
- `BookUncrossed` is checked for bids of one worker. With two workers `SKIP LOCKED` lets
  crossing bids pass each other. With resting sells it fails even for one
  (`FindBlockedBook`): the loop of `match!` ends at the first incompatible row, and a
  sell that is too dear stands before the opposite bids that would match.
- `TakersNeverRest` is checked for bids. With two workers and sells a FOK order's second
  query can meet such a sell that was locked during its first one, stop early, and leave the order
  resting with a remainder, since `apply_tif_cancellation!` looks at IOC orders only.
- `RowsAddUp` is not checked together with settlement: a fill that commits between the
  sweep's query and its save is counted as cancelled as well, since `CancelRow` is computed
  from the stale copy, so `filled + cancelled` exceeds the quantity (the model's validation
  in `order.rb:25-31` looks at the stale copy too). The committed fill itself survives:
  `FillsAreKept`, checked and proved.
- `ReservedBacksOrders` is checked for bids only. With resting sells it fails even for
  one process (`FindRestingSell`): `match!` looks at the incoming order's direction, so
  a bid that meets a resting sell is filled as if the sell were a bid, out of a
  reservation the seller never made.
- A cancellation refunds fees (`market_cancellation_service.rb:96-98`), although
  `docs/specs/2026-05-30-market-cancellation.md:29` says they are not refunded;
  `MadeWhole` states what the code does, in markets where no one has sold at a profit
  and lost the proceeds elsewhere.

About the house's markets:

- A bet is paid for once and returns once, what its status says, whatever placement, void,
  settlement, cancellation and reopening do at the same time (`BetsPaidOnce`); and seen in
  committed rows it is placed and then decided in one step together with its money
  (`PromiseKept`: `House` implements `BetBook` under the mapping of `Promise`). What holds the two ends
  together is the market row: settlement and cancellation take it before they load the
  bets, and a void touches it before it commits. The mutants take each half away. A
  cash-out does neither, and is paid again by a settlement that overlaps it
  (`FindPaidTwice`).
- A betslip is placed whole, once, or not at all; its key keeps what was first asked.
- LMSR trades are priced under the market's lock: the sum of what was paid depends on
  where the quantities are now and not on the order of trades (`PathIndependent`), which is what bounds
  the loss by the subsidy and a half cent a trade. The guard of
  `lmsr_trade_service.rb:40-46` is never reached, since no trade pays the trader.
- Properties that begin with `Alone` (`CapKept`, `NothingLeftOpen`, `PoolPaysOut`, `CancelMakesWhole`, the
  payouts of `PositionsPaid`, the rejected requests of `GrantedOnce`) hold for one worker and are broken by a second:
  two placements fit the cap one by one; a bet is inserted, or a stake or trade made,
  after the market ended, since its status was read before; two settlements of a pool or
  of the market maker pay twice, since both handlers write the market without rechecking
  it; a rejection overwrites an approval. `PROJECT.json` lists these as findings.
- `LedgerExplainsWallets` leaves the cash-out's fee entry out: no wallet ever paid it.

About the edge:

- A snapshot may be torn, older than the rows, or of a transaction that was rolled back,
  and the reconciliation job skips what has the right version. What that tells the job is
  `VersionsIdentify`, proved: the snapshot has those settlements, cancellations, updates,
  voids, trades and fills that are committed, and no others. It does not tell that the snapshot is
  true, for two reasons. Half of the changes leave `updated_at` alone: stakes, whose
  `increment!` skips it, the close job's `update_all`, bets, legs, cash-outs, and orders
  that do not trade (`Promised` says what is promised). And a placement projects the market that its
  request loaded, under the version of its own fill, so that in an order book the status that the
  snapshot shows may be older than its version; the property leaves the columns of order books
  out, and TLC refutes it when they are put in. All of this is stale until the
  snapshot is written again or expires: `TruthAtLast` holds because of the expiry, whatever
  the versions are.
- `ScrimServesSheet` is claimed of users who do not reopen a sheet within 250 ms, and
  `UntouchedKept` as long as no read of the file fails: without these the code breaks
  both (findings).
- The theme agrees on every page, the host's toolbar shows the canvas's scale whenever no
  message is on its way, all artboards can be reached, and an export has the fonts of
  every sheet it could get, in whatever order answers come.

Each property of a passing run has a mutant, a definition of the model changed the way
a plausible bug would change the code, that the run refutes it with; mutants stand in
front of the definitions they change, marked `Mutant:`.

### Fairness

`RequestsEnd` assumes strong fairness of each worker's `Step` and weak fairness of the
deadlock detector. PostgreSQL queues lock waiters, so a statement that can proceed again
and again is not overtaken forever, which is strong fairness of the step that takes
the lock; statements that wait for nothing run because the process does. The detector
runs `deadlock_timeout` after a wait began and a cycle does not go away by itself. Clients are
not assumed to send requests, nor processes to crash.

`TruthAtLast` assumes `HotFairness`: a request that has begun runs on (weak fairness of the steps of each
actor, which wait for nothing), and Redis expires what was written with a TTL of 120
seconds. Nothing is assumed of the reconciliation job, which `config/recurring.yml` does not
schedule, nor that a change is ever begun.

## Proofs

Every theorem holds for all values of the constants that satisfy the named ASSUMEs of the
modelling modules, which TLC evaluates on every instance; a hypothesis beyond these is part
of the theorem's statement and named below.

### Sums

Money and contracts are sums over users, orders, markets or ledger lines. `SumLemmas` says
what `SumFunctionOnSet` yields when the set or the function changes at one place, and
compares and combines sums. A fact about all finite sets cannot be proved with the library's
induction theorem, which takes the fact as an operator; `FiniteInduction` takes the *set* of subsets
that the fact holds of and finds a minimal counterexample by well-foundedness of the
subset ordering. `FiniteAssumption`, in `ClobBook` and `HouseTables`, states that users and
markets (and the house's workers) are finitely many.

### CLOB

| Theorem | Says | Hypothesis | Module |
|---|---|---|---|
| `EngineIsSound` | `Spec => []EngineInv` | | `ClobEngineProofs` |
| `TypeCorrectness` | `Spec => []TypeOK` | | `ClobEngineProofs` |
| `FillsAreNeverLost` | `Spec => FillsAreKept` | | `ClobEngineProofs` |
| `ClobLedgerExplains` | `Spec => []LedgerExplainsWallets` | | `ClobEngineProofs` |
| `ContractsComeInPairs` | `Spec => []ContractsPair` | | `ClobEngineProofs` |
| `OrderRowsAddUp` | `Spec => []RowsAddUp` | no settlement | `ClobTradeProofs` |
| `PairsArePaidFor` | users have paid for every pair of contracts there is | | `ClobTradeProofs` |
| `ContractsAreCovered` | `Spec => []Collateralised` | no settlement, no market cancellation | `ClobTradeProofs` |
| `ReservationsBackOrders` | `Spec => []ReservedBacksOrders` | the same, and users only buy | `ClobTradeProofs` |
| `FokIsAllOrNothing` | `Spec => []TakersNeverRest` | users only buy | `ClobTradeProofs` |
| `FinishedBooksAreEmpty` | `Spec => []ClosedBooksAreEmpty` | one worker | `ClobSerialProofs` |
| `NothingIsOversold` | `Spec => []NoOversell` | one worker | `ClobSerialProofs` |
| `SettlementsPayOnce` | `Spec => []PaidOnce` | one worker | `ClobSerialProofs` |
| `BestBidsFirst` | `Spec => PriceTimePriority` | one worker | `ClobSerialProofs` |
| `BooksAreUncrossed` | `Spec => []BookUncrossed` | one worker, and users only buy | `ClobSerialProofs` |
| `SerialRowsAddUp` | `Spec => []RowsAddUp` | one worker | `ClobSerialProofs` |
| `SerialReservations` | `Spec => []ReservedBacksOrders` | one worker, and users only buy | `ClobSerialProofs` |
| `CancellationsMakeWhole` | `Spec => []MadeWhole` | one worker, and one market or users only buy | `ClobSerialProofs` |
| `PlatformStaysSolvent` | `Spec => []Collateralised` | one worker, and one market or users only buy | `ClobSerialProofs` |

The hypotheses are about `Ops`, `Tickets` and `Workers`, and the runs that check the same
properties satisfy them (`RacingSells`, `RacingTrades`, `SerialBook`, `SerialFinal`). They are there because of what the code does:

- a settlement writes `cancelled_quantity` from the copy it has loaded without a lock, so that a
  fill which commits in between is counted as cancelled too. A market cancellation
  does the same, but holds the market row, which keeps fills out; `OrderRowsAddUp` covers it;
- a cancellation takes back the proceeds of sells only as far as the wallet has them
  (`market_cancellation_service.rb:122-135`), and two settlements pay twice
  (`FindDoubleSettle`), so that money is short of the pairs on the other markets;
- a bid that meets a resting sell is filled out of a reservation the seller never made
  (`FindRestingSell`); with sells a FOK order's second pair of queries may also meet rows that
  the first did not count, as *What the runs show* says; and a market cancellation releases again what an order was
  released for that was cancelled between its load and its void
  (`market_cancellation_service.rb:77-86`);
- with two workers, a placement that has looked at the market before it is settled inserts
  its order afterwards, two sells that are checked at once promise the same contracts, and two
  settlements of one market both pay (`FindDoubleSettle`); and `SKIP LOCKED` passes over the bids that
  another placement holds, and does not see those that are not committed, so that two that match rest side by side. One worker,
  `OneWorker`, is the hypothesis of
  the last nine; it is the crew of `SerialBook` and `SerialFinal`. Requests, users, markets,
  prices and funds stay arbitrary, and every statement of a request may still fail, be the last
  before a crash, or follow one;
- the loop of a placement ends at the first row that is not compatible, also at a resting sell
  that is too dear, and so leaves bids behind it that are compatible: with sells a book may be crossed (`FindBlockedBook`);
- a clawback stops at what is available. Whoever has earned on a market by selling and has tied
  the money up on another keeps it when the first is cancelled. If there is one market, its
  orders are void by then and all is available; who only buys has nothing to be clawed back.
  `OneMarketOrBids` is one or the other.

*The transactions.* `TypeOK` types balances, reservations, fees and amounts due as naturals, so
it says that no interleaving makes one negative. Neither it nor `FillsAreKept` is inductive.
That `filled` never shrinks when a lock
holder commits needs to know that its draft *extends* the committed row
(`DraftsExtend`); that a fill writes such a draft needs to know that the copy in the
placement's batch is the current row and its lock is held (`PlacementOK`), and that
something is left to fill in it (`RowOK`, `BatchOK`), or else the amount released would be negative
and `due \in Nat` would fail; and each of these needs to know which request a worker
at a given statement is serving (`Serving`). Their conjunction with `TypeOK` is
`EngineInv`, which `RacingAll` also checks.

The argument has one lemma per action. Most actions change little, so frame lemmas
come first (`QuietStep`, `StartStep`, `LoadStep`, `PlainStep`, `SkipStep`, `QueryStep`,
`CancelRowStep`): if only these variables change, and in this way, the invariant holds
again. `RollbackStep` and `CommitStep` carry the transaction's end, and `StepInv` and
`NextInv` put the actions together. The module begins with lemmas about the operators: what a
fill, a cancellation and the wallet operations return. `EngineSteps` then divides the steps
for all later proofs into statements of one worker, commits, rollbacks, and what
changes none of this.

*Ledger.* `LedgerInv` says of the committed wallet and of the one a lock holder has
written that it equals what its owner was granted plus its sums by market. Each wallet operation
keeps that, since it moves a column and its entry by the same amount.

*Pairs.* A fill writes two rows, and the two become visible together or not at all, because one
transaction holds both. `Booked(f)` sums a count `f` of contracts over the committed rows
and `Pending(f, w)` what w's drafts would add to it; `PairInv` says that YES less NO is 0 in each of these.
A fill between two bids adds as much on either side, one with a sell moves contracts. Sweeps
and voids write rows without changing what is filled, whatever copy they have loaded.

*Rows.* `WholeInv` says that filled and cancelled add up to no more than the quantity in the
committed and in the written row, and exactly to it in a row that is off the book. For a void
it needs that the copy it has loaded still has the row's filled quantity: `AnnulAlone`
and `AnnulSees` say that whoever holds the market row exclusively meets no
other fill, and `VersionsAgree` that draft and row differ only for those who share it.

*Collateral.* `BackedInv` says of each market that users have paid at least 100 cents for every
pair, in what is committed and in what each transaction would add (`Backed`), but for the
proceeds that a transaction still owes to a seller (`Due`). A fill of two bids takes at least 100
cents for each pair it makes, because the two prices are compatible and each pays at
least its own; a sell moves a contract, and its fee is a loss to the users. Settlements and
cancellations of markets pay out, but what was paid in they leave alone (`PaymentWriters`), so that
`PairsArePaidFor` needs no hypothesis. `Covered` sums it with the ledger over the markets: if on
each market the users' gains (`Gains`) and what its pairs are still worth (`Payable`) come to no more than
0, the platform can pay. On a market that has paid nothing out they do (`LiveCovered`), which is
`ContractsAreCovered`. With one worker it also goes for a settled market, where every YES or every NO
was paid 100 cents and nobody has paid less for the pairs (`SettledCovered`), and for a
cancelled one, where everyone has back what they paid (`CancelledCovered`): `PlatformStaysSolvent`
puts `SettlementsPayOnce`'s invariant, that of `CancellationsMakeWhole`, pairs and backing together.

*Reservations.* `TiedInv` says that each user's reserved column is what their open orders would still
cost at the orders' own prices, in what is committed and in what each transaction would add
(`Balanced`), but for what a transaction has written to a row and not yet to the wallet (`Debt`):
the reservation of an order just inserted, the release of one just cancelled. That these
are the amounts rests on `RowsAddUp`, and so `WholeInv` is part of it.

*FOK and IOC orders.* A row that its placement has not finished is open and invisible; every other
row, committed or written, is as the property says (`TakerInv`). The step that needs a reason is
the end of a FOK order's loop: nothing that it may take is left, and it must be filled. `Supplied` follows it
from its first query, which has counted enough in the rows that it then holds
(`Counted`), over the second, which meets at least these, to the loop, where what is left of the batch
suffices for what is left of the order (`Stocked`), since a fill takes the same from both. The loop
ends at the first row that is not compatible; that it ends only when none is needs the rows to be sorted
(`FirstBid`).

*One worker.* With one worker every lock is free or its own (`SoleHolder`), so that `draft` and
`purse` are all it sees; a commit makes them the committed state (`ViewCommitted`), a rollback
the other way round (`ViewDropped`). What a transaction must leave behind is therefore an
invariant of `draft` and `purse`, with what is still missing while it is under way.

*Finished books.* A row that is active is on a market that lasts, in what is committed and in what the
worker has written (`OnLiveBook`). A settlement or cancellation publishes rows and status together,
so that `BookSwept` says how far it is: every active row of the market is in the batch it has yet to
visit, and the batch is empty once it pays. A placement finds its market as it was when it looked
(`MarketLasts`), which a second worker would break.

*Positions.* `Spare` is what a row adds to the contracts that its user holds and has not promised: what a
buy was filled, less what a sell was filled or still offers. `NoOversell` says that its sum over the rows is never
negative, and `SpareInv` says it of both versions of the rows. A fill of a sell leaves the sum as it is,
other writes can only add to it, and a new sell takes from it what the check of the position, the next
statement, finds or rolls back; in between it is the sum of the other rows that is not negative
(`Promise`).
`SpareSum` relates the sum to what `NetPositionService` computes. One case is odd: a user's own
bid may take from their own sell, and both rows are the user's.

*Payouts.* While a settlement runs, those it has yet to visit (`Unpaid`) have won nothing on its market and the others
the payout of their position (`PaidSoFar`), whoever failed before: a rollback takes the wallets back with the
market's status. That the service skips users whose position is not positive pays them
what they are due only if nobody is short, which is `NothingIsOversold` (`NeverShort`). Once the market
is settled, its orders are not filled again (`Frozen`), and so positions stay what was paid for.

*The queue.* With nobody else's locks to skip, the last query of a placement lists every bid that
its order may meet, and a fill that leaves something of the order takes its bid off the book, so
that until the order is filled up all of these are in the batch (`BookLoaded`). The loop takes the first of
the batch, and `BestFirst` says of the written rows that whatever was filled since the
transaction began had nothing active ahead of it; its commit is the step that `PriceTimePriority` is about.

*The book.* `ApartInv` says that no two rows meet, committed or written, but for the row that the
worker is still matching (`Incoming`). When its loop ends, either nothing is left of that row or the first bid
of the batch is not compatible, and then none is, because the first offers the best price.

*Rows and reservations with settlements.* What a settlement or a cancellation has loaded and not
yet visited is as it was (`Current`), so that what it writes adds up (`WholeBooksInv`) and what it
releases is what the row still ties up. `TallyInv` compares each wallet's reserved column with what
its owner's open orders would cost, in the committed state and in the worker's view, but for the
`Debt` of the statement in between. The gap is never negative (`Fits`), and 0 if users only
buy: a resting sell that fills is charged to its owner's reservation, which then holds less than the bids need.

*Cancelled markets.* `RefundInv` follows a cancellation: nobody has been paid on its market
when it begins, and those it has visited have been paid their outlay (`RefundedSoFar`). A
clawback is paid in full because all that its user has is available by then (`AllAvailable`): the sweep
is over and so nothing is reserved (`NothingHeld`, by `TallyInv`), and the ledger, with a single market, makes what is
available the grant less the outlay. Only a placement on a market changes outlays on it, and only
while the market lasts (`Spends`, `MarketLasts`), so that they stay paid back (`Refunded`). Once every
market is cancelled the ledger's sums are 0 and no order is active.

### Edge

`EdgeProofs` proves, for any constants that satisfy the parts' assumptions,

| Theorem | Says | What the invariant adds |
|---|---|---|
| `HotTyped` | `Spec => []HotTypeOK` | |
| `VersionsAlwaysIdentify` | `Spec => []VersionsIdentify` | see below |
| `PagesShowOneTheme` | `Spec => []ThemeAgrees` | types only: it is inductive with them |
| `ScrimsServeSheets` | `Spec => []ScrimServesSheet` | an open sheet's scrim is leaving for no timer; one of a closed sheet is |
| `UntouchedSectionsKept` | `Spec => UntouchedKept` | once the file is read, the state has its sections where nobody edited, and a delayed write writes the state |
| `HostAlwaysAgrees` | `Spec => []HostAgrees` | the last scale on its way is the canvas's, or the host still loads, or its probe is on its way |
| `FontsAreComplete` | `Spec => []FontsComplete` | what has been scraped is what the page and the sheets that were got import, and it is settled or awaited |

`EachPart` derives the parts' own specifications from `Edge`'s, since they share nothing.

`VersionsIdentify` compares the snapshot with the rows, and is not inductive: what is written
next is a copy that some actor made earlier, and what is committed next is an open change. The invariant
`HotInv` therefore says of the snapshot that it agrees with the rows of its version, the
committed ones or those that an open change is about to commit (`SnapshotFits`), of an open
change that its copy has what it will commit (`OwnCopies`), and of any other copy that it has what is
committed (`CopiesFit`), each as far as the copy has been made. The reason is that versions are drawn
from the clock (`VersionsDrawn`) by changes that hold the market's row until they commit
(`RowHeld`), so that one is drawn at a time and is later than any other (`Ahead`); a change that
draws none adds nothing that a version promises (`UntouchedAddNothing`). It is not needed that a
version's copy is fresh, which it is not for placements. Each action has a lemma;
`ActorStepKeeps` is the frame lemma for the steps of one actor that leave the rows alone.

Which sheets an export must have is `Reached`, the least set that holds the page's own
sheets and is closed under the imports of what can be read (`Closed`); graphs of imports may have
cycles. What the walk has visited is inside every closed set, and when nothing is left to await it is one.

### House

For every set of users, markets, slips and workers, any terms of the markets, any loads and any
bounds on bets and stakes:

| Theorem | Says | Module |
|---|---|---|
| `HouseTypes` | `Spec => []TypeOK` | `HouseStepProofs` |
| `HouseHeldAlways` | rows are locked before they are written unseen | `HouseStepProofs` |
| `QuotesAreKept` | `Spec => QuotesKept` | `HouseStepProofs` |
| `GrantsPaidOnce` | `Spec => []GrantedOnce` | `HouseStepProofs` |
| `BetsHeldAlways` | a bet loaded by a settlement or cancellation is open until written | `HouseBetProofs` |
| `BetsArePaidOnce` | `Spec => []BetsPaidOnce` | `HouseBetProofs` |
| `PromiseIsKept` | `Spec => PromiseKept`: `House` implements `BetBook` | `HouseBetProofs` |
| `SlipsArePlacedWhole` | `Spec => []SlipsAllOrNothing` | `HouseBetProofs` |
| `NothingStaysOpen` | `Spec => []NothingLeftOpen` | `HouseBetProofs` |
| `TheCapIsKept` | `Spec => CapKept` | `HouseBetProofs` |
| `LedgerExplains` | `Spec => []LedgerExplainsWallets` | `HouseMoneyProofs` |
| `TakingsFollowTheCost` | `Spec => []PathIndependent` | `HouseMoneyProofs` |
| `PoolsMatchStakes` | `Spec => []PoolMatchesStakes` | `HouseMoneyProofs` |
| `PositionsArePaid` | `Spec => []PositionsPaid` | `HouseMoneyProofs` |
| `CancelledMarketsMakeWhole` | `Spec => []CancelMakesWhole` | `HouseMoneyProofs` |
| `PoolsPayOut` | `Spec => []PoolPaysOut` | `HouseMoneyProofs` |

`BetsHeldAlways`, `BetsArePaidOnce` and `PromiseIsKept` assume `CashoutsApart` of every load: a cash-out does not run at the same time as
a settlement or a cancellation. The assumption is needed, because `FindPaidTwice` is a run
of a load without it that pays a bet twice. `PoolsMatchStakes` assumes `PoolsStayCancelled` of
every load: an operator does not patch a market that is being cancelled, nor settle it in another process. It is
needed too: a cancellation refunds the stakes and empties no pool, so a patch that reopens the
market, or a settlement that read it as open before, leaves a pool whose stakes have gone
back; TLC finds both with one stake and two or three more requests. `NothingStaysOpen` assumes
`PatchesDecideNothing`: in a load for one worker an admin does not set a market's status to settled or to
cancelled by hand. `Admin::MarketsController#update` (34, 81) allows both; each ends the market, pays
nobody and leaves its open bets where neither service will look for them (a finding). Patches to draft,
open or closed are not restricted. The last three theorems assume `EndsStand`: an admin patches the status of no
pool and of no market of the market maker, and none of these is both settled and cancelled by two
workers. Both are needed: a market that a patch reopens is settled and paid again, and a settlement
that read the status before a cancellation committed writes "settled" over it, when the contracts are
gone. `MCHouse` asserts all four of all loads of the run `House`.
Nothing else is assumed of what runs together: any number of settlements and
cancellations of the same market, updates by an admin that reopen it, voids, placements,
betslips and crashes.

*Types.* `TypeOK` is not inductive: a statement names rows through its request and through
variables that earlier statements of the request set. `HouseTyped` adds `Serving`, which
request can be at which statement and what its loop visits, and `QuotesAsk`, that a quote which
exists has items. That wallets stay natural follows from the guards that PostgreSQL's
check constraints stand for, that pools and shares do from the signs of `PoolShares` and
`RawCost`.

*Locks.* `HouseHeld` adds which rows a worker holds at which statement. The frame is
`OwnStep`: within a request a worker changes no committed value, and writes or locks only
rows that are free or its own; `StepKinds` divides the steps into these, commits, rollbacks
and those of the clock and the close job. All later proofs are one case per kind, and
one per action only where the action matters.

*Quotes and the faucet.* The draft of a quote repeats its items (`QuoteDrafts`). For a
faucet request, `ReviewOK` says that who has paid it in an open transaction holds its row and has
marked it approved, so that two approvals cannot both pay; that a rejection overwrites
neither holds with one worker only, as `GrantedOnce` says, and needs crews to be finite,
which `MixesAssumption` states.

*Bets.* Settlement and cancellation load bets without locks, so that nothing they hold
protects the bets themselves. `BetInv` says why they are open all the same. Whoever holds a
bet is a placement, whose bet is not committed and which the loop has not seen; a void,
which at the latest when it commits holds the market too (`HolderOK`, the `touch` in
`BetVoidService`); a cash-out, which by assumption is not there; or another settlement or
cancellation, which holds the market. And a worker in the loop holds the market (`LoopOK`).

*The promise.* Bet and wallet are written by different statements, and in either order: a winner is
written and then paid, the bet of a cancelled market is credited and then written. `Shown` is
the bet as far as the transaction has paid for it, `ViewOK` says that the ledger which
the transaction sees agrees with it, and `ForeignOK` that a wallet it has written says of
others' bets what it said before. With `BetsPaidOnce` they are inductive (`MoneyInv`).
When a transaction commits, what it saw becomes what everyone sees, which gives
`BetsPaidOnce` again and, with `Moves`, a step of `BetBook`: bets that it wrote
were placed or decided, the others are as they were. Any other step keeps `Book`.

*Betslips.* An execution holds its quote from its first statement on (`ExecutionOK`, `QuotesHeld`),
and what it has inserted and has yet to insert make up the quote's items: for some n its inserted rows
are the first n items, one for one (`Matched`, a bijection between indices and rows), and its
variables hold the others. Only with the last item does it mark the quote and reach the commit, which
shows the rows and the mark together; until then no committed bet bears the slip (`SlipKept`).
That a placed bet keeps its ticket and its slip through voids, cash-outs, settlements and
cancellations is `SlipRows`; that these only write rows which are there is `FoundOK`. That as many rows as items
bear each ticket follows from the bijection. Nothing is assumed of the loads.

*One worker.* `NothingLeftOpen` and `CapKept` speak of crews of one, and rest on what the worker sees in
its transaction. `DecidesAll` says that of a market which has ended as it sees it, the open bets it
sees are those that its loop has yet to visit: the loop loads the bets by the statement that ends the
market (`EndingDecides`) or after it, each turn closes one (`LoopDecides`), and no bet is
inserted meanwhile because a placement has looked at the market first (`BetsInTime`). `CapOK` says
that a placement sees no market beyond its cap, and that the bet which it has assessed, as
number 0, would not take it there; inserting the bet gives it an id, and `LiabilityRenamed` says
that the liability does not depend on ids. In both, a commit makes what the worker sees what
everyone sees. With two workers neither holds (*What the runs show* says which races break them).

*Ledger.* `Net` is what the ledger does not explain of a wallet. Each statement leaves it as it is
in the wallet that its transaction sees, with one exception: the stake of a bet is taken by one
statement and booked by the next, and between the two it is `Owed`.

*Market maker.* `Priced` says of the committed row of a market and of the written one that what trades
have paid is the rise of the cost function, within half a cent a trade; `Quoted`, that the
price a transaction is about to take is the one for the shares that the row has under its lock.
The costs of successive trades telescope.

*Pools.* That the columns of a pool are the sums of the committed stakes is not inductive: a commit
publishes a stake and a pool together. `StakeOK` says that a transaction which has made a stake has one
new row and no other, `PoolWritten` that the pool it has written is the committed one with that
stake added, and that whoever else holds the market leaves its pool alone or cancels it for good.
The requests that there are come from one load, the one the behaviour began with (`Fits`), and
`PoolInv` is about it.

*Payouts.* That the shares of the market maker are the contracts held, up to a cancellation, is proved for any number of
workers (`ContractsInv`): a purchase adds to both, and only a cancellation takes contracts away, after which no
settlement writes the market. The rest is for one worker. `Square` relates what a user's ledger says
of a market to the user's stakes, costs and contracts and to the market's status, when those in `left` are yet to be
paid. It holds of the committed rows with nobody left (`SquareNow`), and of what the worker sees
with the rest of its loop left (`SquareFor`); a commit makes the second the first. One detail of the code
shows: a pool is marked as settled after its stakes are paid, so that `MarketFor` reads it as
settled from the first of them on. `Timely` is what one worker is enough for: the status it checked is
still the status, and the pool it divides is the sum of the stakes that it pays (by `PoolInv`).
That what is paid falls short of the pool by no more than a cent a winning stake is arithmetic:
each share is rounded down (`ShareBounds`), shares of one user add up (`SharesTogether`), and so do those of
all (`PoolDivided`).

### Only model-checked

- Liveness, which is out of TLAPS's reach: `RequestsEnd`, `TruthAtLast`.
- `EdgeTypeOK`: a ticket's payout is a quotient of two variables, whose type the SMT
  solver does not find; the types of the other parts are lemmas of `EdgeProofs`.
- `ArtboardsReachable`: the focus moves through filtered sequences, and what `SelectSeq`
  returns is recursive.

## Not modelled

- Authorization, price history, server-sent events, web pages, sessions, catalogs, seeds:
  queries and I/O without state of their own; a model would restate them line by line.
- Drafts, templates and the forms of the backoffice: edits of one row. Of an admin's update,
  only the status is modelled, not the other columns that it may change (caps, fees, texts).
- How the operator's buyback picks its price, and the events that are appended to Redis
  and audited, which no code reads back.
- Of the front end: drawing (charts, order books, the exported picture), the geometry of
  zooms and drags, layout, and the random ticks of the demo. The wireframes
  (`wireframes-*.jsx`, `wireframe-kit.jsx`) and the design system's React files are static
  markup, `v2/design-canvas.jsx` is byte for byte `v1/design-canvas.jsx`, and
  `docs/design/system/assets/adivento.js` is an earlier copy of the page script. Most of the
  repository's JavaScript is of this sort; the logic of the system is in the Ruby services.

------------------------------ MODULE HotStorage ------------------------------
(***************************************************************************)
(* The snapshot of a market in Redis against its rows in PostgreSQL:       *)
(* HotStorage::MarketSnapshotProjector, MarketSnapshotReader and Store,    *)
(* ReconcileMarketHotStateJob, and the services that change the rows.      *)
(*                                                                         *)
(* What rows hold is the set of changes made to them: those of the         *)
(* market's own row, which is loaded in one piece, and those of the bets,  *)
(* orders and legs, which the projector queries later.  Each change is     *)
(* made once, by a service that differs from others in what it does with   *)
(* the row, its updated_at and the snapshot.  Redis may fail at any call.  *)
(***************************************************************************)
EXTENDS Integers, FiniteSets

CONSTANTS
    Changes,    \* what services do to the market
    KindOf,     \* [Changes -> Kinds]
    Readers,    \* requests that read the snapshot, again and again
    Reconciler, \* the reconciliation job
    Nothing,    \* no snapshot; nobody
    MaxBegun    \* bound: changes made in a run

Mechanisms == {"fixed_odds", "parimutuel", "lmsr", "clob"}

\* In a market of any mechanism: settle, a settlement; cancel, a cancellation; update, an
\* admin's update; close, the close job; place, a placed bet or a new leg.
Common == {"settle", "cancel", "update", "close", "place"}

\* void: a voided bet; stake: a stake in a pool; trade: a trade with the market maker; fill:
\* the placement of an order that trades, and order: of one that does not; silent: a
\* cash-out, or the cancellation of an order.
Own == [fixed_odds |-> {"void", "silent"}, parimutuel |-> {"stake"}, lmsr |-> {"trade"},
        clob |-> {"fill", "order", "silent"}]

Kinds == Common \cup UNION {Own[m] : m \in Mechanisms}

ASSUME KindsAssumption == KindOf \in [Changes -> Kinds]
ASSUME BegunAssumption == MaxBegun \in Nat
ASSUME ActorsAssumption ==
    /\ Readers \cap Changes = {}
    /\ Reconciler \notin Readers \cup Changes
    /\ Nothing \notin Readers \cup Changes \cup {Reconciler}

VARIABLES
    mechanism, \* the market's, for good
    row,       \* the committed rows: [columns, sums, version]
    keeper,    \* who holds the market's row
    clock,     \* the latest updated_at ever written
    snapshot,  \* the value in Redis, or Nothing
    at,        \* [Actors -> step about to run]
    seen       \* [Actors -> the copy of the rows that the actor works with]

hotVars == <<mechanism, row, keeper, clock, snapshot, at, seen>>

Actors == Changes \cup Readers \cup {Reconciler}

Copy == [columns : SUBSET Changes, sums : SUBSET Changes, version : Nat]
Blank == [columns |-> {}, sums |-> {}, version |-> 0]

\* What a change is to the columns of the market's row that a snapshot shows,
InRow(c) ==
    {d \in {c} \cap Changes : KindOf[d] \in {"settle", "cancel", "update", "close", "stake", "trade"}}

\* and to the bets, orders and legs that it sums up or lists.
InTables(c) ==
    {d \in {c} \cap Changes :
        KindOf[d] \in {"settle", "cancel", "place", "void", "fill", "order", "silent"}}

\* Mutant: a trade's update_columns leaves updated_at out.
TouchesWithoutTrades(c) == KindOf[c] \in {"settle", "cancel", "update", "void", "fill"}

\* Which changes set updated_at.  A stake does not: increment! leaves it alone.
Touches(c) == KindOf[c] \in {"settle", "cancel", "update", "void", "trade", "fill"}

\* Which changes write the market's row, and so hold it until they commit.
LocksRow(c) == Touches(c) \/ KindOf[c] \in {"stake", "close"}

\* The placement of an order works with the market that its request loaded,
Placement(c) == KindOf[c] \in {"fill", "order"}

\* and these changes project the market in their transaction;
Inside(a) == a \in Changes /\ KindOf[a] \in {"settle", "void", "stake", "trade", "fill", "order"}

\* these once it has committed.
Afterwards(c) == KindOf[c] \in {"update", "place"}

\* Here an event is appended after the projection, and no one rescues its failure.
Strict(c) ==
    \/ KindOf[c] = "void"
    \/ KindOf[c] = "settle" /\ mechanism \in {"fixed_odds", "parimutuel"}

\* The change is written and not committed.
Pending(a) == at[a] \in {"append", "commit"} \/ (Inside(a) /\ at[a] \in {"sum", "write"})

HotInit ==
    /\ mechanism \in Mechanisms
    /\ row = Blank
    /\ keeper = Nothing
    /\ clock = 0
    /\ snapshot = Nothing
    /\ at = [a \in Actors |-> "start"]
    /\ seen = [a \in Actors |-> Blank]

Step(a, next) == at' = [at EXCEPT ![a] = next]

\* The actor has no more use for its copy.
Forget(a) == seen' = [seen EXCEPT ![a] = Blank]

\* A market as it is loaded: its row, and nothing of the other tables.
Loaded == [row EXCEPT !.sums = {}]

\* The rows as they will be once the open change c has committed.
With(c) ==
    [columns |-> row.columns \cup InRow(c),
     sums |-> row.sums \cup InTables(c),
     version |-> IF Touches(c) THEN seen[c].version ELSE row.version]

\* The market of an order's request, before its transaction.
LoadRequest(c) ==
    /\ at[c] = "start" /\ Placement(c) /\ mechanism = "clob"
    /\ Cardinality({d \in Changes : at[d] # "start"}) < MaxBegun
    /\ seen' = [seen EXCEPT ![c] = Loaded]
    /\ Step(c, "loaded")
    /\ UNCHANGED <<mechanism, row, keeper, clock, snapshot>>

\* The write of a change in its open transaction, and the copy it goes on with: the market
\* under the lock with its own columns, or that of the request with its new updated_at.
Begin(c) ==
    /\ \/ at[c] = "loaded"
       \/ /\ at[c] = "start" /\ ~Placement(c) /\ KindOf[c] \in Common \cup Own[mechanism]
          /\ Cardinality({d \in Changes : at[d] # "start"}) < MaxBegun
    /\ LocksRow(c) => keeper = Nothing
    /\ keeper' = IF LocksRow(c) THEN c ELSE keeper
    /\ clock' = IF Touches(c) THEN clock + 1 ELSE clock
    /\ seen' = [seen EXCEPT ![c] =
                   LET copy == IF Placement(c) THEN @ ELSE Loaded
                   IN  [columns |-> copy.columns \cup InRow(c),
                        sums |-> {},
                        version |-> IF Touches(c) THEN clock' ELSE copy.version]]
    /\ Step(c, IF Inside(c) THEN "sum" ELSE "commit")
    /\ UNCHANGED <<mechanism, row, snapshot>>

\* append_market_event!, whose failure is the transaction's.
AppendEvent(c) ==
    /\ at[c] = "append"
    /\ Step(c, "commit")
    /\ UNCHANGED <<mechanism, row, keeper, clock, snapshot, seen>>

CommitChange(c) ==
    /\ at[c] = "commit"
    /\ row' = With(c)
    /\ keeper' = IF keeper = c THEN Nothing ELSE keeper
    /\ Step(c, IF Afterwards(c) THEN "load" ELSE "done")
    /\ Forget(c)
    /\ UNCHANGED <<mechanism, clock, snapshot>>

\* The transaction fails, or the process dies, before the commit.
Undo(c) ==
    /\ Pending(c)
    /\ keeper' = IF keeper = c THEN Nothing ELSE keeper
    /\ Step(c, "done")
    /\ Forget(c)
    /\ UNCHANGED <<mechanism, row, clock, snapshot>>

\* MarketSnapshotReader: any snapshot will do.
Read(a) ==
    /\ a \in Readers
    /\ at[a] = "start"
    /\ snapshot = Nothing
    /\ Step(a, "load")
    /\ UNCHANGED <<mechanism, row, keeper, clock, snapshot, seen>>

\* The job, called for this market whatever its status, loads it
Reconcile ==
    /\ at[Reconciler] = "start"
    /\ seen' = [seen EXCEPT ![Reconciler] = Loaded]
    /\ Step(Reconciler, "compare")
    /\ UNCHANGED <<mechanism, row, keeper, clock, snapshot>>

\* and then reads the snapshot: one of the version that it has loaded is let be, and so is
\* any when Redis fails.
Compare ==
    /\ at[Reconciler] = "compare"
    /\ \/ Step(Reconciler, "start") /\ Forget(Reconciler)
       \/ /\ ~(snapshot # Nothing /\ snapshot.version = seen[Reconciler].version)
          /\ Step(Reconciler, "sum")
          /\ UNCHANGED seen
    /\ UNCHANGED <<mechanism, row, keeper, clock, snapshot>>

\* The market is loaded for a projection here,
LoadMarket(a) ==
    /\ at[a] = "load"
    /\ seen' = [seen EXCEPT ![a] = Loaded]
    /\ Step(a, "sum")
    /\ UNCHANGED <<mechanism, row, keeper, clock, snapshot>>

\* and its bets, orders and legs queried here, by build_snapshot: what is committed by
\* now, and what the transaction itself has written.
SumUp(a) ==
    /\ at[a] = "sum"
    /\ seen' = [seen EXCEPT ![a].sums = row.sums \cup InTables(a)]
    /\ Step(a, "write")
    /\ UNCHANGED <<mechanism, row, keeper, clock, snapshot>>

\* write_market_snapshot!, whatever is there by now; a failure is only logged.  A
\* transaction goes on,
ProjectInside(c) ==
    /\ at[c] = "write" /\ Inside(c)
    /\ snapshot' \in {seen[c], snapshot}
    /\ Step(c, IF Strict(c) THEN "append" ELSE "commit")
    /\ UNCHANGED <<mechanism, row, keeper, clock, seen>>

\* and whoever is outside of one has finished.
WriteSnapshot(a) ==
    /\ at[a] = "write" /\ ~Inside(a)
    /\ snapshot' \in {seen[a], snapshot}
    /\ Step(a, IF a \in Changes THEN "done" ELSE "start")
    /\ Forget(a)
    /\ UNCHANGED <<mechanism, row, keeper, clock>>

\* Mutant: the snapshot is written without its expiry.
Stays == snapshot # Nothing /\ UNCHANGED hotVars

\* The 120 seconds of the snapshot in Redis pass.
Evict ==
    /\ snapshot # Nothing
    /\ snapshot' = Nothing
    /\ UNCHANGED <<mechanism, row, keeper, clock, at, seen>>

HotNext ==
    \/ \E c \in Changes :
           \/ LoadRequest(c) \/ Begin(c) \/ ProjectInside(c) \/ AppendEvent(c)
           \/ CommitChange(c) \/ Undo(c)
    \/ \E a \in Actors : Read(a) \/ LoadMarket(a) \/ SumUp(a) \/ WriteSnapshot(a)
    \/ Reconcile
    \/ Compare
    \/ Evict

\* A request that is running goes on, and Redis expires what it was told to.
HotFairness ==
    /\ \A c \in Changes : WF_hotVars(ProjectInside(c) \/ AppendEvent(c) \/ CommitChange(c))
    /\ \A a \in Actors : WF_hotVars(LoadMarket(a) \/ SumUp(a) \/ WriteSnapshot(a))
    /\ WF_hotVars(Evict)

----------------------------------------------------------------------------
(***************************************************************************)
(* Properties.                                                             *)
(***************************************************************************)

HotTypeOK ==
    /\ mechanism \in Mechanisms
    /\ row \in Copy
    /\ keeper \in Changes \cup {Nothing}
    /\ clock \in Nat
    /\ snapshot \in Copy \cup {Nothing}
    /\ at \in [Actors -> {"start", "loaded", "append", "commit", "load", "compare", "sum",
                          "write", "done"}]
    /\ seen \in [Actors -> Copy]

\* The changes among some that a version promises: all but those that leave updated_at
\* alone, which are stakes, the close job's, bets, legs, orders that do not trade, cash-outs
\* and cancelled orders.
Promised(changes) ==
    {c \in changes : KindOf[c] \notin {"stake", "close", "place", "order", "silent"}}

\* What the reconciliation job relies on when it skips a snapshot of the market's version:
\* the snapshot then has every committed void, settlement, cancellation, update, trade and
\* fill, and no other.  It may lack changes of the other kinds; and the columns of an order
\* book's market, which a placement projects as its request loaded them, may be older than
\* the version that its fill gave them.
VersionsIdentify ==
    snapshot # Nothing /\ snapshot.version = row.version =>
        /\ Promised(snapshot.sums) = Promised(row.sums)
        /\ mechanism # "clob" => Promised(snapshot.columns) = Promised(row.columns)

\* Whatever was written late, torn, or by a transaction that never committed: once the rows
\* stop changing, there comes a time from which on a snapshot tells the truth.
TruthAtLast == <>[](snapshot = Nothing \/ snapshot = row)
=============================================================================

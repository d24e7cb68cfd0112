---------------------------- MODULE HouseBetProofs ----------------------------
(***************************************************************************)
(* Who may change a bet at fixed odds, and into what.  Placements insert   *)
(* rows of their own; a void or a cash-out holds the row of its bet; a     *)
(* settlement or a cancellation holds the row of its market, and writes    *)
(* the bets that it has loaded whatever they are by then.  That a bet that *)
(* it has loaded is still open when it gets to it follows from the locks   *)
(* that the others need: a void touches the market before it commits.  A   *)
(* cash-out does not, and so this holds of loads in which cash-outs keep   *)
(* apart from settlements and cancellations.                               *)
(*                                                                         *)
(* Then how a betslip's bets appear: together, with the mark on its quote. *)
(* And what holds when one worker serves all requests: that no bet is left *)
(* open on a market which has ended, and that the liability cap is kept.   *)
(***************************************************************************)
EXTENDS HouseStepProofs, SumLemmas

\* CashoutsApart, of what is left of a load.
Apart ==
    \/ \A v, w \in load.crew : v = w
    \/ (\A r \in todo : r.op # "cashout") /\ \A w \in Workers : req[w].op # "cashout"
    \/ /\ \A r \in todo : r.op \notin {"settle", "annul"}
       /\ \A w \in Workers : req[w].op \notin {"settle", "annul"}

\* The statements at which a worker may hold bets.
BetAt ==
    {"look", "risk", "debit", "insert", "commit", "refund", "touch", "cashout", "result",
     "payout", "credit", "unbet"}

\* What may become of a row.
Moves(row) ==
    \/ row.now.status = "open" /\ row.new = row.now
    \/ row.now.status = "none" /\ row.new.status = "open"
    \/ /\ row.now.status = "open" /\ row.new.ticket = row.now.ticket
       /\ row.new.status \in {"settled_win", "settled_loss", "voided"}

\* Whoever holds a bet serves a request that may, and those who would otherwise get in the
\* way of a settlement hold its market too.
HolderOK(w) ==
    \A b \in BetIds : bets[b].by = w =>
        /\ pc[w] \in BetAt
        /\ Moves(bets[b])
        /\ \/ req[w].op \in {"place", "execute"} /\ bets[b].now.status = "none"
           \/ /\ req[w].op = "void" /\ b = tx[w].bet
              /\ pc[w] = "commit" => markets[bets[b].now.ticket.market].by = w
           \/ req[w].op = "cashout"
           \/ req[w].op \in {"settle", "annul"} /\ markets[bets[b].now.ticket.market].by = w

\* The bets that the loop of w has yet to write.
Pending(w) == tx[w].batch \cup (IF pc[w] = "unbet" THEN {tx[w].bet} ELSE {})

Looping(w) ==
    pc[w] \in {"result", "payout", "credit", "unbet"} /\ Mechanism(req[w].market) = "fixed_odds"

LoopOK(w) ==
    /\ pc[w] = "unbet" => Looping(w) /\ tx[w].bet \notin tx[w].batch
    /\ Looping(w) =>
           /\ markets[req[w].market].by = w
           /\ \A b \in Pending(w) :
                  /\ bets[b].now.status = "open" /\ bets[b].now.ticket.market = req[w].market
                  /\ bets[b].by # w

\* The bet that w works on.
LeaveOK(w) ==
    LET row == bets[tx[w].bet]
    IN  /\ pc[w] \in {"refund", "cashout"} => row.now.status = "open" /\ row.new = row.now
        /\ pc[w] = "cashout" => req[w].op = "cashout"
        /\ pc[w] = "touch" => row.new.ticket = row.now.ticket
        /\ pc[w] = "payout" =>
               /\ row.by = w /\ row.now.status = "open"
               /\ row.new = [row.now EXCEPT !.status = "settled_win"]

BetsHeld(w) == HolderOK(w) /\ LoopOK(w) /\ LeaveOK(w)

CleanBets == \A b \in BetIds : bets[b].by = Nobody => bets[b].new = bets[b].now

BetInv == HouseHeld /\ Apart /\ CleanBets /\ \A w \in Workers : BetsHeld(w)

----------------------------------------------------------------------------
(***************************************************************************)
(* Other workers.                                                          *)
(***************************************************************************)

\* What is used of the types.
LEMMA BetRows ==
    ASSUME HouseHeld, NEW w \in Workers
    PROVE  /\ bets \in [BetIds -> RowOf(Bet)] /\ markets \in [Markets -> RowOf(Market)]
           /\ pc \in [Workers -> Statement] /\ pc[w] \in Statement
           /\ tx \in [Workers -> Tx] /\ tx[w] \in Tx
           /\ req[w] \in Request \cup {NoRequest} /\ req[w].op \in OpsAt(pc[w])
           /\ pc[w] \in {"bet", "refund", "touch", "cashout", "payout", "unbet"} =>
                  tx[w].bet \in BetIds
           /\ \A b \in BetIds : bets[b].now.ticket \in Ticket /\ bets[b].new.ticket \in Ticket
           /\ BatchOK(w) /\ LocksOK(w)
<1>1. /\ bets \in [BetIds -> RowOf(Bet)] /\ markets \in [Markets -> RowOf(Market)]
      /\ pc \in [Workers -> Statement] /\ pc[w] \in Statement
      /\ tx \in [Workers -> Tx] /\ tx[w] \in Tx
      /\ req[w] \in Request \cup {NoRequest} /\ ServingOK(w) /\ LocksOK(w)
  BY Holding, Typed DEF TablesTypedNow, HoldingOK
<1>2. \A b \in BetIds : bets[b].now.ticket \in Ticket /\ bets[b].new.ticket \in Ticket
  BY <1>1 DEF RowOf, Bet
<1> QED
  BY <1>1, <1>2 DEF ServingOK

\* The market and the bets of a loop.
LEMMA LoopRows ==
    ASSUME HouseHeld, NEW w \in Workers, Looping(w)
    PROVE  /\ req[w].op \in {"settle", "annul"} /\ req[w].market \in Markets
           /\ Pending(w) \subseteq BetIds
           /\ pc[w] # "idle"
<1>1. req[w].op \in {"settle", "annul"} /\ req[w].market \in Markets
  BY BetRows, RequestForms DEF Looping, OpsAt
<1>2. tx[w].batch \subseteq BetIds
  BY BetRows DEF Looping, BatchOK
<1> QED
  BY <1>1, <1>2, BetRows DEF Looping, Pending

\* A step of w as another worker sees it.
LEMMA OthersBets ==
    ASSUME NEW w \in Workers, NEW v \in Workers, v # w, HouseHeld, OwnStep(w), BetsHeld(v)
    PROVE  BetsHeld(v)'
<1>1. pc'[v] = pc[v] /\ req'[v] = req[v] /\ tx'[v] = tx[v]
  BY DEF OwnStep
<1>2. \A b \in BetIds : /\ bets'[b].now = bets[b].now
                        /\ bets'[b].by = v <=> bets[b].by = v
                        /\ bets[b].by = v => bets'[b] = bets[b]
  BY BetRows, NobodyAssumption DEF OwnStep, OwnRows, Free
<1>3. \A m \in Markets : markets[m].by = v => markets'[m].by = v
  BY BetRows, NobodyAssumption DEF OwnStep, OwnRows, Free
<1>4. HolderOK(v)'
  <2>1. \A b \in BetIds : bets[b].now.ticket.market \in Markets
    BY BetRows, TicketForm
  <2> QED
    BY <1>1, <1>2, <1>3, <2>1 DEF BetsHeld, HolderOK
<1>5. LoopOK(v)'
  <2>1. Looping(v)' = Looping(v) /\ Pending(v)' = Pending(v)
    BY <1>1 DEF Looping, Pending
  <2>2. CASE Looping(v)
    BY <1>1, <1>2, <1>3, <2>1, <2>2, LoopRows DEF BetsHeld, LoopOK
  <2>3. CASE ~Looping(v)
    BY <1>1, <2>1, <2>3 DEF BetsHeld, LoopOK
  <2> QED
    BY <2>2, <2>3
<1>6. LeaveOK(v)'
  <2>1. pc[v] \in {"refund", "cashout", "touch", "payout"} =>
            tx[v].bet \in BetIds /\ bets[tx[v].bet].by = v
    BY BetRows DEF BetsHeld, LeaveOK, LocksOK
  <2>2. pc[v] \in {"refund", "cashout", "touch", "payout"} => bets'[tx[v].bet] = bets[tx[v].bet]
    BY <1>2, <2>1
  <2> QED
    BY <1>1, <2>2 DEF BetsHeld, LeaveOK
<1> QED
  BY <1>4, <1>5, <1>6 DEF BetsHeld

----------------------------------------------------------------------------
(***************************************************************************)
(* A worker's own statements.                                              *)
(***************************************************************************)

\* A statement that neither writes a bet nor leads into a loop or to a bet.
LEMMA QuietBets ==
    ASSUME NEW w \in Workers, HouseHeld, BetsHeld(w), OwnStep(w), bets' = bets,
           \/ pc[w] \notin BetAt
           \/ /\ pc'[w] \in BetAt /\ req[w].op # "void"
              /\ req'[w] = req[w] /\ tx'[w].bet = tx[w].bet,
           pc'[w] \notin {"refund", "touch", "cashout", "payout", "unbet"}, ~Looping(w)'
    PROVE  BetsHeld(w)'
<1>1. \A b \in BetIds : bets[b].now.ticket.market \in Markets
  BY BetRows, TicketForm
<1>2. \A m \in Markets : markets[m].by = w => markets'[m].by = w
  BY BetRows DEF OwnStep, OwnRows
<1>3. HolderOK(w)'
  <2>1. CASE pc[w] \notin BetAt
    BY <2>1 DEF BetsHeld, HolderOK
  <2>2. CASE /\ pc'[w] \in BetAt /\ req[w].op # "void"
             /\ req'[w] = req[w] /\ tx'[w].bet = tx[w].bet
    BY <1>1, <1>2, <2>2 DEF BetsHeld, HolderOK
  <2> QED
    BY <2>1, <2>2
<1> QED
  BY <1>3 DEF BetsHeld, LoopOK, LeaveOK

LEMMA InsertBetHeld ==
    ASSUME NEW w \in Workers, HouseHeld, BetsHeld(w), OwnStep(w), InsertBet(w)
    PROVE  BetsHeld(w)'
<1> DEFINE t == Head(tx[w].items)
           slip == IF req[w].op = "execute" THEN req[w].slip ELSE Nobody
           bet == [ticket |-> t, slip |-> slip, status |-> "open"]
<1>1. /\ pc[w] = "insert" /\ UNCHANGED <<markets, req>>
      /\ Goto(w, "commit") \/ Goto(w, "look")
  BY DEF InsertBet
<1>2. PICK b \in FreeBets : bets' = [bets EXCEPT ![b] = Written(@, w, bet)]
  BY Zenon DEF InsertBet
<1>3. pc'[w] \in {"commit", "look"} /\ req'[w].op = req[w].op
  BY <1>1, BetRows DEF Goto
<1>4. b \in BetIds /\ bets[b].now.status = "none"
  BY DEF FreeBets
<1>5. bet.status = "open"
  OBVIOUS
<1> HIDE DEF bet
<1>6. /\ bets'[b].by = w /\ bets'[b].now = bets[b].now /\ bets'[b].new = bet
      /\ \A c \in BetIds \ {b} : bets'[c] = bets[c]
  BY <1>2, <1>4, BetRows DEF Written, RowOf
<1>7. req[w].op \in {"place", "execute"}
  BY <1>1, BetRows DEF OpsAt
<1>8. HolderOK(w)'
  BY <1>3, <1>4, <1>5, <1>6, <1>7 DEF BetsHeld, HolderOK, Moves, BetAt
<1> QED
  BY <1>3, <1>8 DEF BetsHeld, LoopOK, Looping, LeaveOK

LEMMA LockBetHeld ==
    ASSUME NEW w \in Workers, HouseHeld, CleanBets, BetsHeld(w), OwnStep(w), LockBet(w),
           ~Rollback(w)
    PROVE  BetsHeld(w)'
<1> DEFINE b == tx[w].bet
           next == IF req[w].op = "void" THEN "refund" ELSE "cashout"
<1>1. /\ pc[w] = "bet" /\ Free(bets[b], w) /\ bets[b].now.status = "open"
      /\ bets' = [bets EXCEPT ![b] = Locked(@, w)]
      /\ Goto(w, next) /\ UNCHANGED <<req, tx>>
  BY DEF LockBet
<1>2. b \in BetIds /\ req[w].op \in {"void", "cashout"}
  BY <1>1, BetRows DEF OpsAt
<1>3. pc'[w] = next /\ next \in {"refund", "cashout"}
  BY <1>1, BetRows DEF Goto
<1>4. \A c \in BetIds : bets[c].by # w
  BY <1>1 DEF BetsHeld, HolderOK, BetAt
<1>5. bets[b].new = bets[b].now
  BY <1>1, <1>2, <1>4 DEF CleanBets, Free
<1>6. /\ bets'[b].by = w /\ bets'[b].now = bets[b].now /\ bets'[b].new = bets[b].new
      /\ \A c \in BetIds \ {b} : bets'[c] = bets[c]
  BY <1>1, <1>2, BetRows DEF Locked, RowOf
<1> HIDE DEF next
<1>7. HolderOK(w)'
  <2>1. bets'[b].now.status = "open" /\ bets'[b].new = bets'[b].now
    BY <1>1, <1>5, <1>6
  <2>2. \A c \in BetIds : bets'[c].by = w => c = b
    BY <1>4, <1>6
  <2>3. /\ pc'[w] \in BetAt /\ pc'[w] # "commit"
        /\ req'[w].op = "cashout" \/ (req'[w].op = "void" /\ b = tx'[w].bet)
    BY <1>1, <1>2, <1>3 DEF BetAt
  <2>4. Moves(bets'[b])
    BY <2>1 DEF Moves
  <2>5. \A c \in BetIds : bets'[c].by = w => c = b /\ Moves(bets'[c])
    BY <2>2, <2>4
  <2> HIDE DEF b
  <2> QED
    BY <2>3, <2>5 DEF HolderOK
<1>8. LeaveOK(w)'
  BY <1>1, <1>2, <1>3, <1>5, <1>6 DEF LeaveOK, next
<1> QED
  BY <1>3, <1>7, <1>8 DEF BetsHeld, LoopOK, Looping

\* The bet of a void or a cash-out is written.
LEMMA LeaveHeld ==
    ASSUME NEW w \in Workers, HouseHeld, BetsHeld(w), OwnStep(w),
           RefundStake(w) \/ CashOut(w), ~Rollback(w)
    PROVE  BetsHeld(w)'
<1> DEFINE b == tx[w].bet
<1>1. /\ pc[w] \in {"refund", "cashout"}
      /\ bets' = [bets EXCEPT ![b].new.status = "voided"]
      /\ UNCHANGED <<req, tx>>
      /\ \/ pc[w] = "refund" /\ Goto(w, "touch")
         \/ pc[w] = "cashout" /\ Goto(w, "commit")
  BY Zenon DEF RefundStake, CashOut
<1>2. b \in BetIds /\ req[w].op \in {"void", "cashout"} /\ bets[b].by = w
  BY <1>1, BetRows DEF OpsAt, LocksOK
<1>3. bets[b].now.status = "open" /\ bets[b].new = bets[b].now
  BY <1>1 DEF BetsHeld, LeaveOK
<1>4. /\ bets'[b].by = w /\ bets'[b].now = bets[b].now
      /\ bets'[b].new = [bets[b].new EXCEPT !.status = "voided"]
      /\ \A c \in BetIds \ {b} : bets'[c] = bets[c]
  BY <1>1, <1>2, BetRows DEF RowOf
<1>5. bets'[b].new.status = "voided" /\ bets'[b].new.ticket = bets[b].now.ticket
  <2>1. bets[b].new \in Bet
    BY <1>2, BetRows, VersionsTyped
  <2> QED
    BY <1>3, <1>4, <2>1 DEF Bet
<1>6. pc'[w] = (IF pc[w] = "refund" THEN "touch" ELSE "commit")
  BY <1>1, BetRows DEF Goto
<1>7. Moves(bets'[b])
  BY <1>3, <1>4, <1>5 DEF Moves
<1>8. HolderOK(w)'
  <2>1. req[w].op = "void" => pc'[w] = "touch"
    BY <1>1, <1>6 DEF BetsHeld, LeaveOK
  <2> QED
    BY <1>1, <1>2, <1>4, <1>6, <1>7, <2>1 DEF BetsHeld, HolderOK, BetAt
<1>9. LeaveOK(w)'
  BY <1>1, <1>4, <1>5, <1>6 DEF LeaveOK
<1> QED
  BY <1>6, <1>8, <1>9 DEF BetsHeld, LoopOK, Looping

LEMMA TouchMarketHeld ==
    ASSUME NEW w \in Workers, HouseHeld, BetsHeld(w), OwnStep(w), TouchMarket(w)
    PROVE  BetsHeld(w)'
<1> DEFINE b == tx[w].bet
           m == bets[b].new.ticket.market
<1>1. /\ pc[w] = "touch" /\ Goto(w, "commit") /\ UNCHANGED <<bets, req, tx>>
      /\ markets' = [markets EXCEPT ![m] = Locked(@, w)]
  BY DEF TouchMarket
<1>2. /\ b \in BetIds /\ m \in Markets /\ m = bets[b].now.ticket.market
      /\ req[w].op \in {"void", "cashout"}
  BY <1>1, BetRows, TicketForm, Zenon DEF BetsHeld, LeaveOK, OpsAt
<1>3. pc'[w] = "commit"
  BY <1>1, BetRows DEF Goto
<1>4. markets'[bets[b].now.ticket.market].by = w
  BY <1>1, <1>2, BetRows DEF Locked, RowOf
<1>5. HolderOK(w)'
  BY <1>1, <1>2, <1>3, <1>4, Zenon DEF BetsHeld, HolderOK, BetAt
<1> QED
  BY <1>3, <1>5 DEF BetsHeld, LoopOK, Looping, LeaveOK

\* What a transaction that holds no bet finds open.
LEMMA FoundOpen ==
    ASSUME NEW w \in Workers, HouseHeld, BetsHeld(w), pc[w] \notin BetAt, NEW m
    PROVE  \A b \in OpenBets(BetsSeen(w), m) :
               /\ b \in BetIds /\ bets[b].by # w
               /\ bets[b].now.status = "open" /\ bets[b].now.ticket.market = m
  BY DEF BetsHeld, HolderOK, OpenBets, BetsSeen, Seen

\* A loop over the open bets begins: a settlement's or a cancellation's.
LEMMA LoopHeld ==
    ASSUME NEW w \in Workers, HouseHeld, BetsHeld(w), pc[w] \notin BetAt, bets' = bets,
           NEW m \in Markets, req'[w].market = m, markets'[m].by = w,
           pc'[w] \in {"result", "credit"},
           Mechanism(m) = "fixed_odds" => tx'[w].batch = OpenBets(BetsSeen(w), m)
    PROVE  BetsHeld(w)'
<1>1. HolderOK(w)'
  BY DEF BetsHeld, HolderOK
<1>2. LoopOK(w)'
  BY FoundOpen DEF LoopOK, Looping, Pending
<1> QED
  BY <1>1, <1>2 DEF BetsHeld, LeaveOK

LEMMA DecideHeld ==
    ASSUME NEW w \in Workers, HouseHeld, BetsHeld(w), OwnStep(w), Decide(w)
    PROVE  BetsHeld(w)'
<1> DEFINE m == req[w].market
           settled == [markets[m].now EXCEPT !.status = "settled", !.outcome = req[w].outcome]
<1>1. /\ pc[w] = "decide" /\ UNCHANGED <<bets, req>>
      /\ markets' = [markets EXCEPT ![m] = Written(@, w, settled)]
      /\ \/ Goto(w, "share")
         \/ Goto(w, "result") /\ tx' = [tx EXCEPT ![w].batch = OpenBets(BetsSeen(w), m)]
  BY Zenon DEF Decide
<1>2. m \in Markets
  BY <1>1, BetRows, RequestForms DEF OpsAt
<1> HIDE DEF settled
<1>3. markets'[m].by = w
  BY <1>1, <1>2, BetRows DEF Written, RowOf
<1>4. CASE Goto(w, "share")
  <2>1. pc'[w] = "share"
    BY <1>4, BetRows DEF Goto
  <2> QED
    BY <1>1, <2>1, QuietBets DEF BetAt, Looping
<1>5. CASE Goto(w, "result") /\ tx' = [tx EXCEPT ![w].batch = OpenBets(BetsSeen(w), m)]
  <2>1. pc'[w] = "result" /\ tx'[w].batch = OpenBets(BetsSeen(w), m)
    BY <1>5, BetRows DEF Goto, Tx
  <2> QED
    BY <1>1, <1>2, <1>3, <2>1, LoopHeld DEF BetAt
<1> QED
  BY <1>1, <1>4, <1>5

LEMMA LockToCancelHeld ==
    ASSUME NEW w \in Workers, HouseHeld, BetsHeld(w), OwnStep(w), LockToCancel(w), ~Rollback(w)
    PROVE  BetsHeld(w)'
<1> DEFINE m == req[w].market
           zero == [s \in Sides |-> 0]
           cancelled == [markets[m].now EXCEPT !.status = "cancelled", !.pool = zero,
                                               !.held = [u \in Users |-> zero]]
<1>1. /\ pc[w] = "annul" /\ UNCHANGED <<bets, req>> /\ Goto(w, "credit")
      /\ markets' = [markets EXCEPT ![m] = Written(@, w, cancelled)]
      /\ tx' = [tx EXCEPT ![w].batch = ToRefund(w, m)]
  BY DEF LockToCancel
<1>2. m \in Markets
  BY <1>1, BetRows, RequestForms DEF OpsAt
<1> HIDE DEF cancelled
<1>3. markets'[m].by = w
  BY <1>1, <1>2, BetRows DEF Written, RowOf
<1>4. pc'[w] = "credit" /\ tx'[w].batch = ToRefund(w, m)
  BY <1>1, BetRows DEF Goto, Tx
<1>5. Mechanism(m) = "fixed_odds" => ToRefund(w, m) = OpenBets(BetsSeen(w), m)
  BY DEF ToRefund
<1> QED
  BY <1>1, <1>2, <1>3, <1>4, <1>5, LoopHeld DEF BetAt

LEMMA ResultHeld ==
    ASSUME NEW w \in Workers, HouseHeld, BetsHeld(w), OwnStep(w), Result(w)
    PROVE  BetsHeld(w)'
<1> DEFINE Won(b) == bets[b].now.ticket.side = req[w].outcome
           Decided(b) == [bets[b].now EXCEPT !.status =
                             IF Won(b) THEN "settled_win" ELSE "settled_loss"]
<1>1. PICK b \in tx[w].batch :
          /\ bets' = [bets EXCEPT ![b] = Written(@, w, Decided(b))]
          /\ tx' = [tx EXCEPT ![w].batch = @ \ {b}, ![w].bet = b]
          /\ Goto(w, IF Won(b) THEN "payout" ELSE "result")
  BY DEF Result
<1>2. pc[w] = "result" /\ UNCHANGED <<markets, req>>
  BY DEF Result
<1>3. Looping(w) /\ req[w].op = "settle"
  BY <1>2, BetRows DEF Looping, BatchOK, OpsAt
<1>4. /\ b \in BetIds /\ bets[b].now.status = "open" /\ bets[b].by # w
      /\ bets[b].now.ticket.market = req[w].market
      /\ markets[req[w].market].by = w
  BY <1>2, <1>3, LoopRows DEF BetsHeld, LoopOK, Pending
<1>5. /\ tx'[w].batch = tx[w].batch \ {b} /\ tx'[w].bet = b
      /\ pc'[w] = IF Won(b) THEN "payout" ELSE "result"
  BY <1>1, BetRows DEF Goto, Tx
<1>6. /\ Decided(b).ticket = bets[b].now.ticket
      /\ Decided(b).status \in {"settled_win", "settled_loss"}
      /\ pc'[w] = "payout" => Decided(b) = [bets[b].now EXCEPT !.status = "settled_win"]
  <2>1. bets[b].now \in Bet
    BY <1>4, BetRows, VersionsTyped
  <2> QED
    BY <1>5, <2>1 DEF Bet
<1> HIDE DEF Decided
<1>7. /\ bets'[b].by = w /\ bets'[b].now = bets[b].now /\ bets'[b].new = Decided(b)
      /\ \A c \in BetIds \ {b} : bets'[c] = bets[c]
  BY <1>1, <1>4, BetRows DEF Written, RowOf
<1>8. HolderOK(w)'
  BY <1>2, <1>3, <1>4, <1>5, <1>6, <1>7 DEF BetsHeld, HolderOK, Moves, BetAt
<1>9. LoopOK(w)'
  <2>1. \A c \in Pending(w)' : c \in Pending(w) /\ c \in BetIds /\ c # b
    BY <1>3, <1>5, LoopRows DEF Pending
  <2> QED
    BY <1>2, <1>3, <1>4, <1>5, <1>7, <2>1 DEF BetsHeld, LoopOK
<1>10. LeaveOK(w)'
  BY <1>4, <1>5, <1>6, <1>7 DEF LeaveOK
<1> QED
  BY <1>8, <1>9, <1>10 DEF BetsHeld

\* A statement of the loop that writes no bet, but may take one up.
LEMMA LoopGoesOn ==
    ASSUME NEW w \in Workers, HouseHeld, BetsHeld(w), bets' = bets, markets' = markets,
           Looping(w), Looping(w)', req'[w] = req[w], Pending(w)' \subseteq Pending(w),
           pc'[w] = "unbet" => tx'[w].bet \notin tx'[w].batch,
           pc'[w] \notin {"refund", "cashout", "touch", "payout"}
    PROVE  BetsHeld(w)'
<1>1. req[w].op \in {"settle", "annul"}
  BY LoopRows
<1>2. HolderOK(w)'
  BY <1>1 DEF BetsHeld, HolderOK, Looping, BetAt
<1>3. LoopOK(w)'
  BY DEF BetsHeld, LoopOK
<1> QED
  BY <1>2, <1>3 DEF BetsHeld, LeaveOK

LEMMA PayWinnerHeld ==
    ASSUME NEW w \in Workers, HouseHeld, BetsHeld(w), OwnStep(w), PayWinner(w), ~Rollback(w)
    PROVE  BetsHeld(w)'
<1>1. pc[w] = "payout" /\ Goto(w, "result") /\ UNCHANGED <<markets, bets, req, tx>>
  BY Zenon DEF PayWinner
<1>2. pc'[w] = "result" /\ Looping(w)
  BY <1>1, BetRows DEF Goto, Looping, BatchOK
<1>3. Looping(w)' /\ Pending(w)' \subseteq Pending(w)
  BY <1>1, <1>2 DEF Looping, Pending
<1> QED
  BY <1>1, <1>2, <1>3, LoopGoesOn

LEMMA CreditBetHeld ==
    ASSUME NEW w \in Workers, HouseHeld, BetsHeld(w), OwnStep(w), CreditBet(w)
    PROVE  BetsHeld(w)'
<1>1. PICK b \in tx[w].batch : tx' = [tx EXCEPT ![w].batch = @ \ {b}, ![w].bet = b]
  BY DEF CreditBet
<1>2. /\ pc[w] = "credit" /\ Goto(w, "unbet") /\ Mechanism(req[w].market) = "fixed_odds"
      /\ UNCHANGED <<markets, bets, req>>
  BY DEF CreditBet
<1>3. pc'[w] = "unbet" /\ tx'[w].batch = tx[w].batch \ {b} /\ tx'[w].bet = b
  BY <1>1, <1>2, BetRows DEF Goto, Tx
<1>4. Looping(w) /\ Looping(w)' /\ Pending(w)' \subseteq Pending(w)
  BY <1>2, <1>3 DEF Looping, Pending
<1> QED
  BY <1>2, <1>3, <1>4, LoopGoesOn

LEMMA VoidBetHeld ==
    ASSUME NEW w \in Workers, HouseHeld, BetsHeld(w), OwnStep(w), VoidBet(w)
    PROVE  BetsHeld(w)'
<1> DEFINE b == tx[w].bet
           voided == [bets[b].now EXCEPT !.status = "voided"]
<1>1. /\ pc[w] = "unbet" /\ Goto(w, "credit") /\ UNCHANGED <<markets, req, tx>>
      /\ bets' = [bets EXCEPT ![b] = Written(@, w, voided)]
  BY DEF VoidBet
<1>2. b \in BetIds /\ req[w].op = "annul" /\ pc'[w] = "credit"
  BY <1>1, BetRows DEF OpsAt, Goto
<1>3. voided.ticket = bets[b].now.ticket /\ voided.status = "voided"
  <2>1. bets[b].now \in Bet
    BY <1>2, BetRows, VersionsTyped
  <2> QED
    BY <2>1 DEF Bet
<1> HIDE DEF voided
<1>4. /\ bets'[b].by = w /\ bets'[b].now = bets[b].now /\ bets'[b].new = voided
      /\ \A c \in BetIds \ {b} : bets'[c] = bets[c]
  BY <1>1, <1>2, BetRows DEF Written, RowOf
<1>5. /\ Looping(w) /\ b \in Pending(w) /\ b \notin tx[w].batch
      /\ tx[w].batch \subseteq Pending(w)
  BY <1>1 DEF Pending, BetsHeld, LoopOK
<1>6. /\ bets[b].now.status = "open" /\ bets[b].now.ticket.market = req[w].market
      /\ markets[req[w].market].by = w
  BY <1>5 DEF BetsHeld, LoopOK
<1>7. HolderOK(w)'
  <2>1. /\ HolderOK(w) /\ req' = req /\ markets' = markets
        /\ req'[w].op = "annul" /\ pc'[w] \in BetAt /\ pc'[w] = "credit"
    BY <1>1, <1>2 DEF BetsHeld, BetAt
  <2>2. /\ bets'[b].by = w /\ Moves(bets'[b])
        /\ markets'[bets'[b].now.ticket.market].by = w
    BY <1>3, <1>4, <1>6, <2>1 DEF Moves
  <2> HIDE DEF b
  <2> SUFFICES ASSUME NEW c \in BetIds, bets'[c].by = w
               PROVE  /\ Moves(bets'[c])
                      /\ markets'[bets'[c].now.ticket.market].by = w
    BY <2>1 DEF HolderOK
  <2>3. CASE c = b
    BY <2>2, <2>3
  <2>4. CASE c # b
    <3>1. bets'[c] = bets[c]
      BY <1>4, <2>4
    <3>2. Moves(bets[c]) /\ markets[bets[c].now.ticket.market].by = w
      BY <2>1, <3>1 DEF HolderOK
    <3> QED
      BY <2>1, <3>1, <3>2
  <2> QED
    BY <2>3, <2>4
<1>8. LoopOK(w)'
  <2>1. \A c \in Pending(w)' : c \in Pending(w) /\ c \in BetIds /\ c # b
    BY <1>1, <1>2, <1>5, LoopRows DEF Pending
  <2> QED
    BY <1>1, <1>2, <1>4, <1>5, <2>1 DEF BetsHeld, LoopOK
<1> QED
  BY <1>2, <1>7, <1>8 DEF BetsHeld, LeaveOK

\* The other statements.
LEMMA OtherStatements ==
    ASSUME NEW w \in Workers, HouseHeld, BetsHeld(w), OwnStep(w), WorkerStep(w), ~Rollback(w),
           ~InsertBet(w), ~LockBet(w), ~RefundStake(w), ~CashOut(w), ~TouchMarket(w),
           ~Decide(w), ~LockToCancel(w), ~Result(w), ~PayWinner(w), ~CreditBet(w), ~VoidBet(w)
    PROVE  BetsHeld(w)'
<1> DEFINE Quiet ==
        /\ bets' = bets
        /\ \/ pc[w] \notin BetAt
           \/ /\ pc'[w] \in BetAt /\ req[w].op # "void"
              /\ req'[w] = req[w] /\ tx'[w].bet = tx[w].bet
        /\ pc'[w] \notin {"refund", "touch", "cashout", "payout", "unbet"}
        /\ ~Looping(w)'
<1>1. /\ pc \in [Workers -> Statement] /\ tx \in [Workers -> Tx]
      /\ req[w].op \in OpsAt(pc[w]) /\ BatchOK(w)
  BY BetRows
<1>2. CASE FixedOddsStep(w)
  <2>1. /\ bets' = bets
        /\ \/ /\ pc[w] \in {"idle", "claim", "register"}
              /\ \E s \in {"look", "claim", "register", "bet", "idle"} : Goto(w, s)
           \/ /\ pc[w] \in {"look", "risk", "debit"} /\ UNCHANGED <<req, tx>>
              /\ \E s \in {"risk", "debit", "insert"} : Goto(w, s)
    BY <1>2, Zenon DEF FixedOddsStep, StartPlace, StartExecute, Claim, Look, Assess, DebitStake,
       StartQuote, Register, StartLeave, EndRequest, Accept, tables
  <2>2. pc'[w] \in {"look", "claim", "register", "bet", "idle", "risk", "debit", "insert"}
    BY <1>1, <2>1 DEF Goto
  <2>3. CASE pc[w] \in {"idle", "claim", "register"}
    BY <2>1, <2>2, <2>3, QuietBets DEF BetAt, Looping
  <2>4. CASE pc[w] \in {"look", "risk", "debit"}
    <3>1. /\ pc'[w] \in {"risk", "debit", "insert"} /\ req'[w] = req[w] /\ tx'[w] = tx[w]
          /\ req[w].op \in {"place", "execute"}
      BY <1>1, <2>1, <2>4 DEF Goto, OpsAt
    <3> QED
      BY <2>1, <3>1, QuietBets DEF BetAt, Looping
  <2> QED
    BY <2>1, <2>3, <2>4
<1>3. CASE PoolStep(w)
  <2>1. /\ bets' = bets /\ pc[w] \in {"idle", "bank", "pool", "price", "pay"}
        /\ \E s \in {"bank", "pool", "price", "pay", "commit"} : Goto(w, s)
    BY <1>3, Zenon DEF PoolStep, StartStake, BankStake, AddToPool, StartTrade, Price, PayTrade,
       Accept, tables
  <2>2. pc'[w] \in {"bank", "pool", "price", "pay", "commit"}
    BY <1>1, <2>1 DEF Goto
  <2> QED
    BY <2>1, <2>2, QuietBets DEF BetAt, Looping
<1>4. CASE FinalStep(w)
  <2>1. CASE FinishSettle(w) \/ FinishCancel(w)
    <3>1. /\ bets' = bets /\ req' = req /\ tx' = tx /\ Goto(w, "commit")
          /\ pc[w] \in {"result", "share", "credit"}
      BY <2>1 DEF FinishSettle, FinishCancel, tables
    <3>2. pc'[w] = "commit" /\ req[w].op \in {"settle", "annul"}
      BY <1>1, <3>1 DEF Goto, OpsAt
    <3> QED
      BY <3>1, <3>2, QuietBets DEF BetAt, Looping
  <2>2. CASE PayShare(w)
    <3>1. bets' = bets /\ pc' = pc /\ pc[w] = "share"
      BY <2>2 DEF PayShare
    <3> QED
      BY <3>1, QuietBets DEF BetAt, Looping
  <2>3. CASE CreditPool(w)
    <3>1. /\ bets' = bets /\ pc' = pc /\ req' = req /\ pc[w] = "credit"
          /\ Mechanism(req[w].market) # "fixed_odds"
      BY <2>3 DEF CreditPool
    <3>2. tx'[w].bet = tx[w].bet
      <4>1. \E k : tx' = [tx EXCEPT ![w].batch = @ \ {k}]
        BY <2>3 DEF CreditPool
      <4> QED
        BY <1>1, <4>1 DEF Tx
    <3>3. req[w].op = "annul"
      BY <1>1, <3>1 DEF OpsAt
    <3> QED
      BY <3>1, <3>2, <3>3, QuietBets DEF BetAt, Looping
  <2>4. CASE ~FinishSettle(w) /\ ~FinishCancel(w) /\ ~PayShare(w) /\ ~CreditPool(w)
    <3>1. /\ bets' = bets
          /\ pc[w] \in {"idle", "divide", "patch", "approve", "grant", "reject"}
          /\ \E s \in {"divide", "decide", "share", "annul", "patch", "commit", "approve",
                        "grant", "reject"} : Goto(w, s)
      BY <1>4, <2>4, Zenon DEF FinalStep, StartSettle, Divide, StartAnnul, Patch, WritePatch,
         StartReview, Approve, GrantFunds, Reject, Accept, tables
    <3>2. pc'[w] \in {"divide", "decide", "share", "annul", "patch", "commit", "approve",
                       "grant", "reject"}
      BY <1>1, <3>1 DEF Goto
    <3> QED
      BY <3>1, <3>2, QuietBets DEF BetAt, Looping
  <2> QED
    BY <2>1, <2>2, <2>3, <2>4
<1> QED
  BY <1>2, <1>3, <1>4 DEF WorkerStep

\* A step within a request.
LEMMA BetSteps ==
    ASSUME NEW w \in Workers, BetInv, WorkerStep(w), ~Rollback(w)
    PROVE  CleanBets' /\ \A v \in Workers : BetsHeld(v)'
<1>1. HouseHeld /\ OwnStep(w) /\ BetsHeld(w) /\ CleanBets
  BY WorkersOwn DEF BetInv
<1>2. BetsHeld(w)'
  BY <1>1, OtherStatements, InsertBetHeld, LockBetHeld, LeaveHeld, TouchMarketHeld,
     DecideHeld, LockToCancelHeld, ResultHeld, PayWinnerHeld, CreditBetHeld, VoidBetHeld
<1>3. \A v \in Workers : BetsHeld(v)'
  BY <1>1, <1>2, OthersBets DEF BetInv
<1>4. CleanBets'
  BY <1>1, BetRows, NobodyAssumption DEF CleanBets, OwnStep, OwnRows
<1> QED
  BY <1>3, <1>4

----------------------------------------------------------------------------
(***************************************************************************)
(* The end of a request.                                                   *)
(***************************************************************************)

\* Two workers that serve are two of the crew.
LEMMA TwoServe ==
    ASSUME HouseHeld, Apart, NEW v \in Workers, NEW w \in Workers, v # w,
           pc[v] # "idle", pc[w] # "idle"
    PROVE  ~(req[v].op = "cashout" /\ req[w].op \in {"settle", "annul"})
<1>1. v \in load.crew /\ w \in load.crew
  BY Holding DEF HoldingOK
<1> QED
  BY <1>1 DEF Apart

\* Nobody else commits a bet that a loop has yet to write.
LEMMA PendingStay ==
    ASSUME BetInv, NEW v \in Workers, NEW w \in Workers, v # w, Looping(v),
           NEW b \in Pending(v), pc[w] = "commit"
    PROVE  bets[b].by # w
<1>1. SUFFICES ASSUME bets[b].by = w
               PROVE  FALSE
  OBVIOUS
<1>2. /\ HouseHeld /\ LoopOK(v) /\ HolderOK(w)
      /\ b \in BetIds /\ req[v].op \in {"settle", "annul"} /\ pc[v] # "idle"
  BY LoopRows DEF BetInv, BetsHeld
<1>3. /\ markets[bets[b].now.ticket.market].by = v /\ bets[b].now.status = "open"
  BY <1>2 DEF LoopOK
<1>4. req[w].op = "cashout"
  BY <1>1, <1>2, <1>3 DEF HolderOK
<1> QED
  BY <1>2, <1>4, TwoServe DEF BetInv

LEMMA EndBets ==
    ASSUME NEW w \in Workers, BetInv, Rollback(w) \/ Commit(w)
    PROVE  CleanBets' /\ \A v \in Workers : BetsHeld(v)'
<1>1. /\ HouseHeld /\ CleanBets
      /\ bets \in [BetIds -> RowOf(Bet)] /\ markets \in [Markets -> RowOf(Market)]
      /\ pc \in [Workers -> Statement]
  BY BetRows DEF BetInv
<1>2. /\ bets' \in {Published(bets, w), Discarded(bets, w)}
      /\ markets' \in {Published(markets, w), Discarded(markets, w)}
      /\ EndRequest(w)
  BY DEF Rollback, Commit
<1>3. /\ pc'[w] = "idle" /\ req'[w] = NoRequest
      /\ \A v \in Workers \ {w} : pc'[v] = pc[v] /\ req'[v] = req[v] /\ tx'[v] = tx[v]
  BY <1>1, <1>2, Holding, Typed DEF EndRequest, Goto
<1>4. /\ \A b \in BetIds : bets'[b].by # w
      /\ \A b \in BetIds : \A v \in Workers \ {w} :
             /\ bets'[b].by = v <=> bets[b].by = v
             /\ bets[b].by = v => bets'[b] = bets[b]
      /\ \A b \in BetIds : bets[b].by # w => bets'[b] = bets[b]
      /\ bets' = Discarded(bets, w) => \A b \in BetIds : bets'[b].now = bets[b].now
  BY <1>1, <1>2, RowsEnd
<1>5. \A m \in Markets : \A v \in Workers \ {w} : markets'[m].by = v <=> markets[m].by = v
  BY <1>1, <1>2, RowsEnd
<1>6. CleanBets'
  <2>1. \A b \in BetIds : bets[b].by = w => bets'[b].new = bets'[b].now
    BY <1>1, <1>2 DEF Published, Discarded, Fresh
  <2> QED
    BY <1>1, <1>4, <2>1 DEF CleanBets
<1>7. BetsHeld(w)'
  BY <1>3, <1>4 DEF BetsHeld, HolderOK, LoopOK, Looping, LeaveOK
<1>8. ASSUME NEW v \in Workers \ {w}
      PROVE  BetsHeld(v)'
  <2>1. BetsHeld(v) /\ pc'[v] = pc[v] /\ req'[v] = req[v] /\ tx'[v] = tx[v]
    BY <1>3 DEF BetInv
  <2>2. HolderOK(v)'
    <3>1. \A b \in BetIds : bets[b].now.ticket.market \in Markets
      BY <1>1, BetRows, TicketForm
    <3> QED
      BY <1>4, <1>5, <2>1, <3>1 DEF BetsHeld, HolderOK
  <2>3. LoopOK(v)'
    <3>1. Looping(v)' = Looping(v) /\ Pending(v)' = Pending(v)
      BY <2>1 DEF Looping, Pending
    <3>2. CASE Looping(v)
      <4>1. \A b \in Pending(v) : bets'[b].now = bets[b].now /\ bets'[b].by # v
        <5>1. ASSUME NEW b \in Pending(v)
              PROVE  bets'[b].now = bets[b].now /\ bets'[b].by # v
          <6>1. b \in BetIds /\ bets[b].by # v
            BY <1>1, <2>1, <3>2, LoopRows DEF BetsHeld, LoopOK
          <6>2. CASE Commit(w)
            <7>1. bets[b].by # w
              BY <3>2, <6>2, PendingStay DEF Commit
            <7> QED
              BY <1>4, <6>1, <7>1
          <6>3. CASE Rollback(w)
            BY <1>4, <6>1, <6>3 DEF Rollback
          <6> QED
            BY <6>2, <6>3
        <5> QED
          BY <5>1
      <4> QED
        BY <1>1, <1>5, <2>1, <3>1, <3>2, <4>1, LoopRows DEF BetsHeld, LoopOK
    <3>3. CASE ~Looping(v)
      BY <2>1, <3>1, <3>3 DEF BetsHeld, LoopOK
    <3> QED
      BY <3>2, <3>3
  <2>4. LeaveOK(v)'
    <3>1. pc[v] \in {"refund", "cashout", "touch", "payout"} =>
              tx[v].bet \in BetIds /\ bets[tx[v].bet].by = v
      BY <1>1, <2>1, BetRows DEF BetsHeld, LeaveOK, LocksOK
    <3>2. pc[v] \in {"refund", "cashout", "touch", "payout"} =>
              bets'[tx[v].bet] = bets[tx[v].bet]
      BY <1>4, <3>1
    <3> QED
      BY <2>1, <3>2 DEF BetsHeld, LeaveOK
  <2> QED
    BY <2>2, <2>3, <2>4 DEF BetsHeld
<1> QED
  BY <1>6, <1>7, <1>8

----------------------------------------------------------------------------
(***************************************************************************)
(* Always.                                                                 *)
(***************************************************************************)

LEMMA ApartNext ==
    ASSUME HouseTyped, Apart, [Next]_vars
    PROVE  Apart'
<1>1. req \in [Workers -> Request \cup {NoRequest}]
  BY DEF HouseTyped, TypeOK
<1>2. ASSUME NEW w \in Workers, WorkerStep(w) \/ Rollback(w) \/ Commit(w)
      PROVE  Apart'
  <2>1. RequestMoves(w) /\ load' = load
    BY <1>2, RequestsArrive
  <2>2. /\ \A r \in todo' : r \in todo
        /\ \A v \in Workers : req'[v] = req[v] \/ req'[v] \in todo \/ req'[v] = NoRequest
    BY <1>1, <2>1 DEF RequestMoves, Accept, EndRequest
  <2>3. NoRequest.op = "none"
    BY DEF NoRequest
  <2> QED
    BY <2>1, <2>2, <2>3 DEF Apart
<1>3. CASE ClockTick \/ UNCHANGED vars \/ \E m \in Markets : CloseMarket(m)
  BY <1>3 DEF ClockTick, Lapse, Expire, CloseMarket, vars, Apart
<1> QED
  BY <1>2, <1>3, StepKinds

LEMMA BetNext == BetInv /\ [Next]_vars => BetInv'
<1> SUFFICES ASSUME BetInv, [Next]_vars
             PROVE  BetInv'
  OBVIOUS
<1>1. HouseHeld /\ HouseTyped /\ HouseHeld' /\ Apart'
  BY HeldNext, ApartNext DEF BetInv, HouseHeld
<1>2. ASSUME NEW w \in Workers, WorkerStep(w), ~Rollback(w)
      PROVE  BetInv'
  BY <1>1, <1>2, BetSteps DEF BetInv
<1>3. ASSUME NEW w \in Workers, Rollback(w) \/ Commit(w)
      PROVE  BetInv'
  BY <1>1, <1>3, EndBets DEF BetInv
<1>4. CASE ClockTick \/ UNCHANGED vars
  <2>1. UNCHANGED <<bets, markets, pc, req, tx>>
    BY <1>4, TicksKeep DEF tables
  <2>2. CleanBets'
    BY <2>1 DEF BetInv, CleanBets
  <2>3. ASSUME NEW w \in Workers
        PROVE  BetsHeld(w)'
    <3>1. Looping(w)' = Looping(w) /\ Pending(w)' = Pending(w)
      BY <2>1 DEF Looping, Pending
    <3>2. HolderOK(w)'
      BY <2>1 DEF BetInv, BetsHeld, HolderOK
    <3>3. LoopOK(w)'
      BY <2>1, <3>1 DEF BetInv, BetsHeld, LoopOK
    <3>4. LeaveOK(w)'
      BY <2>1 DEF BetInv, BetsHeld, LeaveOK
    <3> QED
      BY <3>2, <3>3, <3>4 DEF BetsHeld
  <2> QED
    BY <1>1, <2>2, <2>3 DEF BetInv
<1>5. ASSUME NEW m \in Markets, CloseMarket(m)
      PROVE  BetInv'
  <2>1. /\ UNCHANGED <<bets, pc, req, tx>>
        /\ markets[m].by = Nobody /\ \E value : markets' = [markets EXCEPT ![m] = Fresh(value)]
    BY <1>5 DEF CloseMarket
  <2>2. \A k \in Markets : markets'[k].by = markets[k].by
    <3>1. markets \in [Markets -> RowOf(Market)]
      BY <1>1 DEF HouseTyped, TypeOK
    <3> QED
      BY <2>1, <3>1 DEF Fresh
  <2>3. ASSUME NEW w \in Workers
        PROVE  BetsHeld(w)'
    <3>1. \A b \in BetIds : bets[b].now.ticket.market \in Markets
      BY <1>1, BetRows, TicketForm
    <3>2. HolderOK(w)'
      <4>1. HolderOK(w)
        BY DEF BetInv, BetsHeld
      <4> QED
        BY <2>1, <2>2, <3>1, <4>1 DEF HolderOK
    <3>3. LeaveOK(w)'
      BY <2>1 DEF BetInv, BetsHeld, LeaveOK
    <3>4. Looping(w)' = Looping(w) /\ Pending(w)' = Pending(w)
      BY <2>1 DEF Looping, Pending
    <3>5. LoopOK(w)'
      BY <1>1, <2>1, <2>2, <3>4, LoopRows DEF BetInv, BetsHeld, LoopOK
    <3> QED
      BY <3>2, <3>5, <3>3 DEF BetsHeld
  <2>4. CleanBets'
    BY <2>1 DEF BetInv, CleanBets
  <2> QED
    BY <1>1, <2>3, <2>4 DEF BetInv
<1> QED
  BY <1>1, <1>2, <1>3, <1>4, <1>5, StepKinds

LEMMA BetInit ==
    ASSUME \A mix \in Mixes : CashoutsApart(mix), Init
    PROVE  BetInv
<1>1. /\ \A b \in BetIds : bets[b].by = Nobody /\ bets[b].new = bets[b].now
      /\ \A w \in Workers : pc[w] = "idle" /\ req[w].op = "none"
  BY DEF Init, Fresh, NoRequest
<1>2. Apart
  BY <1>1 DEF Init, CashoutsApart, Apart
<1>3. CleanBets /\ \A w \in Workers : BetsHeld(w)
  BY <1>1, NobodyAssumption
     DEF CleanBets, BetsHeld, HolderOK, LoopOK, Looping, LeaveOK
<1> QED
  BY <1>2, <1>3, HeldInit DEF BetInv

\* If cash-outs keep apart from settlements and cancellations, a bet that a settlement or
\* a cancellation has loaded is open until it writes it: however placements, voids, updates
\* by an admin, crashes and other settlements interleave.
THEOREM BetsHeldAlways ==
    ASSUME \A mix \in Mixes : CashoutsApart(mix)
    PROVE  Spec => []BetInv
  BY BetInit, BetNext, PTL DEF Spec

----------------------------------------------------------------------------
(***************************************************************************)
(* That a bet at fixed odds is paid for once and returns once, and that    *)
(* the services implement BetBook.  Money and bet are written by different *)
(* statements of a transaction: the argument compares, at every statement, *)
(* the ledger as the transaction sees it with the bet as far as it has     *)
(* paid for it, and then shows that what others commit meanwhile is about  *)
(* other bets.                                                             *)
(***************************************************************************)

\* BetsPaidOnce, of one row and one user.
FairFor(row, u) ==
    IF row.ticket.user = u THEN FairLines(row) ELSE {Lines(0, "BET_STAKE", 0)}

\* A bet as far as w has paid for it: a winner is written before it is paid, the bet of a
\* cancelled market after.
Shown(w, b) ==
    IF pc[w] = "payout" /\ tx[w].bet = b THEN bets[b].now
    ELSE IF pc[w] = "unbet" /\ tx[w].bet = b THEN [bets[b].now EXCEPT !.status = "voided"]
    ELSE Seen(bets[b], w)

ViewOK(w) ==
    \A b \in BetIds : \A u \in Users :
        Booked(Seen(wallets[u], w), b) \in FairFor(Shown(w, b), u)

\* A wallet that w has written says of bets that w has not written what it said.
ForeignOK(w) ==
    \A b \in BetIds : \A u \in Users :
        wallets[u].by = w /\ bets[b].by # w /\ ~(pc[w] = "unbet" /\ tx[w].bet = b) =>
            Booked(wallets[u].new, b) = Booked(wallets[u].now, b)

MoneyOK(w) == ViewOK(w) /\ ForeignOK(w)

MoneyInv == BetInv /\ BetsPaidOnce /\ \A w \in Workers : MoneyOK(w)

----------------------------------------------------------------------------
(***************************************************************************)
(* The lines about a bet.                                                  *)
(***************************************************************************)

LEMMA BetEntries ==
    \A b \in BetIds : \A type \in BetTypes :
        /\ Entry(type, b) \in BetLine /\ Entry(type, b) \in Line
        /\ \A other, c : Entry(type, b) = Entry(other, c) <=> type = other /\ b = c
  BY DEF Entry, BetLine, BetTypes, Line

\* An entry about b.
LEMMA BookedEntry ==
    ASSUME NEW wallet, Shaped(wallet), NEW type, NEW b \in BetIds, NEW amount, NEW new,
           new \in {Record(wallet, type, b, amount), Credit(wallet, type, b, amount)}
    PROVE  /\ type \in BetTypes => Booked(new, b)[type] = Booked(wallet, b)[type] + amount
           /\ \A t \in BetTypes \ {type} : Booked(new, b)[t] = Booked(wallet, b)[t]
           /\ \A c \in BetIds \ {b} : Booked(new, c) = Booked(wallet, c)
<1>2. \A l \in Line :
          new.ledger[l] = IF l = Entry(type, b) THEN wallet.ledger[l] + amount
                          ELSE wallet.ledger[l]
  BY EntryWritten
<1>3. \A t \in BetTypes :
          /\ new.ledger[Entry(t, b)] = IF t = type THEN wallet.ledger[Entry(t, b)] + amount
                                       ELSE wallet.ledger[Entry(t, b)]
          /\ \A c \in BetIds \ {b} : new.ledger[Entry(t, c)] = wallet.ledger[Entry(t, c)]
  BY <1>2, BetEntries
<1> QED
  BY <1>3 DEF Booked

LEMMA BookedRecord ==
    ASSUME NEW wallet, Shaped(wallet), NEW type \in BetTypes, NEW b \in BetIds, NEW amount
    PROVE  LET new == Record(wallet, type, b, amount)
           IN  /\ Booked(new, b)[type] = Booked(wallet, b)[type] + amount
               /\ \A t \in BetTypes \ {type} : Booked(new, b)[t] = Booked(wallet, b)[t]
               /\ \A c \in BetIds \ {b} : Booked(new, c) = Booked(wallet, c)
<1> DEFINE new == Record(wallet, type, b, amount)
<1>1. new \in {Record(wallet, type, b, amount), Credit(wallet, type, b, amount)}
  OBVIOUS
<1> HIDE DEF new
<1>2. /\ Booked(new, b)[type] = Booked(wallet, b)[type] + amount
      /\ \A t \in BetTypes \ {type} : Booked(new, b)[t] = Booked(wallet, b)[t]
      /\ \A c \in BetIds \ {b} : Booked(new, c) = Booked(wallet, c)
  BY <1>1, BookedEntry
<1> QED
  BY <1>2 DEF new

LEMMA BookedCredit ==
    ASSUME NEW wallet, Shaped(wallet), NEW type \in BetTypes, NEW b \in BetIds, NEW amount
    PROVE  LET new == Credit(wallet, type, b, amount)
           IN  /\ Booked(new, b)[type] = Booked(wallet, b)[type] + amount
               /\ \A t \in BetTypes \ {type} : Booked(new, b)[t] = Booked(wallet, b)[t]
               /\ \A c \in BetIds \ {b} : Booked(new, c) = Booked(wallet, c)
<1> DEFINE new == Credit(wallet, type, b, amount)
<1>1. new \in {Record(wallet, type, b, amount), Credit(wallet, type, b, amount)}
  OBVIOUS
<1> HIDE DEF new
<1>2. /\ Booked(new, b)[type] = Booked(wallet, b)[type] + amount
      /\ \A t \in BetTypes \ {type} : Booked(new, b)[t] = Booked(wallet, b)[t]
      /\ \A c \in BetIds \ {b} : Booked(new, c) = Booked(wallet, c)
  BY <1>1, BookedEntry
<1> QED
  BY <1>2 DEF new

\* A stake that comes back by one entry.
LEMMA CreditBooked ==
    ASSUME NEW wallet \in Wallet, NEW b \in BetIds, NEW stake,
           Booked(wallet, b) = Lines(stake, "BET_STAKE", 0),
           NEW type \in BetTypes \ {"BET_STAKE"}, NEW amount
    PROVE  /\ amount \in Nat =>
                  Booked(Credit(wallet, type, b, amount), b) = Lines(stake, type, amount)
           /\ \A c \in BetIds \ {b} :
                  Booked(Credit(wallet, type, b, amount), c) = Booked(wallet, c)
<1> DEFINE new == Credit(wallet, type, b, amount)
<1>1. /\ Booked(new, b)[type] = Booked(wallet, b)[type] + amount
      /\ \A t \in BetTypes \ {type} : Booked(new, b)[t] = Booked(wallet, b)[t]
      /\ \A c \in BetIds \ {b} : Booked(new, c) = Booked(wallet, c)
  BY WalletShaped, BookedCredit
<1> HIDE DEF new
<1>2. amount \in Nat => \A t \in BetTypes : Booked(new, b)[t] = Lines(stake, type, amount)[t]
  BY <1>1 DEF Lines
<1>3. amount \in Nat => Booked(new, b) = Lines(stake, type, amount)
  BY <1>2 DEF Booked, Lines
<1> QED
  BY <1>1, <1>3 DEF new

\* What a statement leaves of the ledger.
LEMMA KeepsBooked ==
    ASSUME NEW w, NEW c \in BetIds, NEW lines, Keeps(w, lines),
           \A t \in BetTypes : Entry(t, c) \in lines
    PROVE  \A u \in Users : Booked(Seen(wallets[u], w)', c) = Booked(Seen(wallets[u], w), c)
<1>1. \A u \in Users : \A t \in BetTypes :
          Seen(wallets[u], w)'.ledger[Entry(t, c)] = Seen(wallets[u], w).ledger[Entry(t, c)]
  BY DEF Keeps
<1> QED
  BY <1>1 DEF Booked

----------------------------------------------------------------------------
(***************************************************************************)
(* Kinds of steps.                                                         *)
(***************************************************************************)

\* A step of w as another worker sees it.
LEMMA OthersMoney ==
    ASSUME NEW w \in Workers, NEW v \in Workers, v # w, HouseHeld, OwnStep(w), MoneyOK(v)
    PROVE  MoneyOK(v)'
<1>1. pc'[v] = pc[v] /\ tx'[v] = tx[v]
  BY DEF OwnStep
<1>2. \A b \in BetIds : /\ bets'[b].now = bets[b].now
                        /\ bets'[b].by = v <=> bets[b].by = v
                        /\ bets[b].by = v => bets'[b] = bets[b]
  BY BetRows, NobodyAssumption DEF OwnStep, OwnRows, Free
<1>3. \A u \in Users : /\ wallets'[u].now = wallets[u].now
                       /\ wallets'[u].by = v <=> wallets[u].by = v
                       /\ wallets[u].by = v => wallets'[u] = wallets[u]
  <2>1. DOMAIN wallets = Users
    BY Holding, Typed DEF TablesTypedNow
  <2> QED
    BY <2>1, NobodyAssumption DEF OwnStep, OwnRows, Free
<1>4. /\ \A b \in BetIds : Shown(v, b)' = Shown(v, b)
      /\ \A u \in Users : Seen(wallets[u], v)' = Seen(wallets[u], v)
  BY <1>1, <1>2, <1>3 DEF Shown, Seen
<1>5. ViewOK(v)'
  BY <1>4 DEF MoneyOK, ViewOK
<1>6. ForeignOK(v)'
  BY <1>1, <1>2, <1>3 DEF MoneyOK, ForeignOK
<1> QED
  BY <1>5, <1>6 DEF MoneyOK

\* A statement that is about bet b, or about none.
LEMMA OneBet ==
    ASSUME NEW w \in Workers, HouseHeld, OwnStep(w), MoneyOK(w), NEW about \in SUBSET BetIds,
           pc[w] = "unbet" => tx[w].bet \in about,
           \A c \in BetIds \ about :
               /\ Shown(w, c)' = Shown(w, c)
               /\ \A u \in Users :
                      Booked(Seen(wallets[u], w)', c) = Booked(Seen(wallets[u], w), c),
           \A b \in about :
               /\ bets'[b].by = w \/ (pc'[w] = "unbet" /\ tx'[w].bet = b)
               /\ \A u \in Users : Booked(Seen(wallets[u], w)', b) \in FairFor(Shown(w, b)', u)
    PROVE  MoneyOK(w)'
<1>1. ViewOK(w)'
  BY DEF MoneyOK, ViewOK
<1>2. \A c \in BetIds : bets'[c].by # w => bets[c].by # w
  BY BetRows DEF OwnStep, OwnRows
<1>3. \A u \in Users : wallets'[u].now = wallets[u].now
  <2>1. DOMAIN wallets = Users
    BY Holding, Typed DEF TablesTypedNow
  <2> QED
    BY <2>1 DEF OwnStep, OwnRows
<1>4. ASSUME NEW c \in BetIds, NEW u \in Users, wallets'[u].by = w, bets'[c].by # w,
             ~(pc'[w] = "unbet" /\ tx'[w].bet = c)
      PROVE  Booked(wallets'[u].new, c) = Booked(wallets'[u].now, c)
  <2>1. c \notin about /\ ~(pc[w] = "unbet" /\ tx[w].bet = c)
    BY <1>4
  <2>2. Booked(wallets'[u].new, c) = Booked(Seen(wallets[u], w), c)
    <3>1. Seen(wallets[u], w)' = wallets'[u].new
      BY <1>4 DEF Seen
    <3> QED
      BY <2>1, <3>1
  <2>3. Booked(Seen(wallets[u], w), c) = Booked(wallets[u].now, c)
    BY <1>2, <1>4, <2>1 DEF MoneyOK, ForeignOK, Seen
  <2> QED
    BY <1>3, <2>2, <2>3
<1>5. ForeignOK(w)'
  BY <1>4 DEF ForeignOK
<1> QED
  BY <1>1, <1>5 DEF MoneyOK

\* A statement that is about no bet.
LEMMA NoBet ==
    ASSUME NEW w \in Workers, HouseHeld, OwnStep(w), MoneyOK(w), Keeps(w, BetLine),
           pc[w] # "unbet", \A b \in BetIds : Shown(w, b)' = Shown(w, b)
    PROVE  MoneyOK(w)'
<1>1. \A c \in BetIds : \A u \in Users :
          Booked(Seen(wallets[u], w)', c) = Booked(Seen(wallets[u], w), c)
  BY BetEntries, KeepsBooked
<1> DEFINE none == BetIds \ BetIds
<1>2. none \in SUBSET BetIds /\ \A b : b \notin none
  OBVIOUS
<1> HIDE DEF none
<1> QED
  BY <1>1, <1>2, OneBet

\* What FairFor says.
LEMMA FairRows ==
    ASSUME NEW row
    PROVE  /\ \A u : u # row.ticket.user => FairFor(row, u) = {Lines(0, "BET_STAKE", 0)}
           /\ row.status = "none" =>
                  \A u : FairFor(row, u) = {Lines(0, "BET_STAKE", 0)}
           /\ row.status \in {"open", "settled_loss"} =>
                  FairFor(row, row.ticket.user) = {Lines(row.ticket.stake, "BET_STAKE", 0)}
           /\ row.status = "settled_win" =>
                  FairFor(row, row.ticket.user) =
                      {Lines(row.ticket.stake, "BET_WIN_PAYOUT", Payout(row.ticket))}
           /\ row.status = "voided" =>
                  FairFor(row, row.ticket.user) =
                      {Lines(row.ticket.stake, "BET_VOID_REFUND", row.ticket.stake),
                       Lines(row.ticket.stake, "BET_CANCEL_REFUND", row.ticket.stake),
                       CashLines(row.ticket)}
  BY DEF FairFor, FairLines

----------------------------------------------------------------------------
(***************************************************************************)
(* A worker's own statements.                                              *)
(***************************************************************************)

\* The wallet of a bet's user is written, about that bet only.
LEMMA BetPaid ==
    ASSUME NEW w \in Workers, HouseHeld, OwnStep(w), MoneyOK(w),
           NEW b \in BetIds, NEW u \in Users,
           \A v \in Users \ {u} : Seen(wallets[v], w)' = Seen(wallets[v], w),
           Shown(w, b)'.ticket.user = u,
           Shown(w, b).ticket.user = u \/ Shown(w, b).status = "none",
           Booked(Seen(wallets[u], w)', b) \in FairFor(Shown(w, b)', u),
           \A c \in BetIds \ {b} :
               /\ Shown(w, c)' = Shown(w, c)
               /\ Booked(Seen(wallets[u], w)', c) = Booked(Seen(wallets[u], w), c),
           bets'[b].by = w \/ (pc'[w] = "unbet" /\ tx'[w].bet = b), pc[w] # "unbet"
    PROVE  MoneyOK(w)'
<1>1. \A v \in Users \ {u} : Booked(Seen(wallets[v], w)', b) \in FairFor(Shown(w, b)', v)
  BY FairRows DEF MoneyOK, ViewOK
<1> DEFINE about == {b}
<1>2. /\ about \in SUBSET BetIds
      /\ \A c \in BetIds \ about :
             /\ Shown(w, c)' = Shown(w, c)
             /\ \A v \in Users : Booked(Seen(wallets[v], w)', c) = Booked(Seen(wallets[v], w), c)
      /\ \A c \in about :
             /\ bets'[c].by = w \/ (pc'[w] = "unbet" /\ tx'[w].bet = c)
             /\ \A v \in Users : Booked(Seen(wallets[v], w)', c) \in FairFor(Shown(w, c)', v)
  BY <1>1
<1> HIDE DEF about
<1> QED
  BY <1>2, OneBet

\* An open bet, as w shows it, of which all that is booked is the stake.
LEMMA OpenBooked ==
    ASSUME NEW w \in Workers, HouseHeld, MoneyOK(w), NEW b \in BetIds,
           Shown(w, b).status = "open", Shown(w, b).ticket \in Ticket
    PROVE  LET t == Shown(w, b).ticket
               wallet == Seen(wallets[t.user], w)
           IN  /\ t.user \in Users /\ t.stake \in Nat /\ wallet \in Wallet
               /\ Booked(wallet, b) = Lines(t.stake, "BET_STAKE", 0)
<1> DEFINE t == Shown(w, b).ticket
<1>1. t.user \in Users /\ t.stake \in Nat
  BY TicketForm DEF Ticket
<1>2. Seen(wallets[t.user], w) \in Wallet
  BY <1>1, Holding, Typed, VersionsTyped DEF TablesTypedNow
<1>3. Booked(Seen(wallets[t.user], w), b) \in FairFor(Shown(w, b), t.user)
  BY <1>1 DEF MoneyOK, ViewOK
<1> QED
  BY <1>1, <1>2, <1>3, FairRows

\* The one entry by which a bet returns.
ReturnedBy(row, type, amount) ==
    \/ row.status = "settled_win" /\ type = "BET_WIN_PAYOUT" /\ amount = Payout(row.ticket)
    \/ /\ row.status = "voided" /\ type \in {"BET_VOID_REFUND", "BET_CANCEL_REFUND"}
       /\ amount = row.ticket.stake

\* A bet that is open returns by one entry, and is shown as decided so.
LEMMA BetReturns ==
    ASSUME NEW w \in Workers, HouseHeld, OwnStep(w), MoneyOK(w), NEW b \in BetIds,
           Shown(w, b).status = "open", Shown(w, b).ticket \in Ticket,
           Shown(w, b)'.ticket = Shown(w, b).ticket,
           NEW u, u = Shown(w, b).ticket.user, NEW type, NEW amount \in Nat,
           ReturnedBy(Shown(w, b)', type, amount),
           Seen(wallets[u], w)' = Credit(Seen(wallets[u], w), type, b, amount),
           \A v \in Users \ {u} : Seen(wallets[v], w)' = Seen(wallets[v], w),
           \A c \in BetIds \ {b} : Shown(w, c)' = Shown(w, c),
           bets'[b].by = w \/ (pc'[w] = "unbet" /\ tx'[w].bet = b), pc[w] # "unbet"
    PROVE  MoneyOK(w)'
<1> DEFINE t == Shown(w, b).ticket
           wallet == Seen(wallets[u], w)
           value == Credit(wallet, type, b, amount)
<1>1. /\ u \in Users /\ wallet \in Wallet
      /\ Booked(wallet, b) = Lines(t.stake, "BET_STAKE", 0)
  BY OpenBooked
<1>2. type \in BetTypes \ {"BET_STAKE"}
  BY DEF BetTypes, ReturnedBy
<1>3. /\ Booked(value, b) = Lines(t.stake, type, amount)
      /\ \A c \in BetIds \ {b} : Booked(value, c) = Booked(wallet, c)
  <2> DEFINE stake == t.stake
  <2>1. Booked(wallet, b) = Lines(stake, "BET_STAKE", 0)
    BY <1>1
  <2> HIDE DEF wallet, stake
  <2>2. /\ Booked(value, b) = Lines(stake, type, amount)
        /\ \A c \in BetIds \ {b} : Booked(value, c) = Booked(wallet, c)
    BY <1>1, <1>2, <2>1, CreditBooked
  <2> QED
    BY <2>2 DEF stake
<1>4. Booked(value, b) \in FairFor(Shown(w, b)', u)
  BY <1>3, FairRows DEF ReturnedBy
<1> QED
  BY <1>1, <1>3, <1>4, BetPaid

\* What w shows, by what it does.
LEMMA ShownRow ==
    ASSUME NEW w, NEW b
    PROVE  /\ ~(pc[w] \in {"payout", "unbet"} /\ tx[w].bet = b) => Shown(w, b) = Seen(bets[b], w)
           /\ pc[w] = "payout" /\ tx[w].bet = b => Shown(w, b) = bets[b].now
           /\ pc[w] = "unbet" /\ tx[w].bet = b =>
                  Shown(w, b) = [bets[b].now EXCEPT !.status = "voided"]
  BY DEF Shown

LEMMA PayWinnerMoney ==
    ASSUME NEW w \in Workers, HouseHeld, OwnStep(w), BetsHeld(w), MoneyOK(w),
           PayWinner(w), ~Rollback(w)
    PROVE  MoneyOK(w)'
<1> PICK b, t, u : b = tx[w].bet /\ t = bets[b].new.ticket /\ u = t.user
  OBVIOUS
<1> DEFINE wallet == Seen(wallets[u], w)
           amount == Payout(t)
           paid == Credit(wallet, "BET_WIN_PAYOUT", b, amount)
           row == bets[b].new
<1>1. /\ pc[w] = "payout" /\ Goto(w, "result")
      /\ wallets' = [wallets EXCEPT ![u] = Written(@, w, paid)]
      /\ UNCHANGED <<bets, tx>>
  BY Zenon DEF PayWinner
<1>2. /\ wallets \in [Users -> RowOf(Wallet)] /\ b \in BetIds /\ pc'[w] = "result"
      /\ t \in Ticket /\ bets[b].now \in Bet
  BY <1>1, BetRows, Holding, Typed, VersionsTyped DEF TablesTypedNow, Goto
<1>3. u \in Users /\ amount \in Nat
  BY <1>2, TicketForm, Worths
<1>4. /\ bets[b].by = w /\ bets[b].now.status = "open"
      /\ row = [bets[b].now EXCEPT !.status = "settled_win"]
  BY <1>1 DEF BetsHeld, LeaveOK
<1>5. bets[b].now.ticket = t /\ row.ticket = t /\ row.status = "settled_win"
  BY <1>2, <1>4 DEF Bet
<1>6. /\ Shown(w, b) = bets[b].now /\ Shown(w, b)' = row
      /\ \A c \in BetIds \ {b} : Shown(w, c)' = Shown(w, c)
  BY <1>1, <1>2, <1>4 DEF Shown, Seen
<1>7. bets'[b].by = w
  BY <1>1, <1>4
<1>8. amount = Payout(t) /\ paid = Credit(wallet, "BET_WIN_PAYOUT", b, amount)
  OBVIOUS
<1>9. wallet = Seen(wallets[u], w)
  OBVIOUS
<1> HIDE DEF wallet, amount, paid, row
<1>10. /\ Seen(wallets[u], w)' = paid
       /\ \A v \in Users \ {u} : Seen(wallets[v], w)' = Seen(wallets[v], w)
  <2>1. wallets' = [wallets EXCEPT ![u] = Written(@, w, paid)]
    BY <1>1
  <2>2. wallets \in [Users -> RowOf(Wallet)] /\ u \in Users
    BY <1>2, <1>3
  <2> QED
    BY <2>1, <2>2, WalletWritten, Zenon
<1>11. Seen(wallets[u], w)' = Credit(Seen(wallets[u], w), "BET_WIN_PAYOUT", b, amount)
  BY <1>8, <1>9, <1>10
<1>12. /\ Shown(w, b).status = "open" /\ Shown(w, b).ticket \in Ticket
       /\ Shown(w, b)'.ticket = Shown(w, b).ticket /\ u = Shown(w, b).ticket.user
       /\ ReturnedBy(Shown(w, b)', "BET_WIN_PAYOUT", amount)
       /\ \A c \in BetIds \ {b} : Shown(w, c)' = Shown(w, c)
  BY <1>2, <1>4, <1>5, <1>6, <1>8, Zenon DEF ReturnedBy
<1>13. pc[w] # "unbet"
  BY <1>1
<1> QED
  BY <1>2, <1>3, <1>7, <1>10, <1>11, <1>12, <1>13, BetReturns

LEMMA CreditBetMoney ==
    ASSUME NEW w \in Workers, HouseHeld, OwnStep(w), BetsHeld(w), MoneyOK(w), CreditBet(w)
    PROVE  MoneyOK(w)'
<1>1. PICK b \in tx[w].batch :
          LET t == bets[b].now.ticket
          IN  /\ wallets' = [wallets EXCEPT ![t.user] =
                     Written(@, w, Credit(Seen(@, w), "BET_CANCEL_REFUND", b, t.stake))]
              /\ tx' = [tx EXCEPT ![w].batch = @ \ {b}, ![w].bet = b]
  BY Zenon DEF CreditBet
<1>2. /\ pc[w] = "credit" /\ Goto(w, "unbet") /\ Mechanism(req[w].market) = "fixed_odds"
      /\ UNCHANGED bets
  BY DEF CreditBet
<1> PICK t, u : t = bets[b].now.ticket /\ u = t.user
  OBVIOUS
<1> DEFINE wallet == Seen(wallets[u], w)
           amount == t.stake
           paid == Credit(wallet, "BET_CANCEL_REFUND", b, amount)
<1>3. wallets' = [wallets EXCEPT ![u] = Written(@, w, paid)]
  BY <1>1
<1>4. /\ Looping(w) /\ b \in BetIds /\ bets[b].now.status = "open" /\ bets[b].by # w
  BY <1>2, LoopRows DEF BetsHeld, LoopOK, Looping, Pending
<1>5. /\ wallets \in [Users -> RowOf(Wallet)] /\ t \in Ticket /\ bets[b].now \in Bet
      /\ pc'[w] = "unbet" /\ tx'[w].bet = b
  BY <1>1, <1>2, <1>4, BetRows, Holding, Typed, VersionsTyped DEF TablesTypedNow, Goto, Tx
<1>6. u \in Users /\ amount \in Nat
  BY <1>5, TicketForm DEF Ticket
<1>7. /\ Shown(w, b) = bets[b].now
      /\ Shown(w, b)' = [bets[b].now EXCEPT !.status = "voided"]
      /\ \A c \in BetIds \ {b} : Shown(w, c)' = Shown(w, c)
  BY <1>2, <1>4, <1>5 DEF Shown, Seen
<1>8. /\ Shown(w, b).status = "open" /\ Shown(w, b).ticket \in Ticket
      /\ Shown(w, b)'.ticket = Shown(w, b).ticket /\ u = Shown(w, b).ticket.user
      /\ ReturnedBy(Shown(w, b)', "BET_CANCEL_REFUND", amount)
  BY <1>4, <1>5, <1>7 DEF Bet, ReturnedBy
<1>9. paid = Credit(wallet, "BET_CANCEL_REFUND", b, amount) /\ wallet = Seen(wallets[u], w)
  OBVIOUS
<1> HIDE DEF wallet, amount, paid
<1>10. /\ Seen(wallets[u], w)' = paid
       /\ \A v \in Users \ {u} : Seen(wallets[v], w)' = Seen(wallets[v], w)
  BY <1>3, <1>5, <1>6, WalletWritten
<1>11. Seen(wallets[u], w)' = Credit(Seen(wallets[u], w), "BET_CANCEL_REFUND", b, amount)
  BY <1>9, <1>10
<1>12. pc[w] # "unbet"
  BY <1>2
<1> QED
  BY <1>4, <1>5, <1>6, <1>7, <1>8, <1>10, <1>11, <1>12, BetReturns

\* What a void's and a cash-out's UPDATE does to the row they hold, and to what is shown.
LEMMA HeldBetVoided ==
    ASSUME NEW w \in Workers, HouseHeld, NEW b \in BetIds, bets[b].by = w,
           bets' = [bets EXCEPT ![b].new.status = "voided"],
           pc[w] \notin {"payout", "unbet"}, pc'[w] \notin {"payout", "unbet"}
    PROVE  /\ bets'[b].by = w /\ bets'[b].new = [bets[b].new EXCEPT !.status = "voided"]
           /\ \A c \in BetIds \ {b} : bets'[c] = bets[c]
           /\ Shown(w, b) = bets[b].new /\ Shown(w, b)' = bets'[b].new
           /\ \A c \in BetIds \ {b} : Shown(w, c)' = Shown(w, c)
<1>1. bets \in [BetIds -> RowOf(Bet)]
  BY BetRows
<1>2. PICK row \in RowOf(Bet) : row = bets[b]
  BY <1>1
<1>3. PICK new : new = [row EXCEPT !.new.status = "voided"]
  OBVIOUS
<1>4. new.by = row.by /\ new.new = [row.new EXCEPT !.status = "voided"]
  BY <1>3 DEF RowOf
<1>5. bets' = [bets EXCEPT ![b] = new]
  BY <1>2, <1>3
<1>6. bets'[b] = new /\ \A c \in BetIds \ {b} : bets'[c] = bets[c]
  BY <1>1, <1>5
<1>7. \A c \in BetIds : Shown(w, c) = Seen(bets[c], w) /\ Shown(w, c)' = Seen(bets'[c], w)
  BY DEF Shown
<1> QED
  BY <1>2, <1>4, <1>6, <1>7 DEF Seen

LEMMA RefundStakeMoney ==
    ASSUME NEW w \in Workers, HouseHeld, OwnStep(w), BetsHeld(w), MoneyOK(w), RefundStake(w)
    PROVE  MoneyOK(w)'
<1> PICK b, t, u : b = tx[w].bet /\ t = bets[b].new.ticket /\ u = t.user
  OBVIOUS
<1> DEFINE wallet == wallets[u].now
           amount == t.stake
           paid == Credit(wallet, "BET_VOID_REFUND", b, amount)
<1>1. /\ pc[w] = "refund" /\ Goto(w, "touch")
      /\ wallets' = [wallets EXCEPT ![u] = Written(@, w, paid)]
      /\ bets' = [bets EXCEPT ![b].new.status = "voided"]
  BY DEF RefundStake
<1>2. /\ wallets \in [Users -> RowOf(Wallet)] /\ b \in BetIds /\ pc'[w] = "touch"
      /\ bets[b].by = w /\ t \in Ticket /\ bets[b].new \in Bet
  BY <1>1, BetRows, Holding, Typed, VersionsTyped, Zenon DEF TablesTypedNow, Goto, LocksOK
<1>3. u \in Users /\ amount \in Nat
  BY <1>2, TicketForm DEF Ticket
<1>4. bets[b].new.status = "open"
  BY <1>1 DEF BetsHeld, LeaveOK
<1>5. /\ bets'[b].by = w /\ bets'[b].new = [bets[b].new EXCEPT !.status = "voided"]
      /\ \A c \in BetIds \ {b} : bets'[c] = bets[c]
  BY <1>1, <1>2, HeldBetVoided
<1>6. /\ Shown(w, b) = bets[b].new /\ Shown(w, b)' = bets'[b].new
      /\ \A c \in BetIds \ {b} : Shown(w, c)' = Shown(w, c)
  BY <1>1, <1>2, HeldBetVoided
<1>7. /\ Shown(w, b).status = "open" /\ Shown(w, b).ticket \in Ticket
      /\ Shown(w, b)'.ticket = Shown(w, b).ticket /\ u = Shown(w, b).ticket.user
      /\ ReturnedBy(Shown(w, b)', "BET_VOID_REFUND", amount)
  BY <1>2, <1>4, <1>5, <1>6 DEF Bet, ReturnedBy
<1>8. /\ paid = Credit(wallet, "BET_VOID_REFUND", b, amount)
      /\ wallet = Seen(wallets[u], w)
  BY <1>1, <1>3, Holding DEF HoldingOK, WalletAt, Seen
<1> HIDE DEF wallet, amount, paid
<1>9. /\ Seen(wallets[u], w)' = paid
      /\ \A v \in Users \ {u} : Seen(wallets[v], w)' = Seen(wallets[v], w)
  <2>1. wallets' = [wallets EXCEPT ![u] = Written(@, w, paid)]
    BY <1>1
  <2>2. wallets \in [Users -> RowOf(Wallet)] /\ u \in Users
    BY <1>2, <1>3
  <2> QED
    BY <2>1, <2>2, WalletWritten, Zenon
<1>10. Seen(wallets[u], w)' = Credit(Seen(wallets[u], w), "BET_VOID_REFUND", b, amount)
  BY <1>8, <1>9, Zenon
<1>11. pc[w] # "unbet"
  BY <1>1
<1> QED
  <2>1. b \in BetIds /\ amount \in Nat /\ bets'[b].by = w
    BY <1>2, <1>3, <1>5
  <2>2. \A c \in BetIds \ {b} : Shown(w, c)' = Shown(w, c)
    BY <1>6
  <2>3. \A v \in Users \ {u} : Seen(wallets[v], w)' = Seen(wallets[v], w)
    BY <1>9
  <2> QED
    BY <1>7, <1>10, <1>11, <2>1, <2>2, <2>3, BetReturns

\* What a cash-out books.
LEMMA CashBooked ==
    ASSUME NEW wallet \in Wallet, NEW b \in BetIds, NEW t, CashoutNet(t) \in Nat,
           CashoutFee(t) \in Nat, Booked(wallet, b) = Lines(t.stake, "BET_STAKE", 0),
           NEW paid, paid = Credit(wallet, "BET_CASHOUT_PAYOUT", b, CashoutNet(t)),
           NEW noted, noted = Record(paid, "BET_CASHOUT_FEE", b, CashoutFee(t))
    PROVE  /\ Booked(noted, b) = CashLines(t)
           /\ \A c \in BetIds \ {b} : Booked(noted, c) = Booked(wallet, c)
<1> DEFINE payout == "BET_CASHOUT_PAYOUT"
           charge == "BET_CASHOUT_FEE"
           stake == t.stake
           net == CashoutNet(t)
           fee == CashoutFee(t)
<1>1. /\ net \in Nat /\ fee \in Nat /\ Booked(wallet, b) = Lines(stake, "BET_STAKE", 0)
      /\ payout \in BetTypes /\ charge \in BetTypes
      /\ payout # charge /\ payout # "BET_STAKE" /\ charge # "BET_STAKE"
  BY DEF BetTypes
<1>2. CashLines(t) = [Lines(stake, payout, net) EXCEPT ![charge] = fee]
  BY DEF CashLines
<1>3. Shaped(wallet) /\ paid = Credit(wallet, payout, b, net)
  BY WalletShaped
<1>4. noted = Record(paid, charge, b, fee)
  OBVIOUS
<1> HIDE DEF stake, net, fee, payout, charge
<1>5. Shaped(paid)
  BY <1>3, OtherLines
<1>6. /\ Booked(paid, b)[payout] = Booked(wallet, b)[payout] + net
      /\ \A l \in BetTypes \ {payout} : Booked(paid, b)[l] = Booked(wallet, b)[l]
      /\ \A c \in BetIds \ {b} : Booked(paid, c) = Booked(wallet, c)
  BY <1>1, <1>3, BookedCredit
<1>7. /\ Booked(noted, b)[charge] = Booked(paid, b)[charge] + fee
      /\ \A l \in BetTypes \ {charge} : Booked(noted, b)[l] = Booked(paid, b)[l]
      /\ \A c \in BetIds \ {b} : Booked(noted, c) = Booked(paid, c)
  BY <1>1, <1>4, <1>5, BookedRecord
<1>8. \A l \in BetTypes : Booked(noted, b)[l] = CashLines(t)[l]
  <2>1. \A l \in BetTypes :
            Booked(wallet, b)[l] = IF l = "BET_STAKE" THEN stake ELSE 0
    BY <1>1 DEF Lines
  <2>2. \A l \in BetTypes :
            CashLines(t)[l] = IF l = charge THEN fee
                              ELSE IF l = "BET_STAKE" THEN stake
                              ELSE IF l = payout THEN net ELSE 0
    BY <1>2 DEF Lines
  <2>3. /\ Booked(noted, b)[charge] = fee /\ Booked(noted, b)[payout] = net
        /\ \A l \in BetTypes \ {charge, payout} :
               Booked(noted, b)[l] = IF l = "BET_STAKE" THEN stake ELSE 0
    BY <1>1, <1>6, <1>7, <2>1
  <2> QED
    BY <1>1, <2>2, <2>3
<1>9. Booked(noted, b) = CashLines(t)
  BY <1>2, <1>8 DEF Booked, Lines
<1> QED
  BY <1>6, <1>7, <1>9

LEMMA CashOutMoney ==
    ASSUME NEW w \in Workers, HouseHeld, OwnStep(w), BetsHeld(w), MoneyOK(w),
           CashOut(w), ~Rollback(w)
    PROVE  MoneyOK(w)'
<1> PICK b, t, u : b = tx[w].bet /\ t = bets[b].new.ticket /\ u = t.user
  OBVIOUS
<1> DEFINE wallet == wallets[u].now
           paid == Credit(wallet, "BET_CASHOUT_PAYOUT", b, CashoutNet(t))
           noted == Record(paid, "BET_CASHOUT_FEE", b, CashoutFee(t))
<1>1. /\ pc[w] = "cashout" /\ Goto(w, "commit") /\ ~(CashoutNet(t) <= 0)
      /\ wallets' = [wallets EXCEPT ![u] = Written(@, w, noted)]
      /\ bets' = [bets EXCEPT ![b].new.status = "voided"]
  BY Zenon DEF CashOut
<1>2. /\ wallets \in [Users -> RowOf(Wallet)] /\ b \in BetIds /\ pc'[w] = "commit"
      /\ bets[b].by = w /\ t \in Ticket /\ bets[b].new \in Bet
  BY <1>1, BetRows, Holding, Typed, VersionsTyped DEF TablesTypedNow, Goto, LocksOK
<1>3. /\ u \in Users /\ CashoutNet(t) \in Int /\ CashoutFee(t) \in Nat
  BY <1>2, TicketForm, Worths
<1>4. bets[b].new.status = "open"
  BY <1>1 DEF BetsHeld, LeaveOK
<1>5. /\ bets'[b].by = w /\ bets'[b].new = [bets[b].new EXCEPT !.status = "voided"]
      /\ \A c \in BetIds \ {b} : bets'[c] = bets[c]
  BY <1>1, <1>2, HeldBetVoided
<1>6. /\ Shown(w, b) = bets[b].new /\ Shown(w, b)' = bets'[b].new
      /\ \A c \in BetIds \ {b} : Shown(w, c)' = Shown(w, c)
  BY <1>1, <1>2, HeldBetVoided
<1>7. /\ Shown(w, b).status = "open" /\ Shown(w, b).ticket = t
      /\ Shown(w, b)'.ticket = t /\ Shown(w, b)'.status = "voided"
  BY <1>2, <1>4, <1>5, <1>6 DEF Bet
<1>8. wallet = Seen(wallets[u], w)
  BY <1>1, <1>3, Holding DEF HoldingOK, WalletAt, Seen
<1>9. wallet \in Wallet /\ Booked(wallet, b) = Lines(t.stake, "BET_STAKE", 0)
  BY <1>2, <1>7, <1>8, OpenBooked, Zenon
<1>10. /\ paid = Credit(wallet, "BET_CASHOUT_PAYOUT", b, CashoutNet(t))
       /\ noted = Record(paid, "BET_CASHOUT_FEE", b, CashoutFee(t))
  OBVIOUS
<1> HIDE DEF wallet, paid, noted
<1>11. /\ Booked(noted, b) = CashLines(t)
       /\ \A c \in BetIds \ {b} : Booked(noted, c) = Booked(wallet, c)
  <2>1. ~(CashoutNet(t) <= 0)
    BY <1>1
  <2>2. CashoutNet(t) \in Nat /\ CashoutFee(t) \in Nat
    BY <1>3, <2>1
  <2>3. b \in BetIds
    BY <1>2
  <2>4. Booked(noted, b) = CashLines(t)
    BY <1>9, <1>10, <2>2, <2>3, CashBooked
  <2>5. \A c \in BetIds \ {b} : Booked(noted, c) = Booked(wallet, c)
    BY <1>9, <1>10, <2>2, <2>3, CashBooked
  <2> QED
    BY <2>4, <2>5
<1>12. /\ Seen(wallets[u], w)' = noted
       /\ \A v \in Users \ {u} : Seen(wallets[v], w)' = Seen(wallets[v], w)
  <2>1. wallets' = [wallets EXCEPT ![u] = Written(@, w, noted)]
    BY <1>1
  <2>2. wallets \in [Users -> RowOf(Wallet)] /\ u \in Users
    BY <1>2, <1>3
  <2> QED
    BY <2>1, <2>2, WalletWritten
<1>13. Booked(noted, b) \in FairFor(Shown(w, b)', u)
  BY <1>7, <1>11, FairRows
<1>14. /\ pc[w] # "unbet" /\ bets'[b].by = w
       /\ Shown(w, b)'.ticket.user = u /\ Shown(w, b).ticket.user = u
       /\ \A c \in BetIds \ {b} :
              Shown(w, c)' = Shown(w, c) /\ Booked(noted, c) = Booked(Seen(wallets[u], w), c)
  BY <1>1, <1>5, <1>6, <1>7, <1>8, <1>11, Zenon
<1> QED
  BY <1>2, <1>3, <1>12, <1>13, <1>14, BetPaid

LEMMA InsertBetMoney ==
    ASSUME NEW w \in Workers, HouseHeld, OwnStep(w), BetsHeld(w), MoneyOK(w), InsertBet(w)
    PROVE  MoneyOK(w)'
<1> DEFINE slip == IF req[w].op = "execute" THEN req[w].slip ELSE Nobody
           Inserted(t) == [ticket |-> t, slip |-> slip, status |-> "open"]
<1> PICK t, u : t = Head(tx[w].items) /\ u = t.user
  OBVIOUS
<1>1. pc[w] = "insert" /\ (Goto(w, "commit") \/ Goto(w, "look"))
  BY DEF InsertBet
<1>2. PICK b \in FreeBets :
          /\ bets' = [bets EXCEPT ![b] = Written(@, w, Inserted(t))]
          /\ wallets' = [wallets EXCEPT ![u].new = Record(@, "BET_STAKE", b, t.stake)]
  BY Zenon DEF InsertBet
<1>3. /\ wallets \in [Users -> RowOf(Wallet)] /\ bets \in [BetIds -> RowOf(Bet)]
      /\ b \in BetIds /\ bets[b].by = Nobody /\ bets[b].now.status = "none"
      /\ pc'[w] \in {"commit", "look"} /\ t \in Ticket
  <2>1. tx[w].items \in Seq(Ticket) /\ tx[w].items # <<>>
    BY <1>1, Holding, Typed DEF ServingOK, Tx
  <2>2. t \in Ticket
    BY <2>1, HeadAndTail
  <2> QED
    BY <1>1, <2>2, BetRows, Holding, Typed DEF TablesTypedNow, FreeBets, Goto
<1>4. u \in Users /\ t.stake \in Nat
  BY <1>3, TicketForm DEF Ticket
<1> DEFINE row == Inserted(t)
<1>5. row.ticket = t /\ row.status = "open"
  OBVIOUS
<1> HIDE DEF row
<1>6. /\ bets'[b].by = w /\ bets'[b].new = row /\ \A c \in BetIds \ {b} : bets'[c] = bets[c]
  BY <1>2, <1>3 DEF Written, RowOf, row
<1>7. /\ Shown(w, b) = bets[b].now /\ Shown(w, b)' = row
      /\ \A c \in BetIds \ {b} : Shown(w, c)' = Shown(w, c)
  BY <1>1, <1>3, <1>6, NobodyAssumption DEF Shown, Seen
<1> DEFINE wallet == wallets[u].new
           noted == Record(wallet, "BET_STAKE", b, t.stake)
<1>8. wallets[u].by = w /\ Seen(wallets[u], w) = wallet /\ wallet \in Wallet
  BY <1>1, <1>3, <1>4, Holding, VersionsTyped DEF HoldingOK, Seen
<1>9. /\ wallets'[u].by = w /\ wallets'[u].new = noted
      /\ \A v \in Users \ {u} : wallets'[v] = wallets[v]
  <2>1. PICK old \in RowOf(Wallet) : old = wallets[u]
    BY <1>3, <1>4
  <2>2. PICK new : new = [old EXCEPT !.new = noted]
    OBVIOUS
  <2>3. new.by = old.by /\ new.new = noted
    BY <2>2 DEF RowOf
  <2>4. wallets' = [wallets EXCEPT ![u] = new]
    BY <1>2, <2>1, <2>2, Zenon
  <2>5. wallets'[u] = new /\ \A v \in Users \ {u} : wallets'[v] = wallets[v]
    BY <1>3, <1>4, <2>4
  <2> QED
    BY <1>8, <2>1, <2>3, <2>5
<1>10. /\ Seen(wallets[u], w)' = noted
       /\ \A v \in Users \ {u} : Seen(wallets[v], w)' = Seen(wallets[v], w)
  BY <1>9 DEF Seen
<1>11. Booked(wallet, b) = Lines(0, "BET_STAKE", 0)
  BY <1>3, <1>4, <1>7, <1>8, FairRows DEF MoneyOK, ViewOK
<1>12. /\ Booked(noted, b)["BET_STAKE"] = Booked(wallet, b)["BET_STAKE"] + t.stake
       /\ \A l \in BetTypes \ {"BET_STAKE"} : Booked(noted, b)[l] = Booked(wallet, b)[l]
       /\ \A c \in BetIds \ {b} : Booked(noted, c) = Booked(wallet, c)
  <2>1. Shaped(wallet) /\ "BET_STAKE" \in BetTypes
    BY <1>8, WalletShaped DEF BetTypes
  <2> HIDE DEF wallet
  <2> QED
    BY <1>3, <2>1, BookedRecord
<1> HIDE DEF wallet, noted
<1>13. Booked(noted, b) = Lines(t.stake, "BET_STAKE", 0)
  <2>1. \A l \in BetTypes : Booked(noted, b)[l] = Lines(t.stake, "BET_STAKE", 0)[l]
    BY <1>4, <1>11, <1>12 DEF Lines
  <2> QED
    BY <2>1 DEF Booked, Lines
<1>14. /\ Booked(Seen(wallets[u], w)', b) \in FairFor(Shown(w, b)', u)
       /\ Shown(w, b)'.ticket.user = u /\ Shown(w, b).status = "none"
       /\ bets'[b].by = w /\ pc[w] # "unbet"
       /\ \A c \in BetIds \ {b} :
              /\ Shown(w, c)' = Shown(w, c)
              /\ Booked(Seen(wallets[u], w)', c) = Booked(Seen(wallets[u], w), c)
  BY <1>1, <1>3, <1>5, <1>6, <1>7, <1>8, <1>10, <1>12, <1>13, FairRows
<1> QED
  BY <1>3, <1>4, <1>10, <1>14, BetPaid

\* A bet is locked as it is.
LEMMA LockBetMoney ==
    ASSUME NEW w \in Workers, HouseHeld, CleanBets, OwnStep(w), BetsHeld(w), MoneyOK(w),
           LockBet(w), ~Rollback(w)
    PROVE  MoneyOK(w)'
<1> PICK b : b = tx[w].bet
  OBVIOUS
<1>1. /\ pc[w] = "bet" /\ Free(bets[b], w) /\ UNCHANGED wallets
      /\ bets' = [bets EXCEPT ![b] = Locked(@, w)]
      /\ Goto(w, "refund") \/ Goto(w, "cashout")
  BY Zenon DEF LockBet
<1>2. b \in BetIds /\ bets \in [BetIds -> RowOf(Bet)] /\ pc'[w] \in {"refund", "cashout"}
  BY <1>1, BetRows DEF Goto
<1>3. bets[b].new = bets[b].now
  <2>1. bets[b].by # w
    BY <1>1, <1>2 DEF BetsHeld, HolderOK, BetAt
  <2> QED
    BY <1>1, <1>2, <2>1 DEF CleanBets, Free
<1>4. /\ bets'[b].by = w /\ bets'[b].new = bets[b].new /\ bets'[b].now = bets[b].now
      /\ \A c \in BetIds \ {b} : bets'[c] = bets[c]
  BY <1>1, <1>2 DEF Locked, RowOf
<1>5. \A c \in BetIds : Shown(w, c)' = Shown(w, c)
  BY <1>1, <1>2, <1>3, <1>4 DEF Shown, Seen
<1> QED
  BY <1>1, <1>5, NoBet, WalletsKept

\* A statement that writes a bet and no wallet.
LEMMA BetShown ==
    ASSUME NEW w \in Workers, HouseHeld, OwnStep(w), MoneyOK(w), UNCHANGED wallets,
           NEW b \in BetIds, bets'[b].by = w, pc[w] = "unbet" => tx[w].bet = b,
           \A u \in Users : FairFor(Shown(w, b), u) \subseteq FairFor(Shown(w, b)', u),
           \A c \in BetIds \ {b} : Shown(w, c)' = Shown(w, c)
    PROVE  MoneyOK(w)'
<1>1. \A u \in Users : Seen(wallets[u], w)' = Seen(wallets[u], w)
  BY DEF Seen
<1>2. \A u \in Users : Booked(Seen(wallets[u], w)', b) \in FairFor(Shown(w, b)', u)
  BY <1>1 DEF MoneyOK, ViewOK
<1> DEFINE about == {b}
<1>3. /\ about \in SUBSET BetIds
      /\ pc[w] = "unbet" => tx[w].bet \in about
      /\ \A c \in BetIds \ about :
             /\ Shown(w, c)' = Shown(w, c)
             /\ \A v \in Users : Booked(Seen(wallets[v], w)', c) = Booked(Seen(wallets[v], w), c)
      /\ \A c \in about :
             /\ bets'[c].by = w \/ (pc'[w] = "unbet" /\ tx'[w].bet = c)
             /\ \A v \in Users : Booked(Seen(wallets[v], w)', c) \in FairFor(Shown(w, c)', v)
  BY <1>1, <1>2
<1> HIDE DEF about
<1> QED
  BY <1>3, OneBet

LEMMA ResultMoney ==
    ASSUME NEW w \in Workers, HouseHeld, OwnStep(w), BetsHeld(w), MoneyOK(w), Result(w)
    PROVE  MoneyOK(w)'
<1> DEFINE Won(b) == bets[b].now.ticket.side = req[w].outcome
           Decided(b) == [bets[b].now EXCEPT !.status =
                             IF Won(b) THEN "settled_win" ELSE "settled_loss"]
<1>1. PICK b \in tx[w].batch :
          /\ bets' = [bets EXCEPT ![b] = Written(@, w, Decided(b))]
          /\ tx' = [tx EXCEPT ![w].batch = @ \ {b}, ![w].bet = b]
          /\ Goto(w, IF Won(b) THEN "payout" ELSE "result")
  BY DEF Result
<1>2. pc[w] = "result" /\ UNCHANGED wallets
  BY DEF Result
<1>3. Looping(w)
  BY <1>2, BetRows DEF Looping, BatchOK
<1>4. b \in BetIds /\ bets[b].now.status = "open" /\ bets[b].by # w
  BY <1>2, <1>3, LoopRows DEF BetsHeld, LoopOK, Pending
<1>5. /\ tx'[w].bet = b /\ bets[b].now \in Bet
      /\ pc'[w] = IF Won(b) THEN "payout" ELSE "result"
  BY <1>1, <1>4, BetRows, VersionsTyped DEF Goto, Tx
<1> DEFINE row == Decided(b)
<1>6. /\ row.ticket = bets[b].now.ticket
      /\ pc'[w] = "result" => row.status = "settled_loss"
  BY <1>5 DEF Bet
<1> HIDE DEF row
<1>7. /\ bets'[b].by = w /\ bets'[b].now = bets[b].now /\ bets'[b].new = row
      /\ \A c \in BetIds \ {b} : bets'[c] = bets[c]
  BY <1>1, <1>4, BetRows DEF Written, RowOf, row
<1>8. /\ Shown(w, b) = bets[b].now
      /\ Shown(w, b)' = IF pc'[w] = "payout" THEN bets[b].now ELSE row
      /\ \A c \in BetIds \ {b} : Shown(w, c)' = Shown(w, c)
  BY <1>2, <1>4, <1>5, <1>7 DEF Shown, Seen
<1>9. \A u \in Users : FairFor(Shown(w, b)', u) = FairFor(Shown(w, b), u)
  <2> DEFINE open == bets[b].now
  <2>1. open.status = "open"
    BY <1>4
  <2> HIDE DEF open
  <2>2. CASE pc'[w] = "result"
    <3>1. row.status = "settled_loss" /\ row.ticket = open.ticket
      BY <1>6, <2>2 DEF open
    <3>2. \A u \in Users : FairFor(row, u) = FairFor(open, u)
      <4>1. \A u : u # open.ticket.user => FairFor(row, u) = FairFor(open, u)
        BY <3>1, FairRows
      <4>2. FairFor(row, open.ticket.user) = {Lines(open.ticket.stake, "BET_STAKE", 0)}
        BY <3>1, FairRows
      <4>3. FairFor(open, open.ticket.user) = {Lines(open.ticket.stake, "BET_STAKE", 0)}
        BY <2>1, FairRows
      <4> QED
        BY <4>1, <4>2, <4>3
    <3> QED
      BY <1>8, <2>2, <3>2 DEF open
  <2>3. CASE pc'[w] = "payout"
    BY <1>8, <2>3
  <2> QED
    BY <1>5, <2>2, <2>3
<1>10. \A u \in Users : FairFor(Shown(w, b), u) \subseteq FairFor(Shown(w, b)', u)
  BY <1>9
<1> QED
  BY <1>2, <1>4, <1>7, <1>8, <1>10, BetShown

LEMMA VoidBetMoney ==
    ASSUME NEW w \in Workers, HouseHeld, OwnStep(w), BetsHeld(w), MoneyOK(w), VoidBet(w)
    PROVE  MoneyOK(w)'
<1> PICK b : b = tx[w].bet
  OBVIOUS
<1> DEFINE row == [bets[b].now EXCEPT !.status = "voided"]
<1>1. /\ pc[w] = "unbet" /\ Goto(w, "credit") /\ UNCHANGED <<wallets, tx>>
      /\ bets' = [bets EXCEPT ![b] = Written(@, w, row)]
  BY DEF VoidBet
<1>2. b \in BetIds /\ pc'[w] = "credit"
  BY <1>1, BetRows DEF Goto
<1>3. Shown(w, b) = row
  BY <1>1 DEF Shown
<1> HIDE DEF row
<1>4. /\ bets'[b].by = w /\ bets'[b].new = row
      /\ \A c \in BetIds \ {b} : bets'[c] = bets[c]
  BY <1>1, <1>2, BetRows DEF Written, RowOf
<1>5. /\ Shown(w, b)' = Shown(w, b)
      /\ \A c \in BetIds \ {b} : Shown(w, c)' = Shown(w, c)
  BY <1>1, <1>2, <1>3, <1>4 DEF Shown, Seen
<1>6. \A u \in Users : FairFor(Shown(w, b), u) \subseteq FairFor(Shown(w, b)', u)
  BY <1>5
<1> QED
  BY <1>1, <1>2, <1>4, <1>5, <1>6, BetShown

\* The statements that write nothing about bets, but for the debit.
LEMMA OtherMoney ==
    ASSUME NEW w \in Workers, HouseHeld, OwnStep(w), MoneyOK(w), WorkerStep(w), ~Rollback(w),
           ~InsertBet(w), ~LockBet(w), ~RefundStake(w), ~CashOut(w), ~Result(w),
           ~PayWinner(w), ~CreditBet(w), ~VoidBet(w)
    PROVE  MoneyOK(w)'
<1>1. Keeps(w, BetLine) /\ bets' = bets
  <2>1. CASE DebitStake(w)
    <3>1. bets' = bets
      BY <2>1 DEF DebitStake
    <3>2. BetLine \in SUBSET Line
      BY DEF Line
    <3> QED
      BY <2>1, <3>1, <3>2, DebitStakeOwn, KeepsLess
  <2>2. CASE ~DebitStake(w)
    BY <2>2, BetLinesKept DEF WritesBets
  <2> QED
    BY <2>1, <2>2
<1>2. pc \in [Workers -> Statement]
  BY BetRows
<1>3. pc[w] \notin {"payout", "unbet"} /\ pc'[w] \notin {"payout", "unbet"}
  <2>1. CASE FixedOddsStep(w)
    <3>1. /\ pc[w] \notin {"payout", "unbet"}
          /\ \E s \in {"look", "claim", "register", "bet", "idle", "risk", "debit", "insert",
                        "commit"} : Goto(w, s)
      BY <2>1 DEF FixedOddsStep, StartPlace, StartExecute, Claim, Look, Assess, DebitStake,
         StartQuote, Register, StartLeave, TouchMarket, EndRequest, Accept
    <3> QED
      BY <1>2, <3>1 DEF Goto
  <2>2. CASE PoolStep(w)
    <3>1. /\ pc[w] \notin {"payout", "unbet"}
          /\ \E s \in {"bank", "pool", "price", "pay", "commit"} : Goto(w, s)
      BY <2>2 DEF PoolStep, StartStake, BankStake, AddToPool, StartTrade, Price, PayTrade,
         Accept
    <3> QED
      BY <1>2, <3>1 DEF Goto
  <2>3. CASE FinalStep(w)
    <3>1. /\ pc[w] \notin {"payout", "unbet"}
          /\ \/ pc' = pc
             \/ \E s \in {"divide", "decide", "share", "result", "annul", "credit", "patch",
                           "commit", "approve", "grant", "reject"} : Goto(w, s)
      BY <2>3, Zenon DEF FinalStep, StartSettle, Decide, Divide, PayShare, FinishSettle, StartAnnul,
         LockToCancel, CreditPool, FinishCancel, Patch, WritePatch, StartReview, Approve,
         GrantFunds, Reject, Accept
    <3> QED
      BY <1>2, <3>1 DEF Goto
  <2> QED
    BY <2>1, <2>2, <2>3 DEF WorkerStep
<1>4. \A b \in BetIds : Shown(w, b)' = Shown(w, b)
  BY <1>1, <1>3 DEF Shown
<1> QED
  BY <1>1, <1>3, <1>4, NoBet

\* A step within a request.
LEMMA MoneySteps ==
    ASSUME NEW w \in Workers, MoneyInv, WorkerStep(w), ~Rollback(w)
    PROVE  \A v \in Workers : MoneyOK(v)'
<1>1. HouseHeld /\ OwnStep(w) /\ BetsHeld(w) /\ CleanBets /\ MoneyOK(w)
  BY WorkersOwn DEF MoneyInv, BetInv
<1>2. MoneyOK(w)'
  BY <1>1, OtherMoney, InsertBetMoney, LockBetMoney, RefundStakeMoney, CashOutMoney,
     ResultMoney, PayWinnerMoney, CreditBetMoney, VoidBetMoney
<1> QED
  BY <1>1, <1>2, OthersMoney DEF MoneyInv

----------------------------------------------------------------------------
(***************************************************************************)
(* The end of a request.                                                   *)
(***************************************************************************)

LEMMA PaidRows ==
    BetsPaidOnce <=>
        \A b \in BetIds : \A u \in Users :
            Booked(wallets[u].now, b) \in FairFor(bets[b].now, u)
  BY DEF BetsPaidOnce, FairFor

\* What the end of a request of w leaves of the rows.
LEMMA RowsLeft ==
    ASSUME NEW w \in Workers, HouseHeld, Rollback(w) \/ Commit(w)
    PROVE  /\ pc'[w] = "idle"
           /\ \A v \in Workers \ {w} : pc'[v] = pc[v] /\ tx'[v] = tx[v]
           /\ \A u \in Users : \A v \in Workers \ {w} :
                  /\ wallets'[u].by = v <=> wallets[u].by = v
                  /\ wallets[u].by = v => wallets'[u] = wallets[u]
           /\ \A u \in Users : /\ wallets'[u].by # w
                               /\ wallets[u].by # w => wallets'[u] = wallets[u]
           /\ \A b \in BetIds : \A v \in Workers \ {w} :
                  /\ bets'[b].by = v <=> bets[b].by = v
                  /\ bets[b].by = v => bets'[b] = bets[b]
           /\ \A b \in BetIds : /\ bets'[b].by # w
                                /\ bets[b].by # w => bets'[b] = bets[b]
           /\ Rollback(w) => /\ \A u \in Users : wallets'[u].now = wallets[u].now
                             /\ \A b \in BetIds : bets'[b].now = bets[b].now
           /\ Commit(w) => /\ \A u \in Users : wallets'[u].now = Seen(wallets[u], w)
                           /\ \A b \in BetIds : bets'[b].now = Seen(bets[b], w)
<1>1. /\ wallets \in [Users -> RowOf(Wallet)] /\ bets \in [BetIds -> RowOf(Bet)]
      /\ pc \in [Workers -> Statement] /\ tx \in [Workers -> Tx]
  BY Holding, Typed DEF TablesTypedNow
<1>2. /\ wallets' \in {Published(wallets, w), Discarded(wallets, w)}
      /\ bets' \in {Published(bets, w), Discarded(bets, w)}
      /\ Rollback(w) => wallets' = Discarded(wallets, w) /\ bets' = Discarded(bets, w)
      /\ Commit(w) => wallets' = Published(wallets, w) /\ bets' = Published(bets, w)
      /\ EndRequest(w)
  BY DEF Rollback, Commit
<1>3. pc'[w] = "idle" /\ \A v \in Workers \ {w} : pc'[v] = pc[v] /\ tx'[v] = tx[v]
  BY <1>1, <1>2 DEF EndRequest, Goto
<1>4. /\ \A u \in Users : wallets'[u].by # w
      /\ \A u \in Users : \A v \in Workers \ {w} :
             /\ wallets'[u].by = v <=> wallets[u].by = v
             /\ wallets[u].by = v => wallets'[u] = wallets[u]
      /\ \A u \in Users : wallets[u].by # w => wallets'[u] = wallets[u]
      /\ Rollback(w) => \A u \in Users : wallets'[u].now = wallets[u].now
      /\ Commit(w) => \A u \in Users : wallets'[u].now = Seen(wallets[u], w)
  BY <1>1, <1>2, RowsEnd
<1>5. /\ \A b \in BetIds : bets'[b].by # w
      /\ \A b \in BetIds : \A v \in Workers \ {w} :
             /\ bets'[b].by = v <=> bets[b].by = v
             /\ bets[b].by = v => bets'[b] = bets[b]
      /\ \A b \in BetIds : bets[b].by # w => bets'[b] = bets[b]
      /\ Rollback(w) => \A b \in BetIds : bets'[b].now = bets[b].now
      /\ Commit(w) => \A b \in BetIds : bets'[b].now = Seen(bets[b], w)
  BY <1>1, <1>2, RowsEnd
<1> QED
  BY <1>3, <1>4, <1>5

LEMMA EndPaid ==
    ASSUME NEW w \in Workers, MoneyInv, Rollback(w) \/ Commit(w)
    PROVE  BetsPaidOnce' /\ MoneyOK(w)'
<1>1. HouseHeld /\ BetsPaidOnce /\ MoneyOK(w)
  BY DEF MoneyInv, BetInv
<1>2. \A b \in BetIds : \A u \in Users :
          Booked(wallets'[u].now, b) \in FairFor(bets'[b].now, u)
  <2>1. CASE Rollback(w)
    BY <1>1, <2>1, RowsLeft, PaidRows
  <2>2. CASE Commit(w)
    <3>1. \A b \in BetIds : Shown(w, b) = Seen(bets[b], w)
      BY <2>2 DEF Commit, Shown
    <3> QED
      BY <1>1, <2>2, <3>1, RowsLeft DEF MoneyOK, ViewOK
  <2> QED
    BY <2>1, <2>2
<1>3. BetsPaidOnce'
  <2>1. BetsPaidOnce' <=>
            \A b \in BetIds : \A u \in Users :
                Booked(wallets'[u].now, b) \in FairFor(bets'[b].now, u)
    BY DEF BetsPaidOnce, FairFor
  <2> QED
    BY <1>2, <2>1
<1>4. /\ \A b \in BetIds : Shown(w, b)' = bets'[b].now
      /\ \A u \in Users : Seen(wallets[u], w)' = wallets'[u].now /\ wallets'[u].by # w
  BY <1>1, RowsLeft DEF Shown, Seen
<1>5. ViewOK(w)' /\ ForeignOK(w)'
  BY <1>2, <1>4 DEF ViewOK, ForeignOK
<1> QED
  BY <1>3, <1>5 DEF MoneyOK

\* What another worker is about survives the end of w's request.
LEMMA EndOthers ==
    ASSUME NEW w \in Workers, NEW v \in Workers \ {w}, MoneyInv, Rollback(w) \/ Commit(w)
    PROVE  MoneyOK(v)'
<1>1. HouseHeld /\ BetsHeld(v) /\ MoneyOK(v) /\ MoneyOK(w) /\ BetsPaidOnce'
  BY EndPaid DEF MoneyInv, BetInv
<1>2. pc'[v] = pc[v] /\ tx'[v] = tx[v]
  BY <1>1, RowsLeft
<1>3. ForeignOK(v)'
  BY <1>1, <1>2, RowsLeft DEF MoneyOK, ForeignOK
<1>4. ASSUME NEW b \in BetIds, bets'[b].now = bets[b].now,
             \A u \in Users : wallets[u].by = w =>
                 Booked(wallets'[u].now, b) = Booked(wallets[u].now, b),
             NEW u \in Users
      PROVE  Booked(Seen(wallets[u], v)', b) \in FairFor(Shown(v, b)', u)
  <2>1. Shown(v, b)' = Shown(v, b)
    BY <1>1, <1>2, <1>4, RowsLeft DEF Shown, Seen
  <2>2. Booked(Seen(wallets[u], v)', b) = Booked(Seen(wallets[u], v), b)
    BY <1>1, <1>4, RowsLeft DEF Seen
  <2> QED
    BY <1>1, <2>1, <2>2 DEF MoneyOK, ViewOK
<1>5. ASSUME Rollback(w), NEW b \in BetIds
      PROVE  \A u \in Users : Booked(Seen(wallets[u], v)', b) \in FairFor(Shown(v, b)', u)
  BY <1>1, <1>4, <1>5, RowsLeft
<1>6. ASSUME Commit(w), NEW b \in BetIds, bets[b].by # w
      PROVE  \A u \in Users : Booked(Seen(wallets[u], v)', b) \in FairFor(Shown(v, b)', u)
  <2>1. pc[w] = "commit"
    BY <1>6 DEF Commit
  <2>2. \A u \in Users : wallets[u].by = w =>
            Booked(wallets'[u].now, b) = Booked(wallets[u].now, b)
    BY <1>1, <1>6, <2>1, RowsLeft DEF MoneyOK, ForeignOK, Seen
  <2>3. bets'[b].now = bets[b].now
    BY <1>1, <1>6, RowsLeft
  <2> QED
    BY <1>4, <2>2, <2>3
<1>7. ASSUME Commit(w), NEW b \in BetIds, bets[b].by = w, NEW u \in Users
      PROVE  Booked(Seen(wallets[u], v)', b) \in FairFor(Shown(v, b)', u)
  <2>1. ~(pc[v] \in {"payout", "unbet"} /\ tx[v].bet = b)
    <3>1. pc[v] = "payout" => tx[v].bet # b
      BY <1>1, <1>7 DEF BetsHeld, LeaveOK
    <3>2. pc[v] = "unbet" => Looping(v) /\ tx[v].bet \in Pending(v)
      BY <1>1 DEF BetsHeld, LoopOK, Pending
    <3>3. pc[w] = "commit" /\ BetInv
      BY <1>7 DEF Commit, MoneyInv
    <3>4. pc[v] = "unbet" => tx[v].bet # b
      <4>1. \A c \in Pending(v) : Looping(v) => bets[c].by # w
        BY <3>3, PendingStay
      <4> QED
        BY <1>7, <3>2, <4>1
    <3> QED
      BY <3>1, <3>4
  <2>2. Shown(v, b)' = bets'[b].now
    BY <1>1, <1>2, <1>7, <2>1, RowsLeft DEF Shown, Seen
  <2>3. Booked(wallets'[u].now, b) \in FairFor(bets'[b].now, u)
    BY <1>1 DEF BetsPaidOnce, FairFor
  <2>4. Booked(Seen(wallets[u], v)', b) = Booked(wallets'[u].now, b)
    <3>1. CASE wallets[u].by = v
      <4>1. wallets'[u] = wallets[u]
        BY <1>1, <3>1, RowsLeft
      <4>2. Booked(wallets[u].new, b) = Booked(wallets[u].now, b)
        BY <1>1, <1>7, <2>1, <3>1 DEF MoneyOK, ForeignOK
      <4> QED
        BY <4>1, <4>2 DEF Seen
    <3>2. CASE wallets[u].by # v
      BY <1>1, <3>2, RowsLeft DEF Seen
    <3> QED
      BY <3>1, <3>2
  <2> QED
    BY <2>2, <2>3, <2>4
<1>8. ViewOK(v)'
  BY <1>5, <1>6, <1>7 DEF ViewOK
<1> QED
  BY <1>3, <1>8 DEF MoneyOK

----------------------------------------------------------------------------
(***************************************************************************)
(* Always.                                                                 *)
(***************************************************************************)

LEMMA MoneyNext == MoneyInv /\ [Next]_vars => MoneyInv'
<1> SUFFICES ASSUME MoneyInv, [Next]_vars
             PROVE  MoneyInv'
  OBVIOUS
<1>1. HouseHeld /\ HouseTyped /\ BetInv' /\ BetsPaidOnce /\ \A w \in Workers : MoneyOK(w)
  BY BetNext DEF MoneyInv, BetInv, HouseHeld
<1>2. ASSUME NEW w \in Workers, WorkerStep(w), ~Rollback(w)
      PROVE  MoneyInv'
  <2>1. \A v \in Workers : MoneyOK(v)'
    BY <1>2, MoneySteps
  <2>2. OwnStep(w)
    BY <1>1, <1>2, WorkersOwn
  <2>3. /\ \A u \in Users : wallets'[u].now = wallets[u].now
        /\ \A b \in BetIds : bets'[b].now = bets[b].now
    <3>1. DOMAIN wallets = Users /\ DOMAIN bets = BetIds
      BY <1>1 DEF HouseTyped, TypeOK
    <3> QED
      BY <2>2, <3>1 DEF OwnStep, OwnRows
  <2>4. BetsPaidOnce'
    BY <1>1, <2>3 DEF BetsPaidOnce
  <2> QED
    BY <1>1, <2>1, <2>4 DEF MoneyInv
<1>3. ASSUME NEW w \in Workers, Rollback(w) \/ Commit(w)
      PROVE  MoneyInv'
  BY <1>1, <1>3, EndPaid, EndOthers DEF MoneyInv
<1>4. CASE ClockTick \/ UNCHANGED vars \/ \E m \in Markets : CloseMarket(m)
  <2>1. UNCHANGED <<bets, wallets, pc, tx>>
    BY <1>4, TicksKeep DEF tables, CloseMarket
  <2>2. BetsPaidOnce' /\ \A w \in Workers : MoneyOK(w)'
    BY <1>1, <2>1 DEF BetsPaidOnce, MoneyOK, ViewOK, ForeignOK, Shown, Seen
  <2> QED
    BY <1>1, <2>2 DEF MoneyInv
<1> QED
  BY <1>1, <1>2, <1>3, <1>4, StepKinds

LEMMA MoneyInit ==
    ASSUME \A mix \in Mixes : CashoutsApart(mix), Init
    PROVE  MoneyInv
<1>1. /\ \A b \in BetIds : bets[b].now.status = "none" /\ bets[b].by = Nobody
      /\ \A w \in Workers : pc[w] = "idle"
  BY DEF Init, Fresh
<1>2. \A u \in Users : /\ wallets[u].by = Nobody
                       /\ \A l \in Line : wallets[u].now.ledger[l] = 0
  BY DEF Init, Fresh, NewWallet
<1>3. \A b \in BetIds : \A u \in Users :
          Booked(wallets[u].now, b) = Lines(0, "BET_STAKE", 0)
  BY <1>2, BetEntries DEF Booked, Lines
<1>4. \A b \in BetIds : \A u \in Users :
          Booked(wallets[u].now, b) \in FairFor(bets[b].now, u)
  BY <1>1, <1>3, FairRows
<1>5. BetsPaidOnce
  BY <1>4, PaidRows
<1>6. \A w \in Workers : MoneyOK(w)
  BY <1>1, <1>2, <1>4, NobodyAssumption DEF MoneyOK, ViewOK, ForeignOK, Shown, Seen
<1> QED
  BY <1>5, <1>6, BetInit DEF MoneyInv

\* If cash-outs keep apart from settlements and cancellations, every bet is paid for once
\* and returns once, what its status says, to its owner and to nobody else: whatever
\* placements, voids, settlements, cancellations, updates and crashes interleave.
THEOREM BetsArePaidOnce ==
    ASSUME \A mix \in Mixes : CashoutsApart(mix)
    PROVE  Spec => []BetsPaidOnce
<1>1. Init => MoneyInv
  BY MoneyInit
<1>2. MoneyInv => BetsPaidOnce
  BY DEF MoneyInv
<1> QED
  BY <1>1, <1>2, MoneyNext, PTL DEF Spec

----------------------------------------------------------------------------
(***************************************************************************)
(* The refinement.                                                         *)
(***************************************************************************)

\* What a bet has returned, from the ledger's lines about it.
ReturnedLines(lines) ==
    lines["BET_WIN_PAYOUT"] + lines["BET_VOID_REFUND"]
      + lines["BET_CANCEL_REFUND"] + lines["BET_CASHOUT_PAYOUT"]

LEMMA ReturnedBooked ==
    ASSUME NEW b
    PROVE  /\ Returned(b) = ReturnedLines(Booked(wallets[bets[b].now.ticket.user].now, b))
           /\ Returned(b)' = ReturnedLines(Booked(wallets'[bets'[b].now.ticket.user].now, b))
  BY Zenon DEF Returned, ReturnedLines, Booked, BetTypes

\* What the lines of a bet come to.
LEMMA LinesReturn ==
    ASSUME NEW stake, NEW t \in Ticket
    PROVE  /\ ReturnedLines(Lines(stake, "BET_STAKE", 0)) = 0
           /\ \A amount \in Nat :
                  /\ ReturnedLines(Lines(stake, "BET_WIN_PAYOUT", amount)) = amount
                  /\ ReturnedLines(Lines(stake, "BET_VOID_REFUND", amount)) = amount
                  /\ ReturnedLines(Lines(stake, "BET_CANCEL_REFUND", amount)) = amount
           /\ ReturnedLines(CashLines(t)) = CashoutNet(t)
<1>1. CashoutNet(t) \in Int
  BY Worths
<1>2. ReturnedLines(CashLines(t)) = CashoutNet(t)
  BY <1>1 DEF ReturnedLines, CashLines, Lines, BetTypes
<1> QED
  BY <1>2 DEF ReturnedLines, Lines, BetTypes

\* What a bet has returned is what its status is worth.
FairBook ==
    \A b \in BetIds :
        LET row == bets[b].now
        IN  /\ row.status \in {"none", "open"} => Returned(b) = 0
            /\ row.status \in {"settled_win", "settled_loss", "voided"} =>
                   Returned(b) \in WorthOf(row.ticket, row.status)

LEMMA FairReturn == HouseHeld /\ BetsPaidOnce => FairBook
<1> SUFFICES ASSUME HouseHeld, BetsPaidOnce, NEW b \in BetIds
             PROVE  LET row == bets[b].now
                    IN  /\ row.status \in {"none", "open"} => Returned(b) = 0
                        /\ row.status \in {"settled_win", "settled_loss", "voided"} =>
                               Returned(b) \in WorthOf(row.ticket, row.status)
  BY DEF FairBook
<1> DEFINE row == bets[b].now
           t == row.ticket
           lines == Booked(wallets[t.user].now, b)
<1>1. bets \in [BetIds -> RowOf(Bet)]
  BY Typed DEF HouseHeld, HouseTyped, TypeOK
<1>2. t \in Ticket
  BY <1>1 DEF RowOf, Bet
<1>3. t.user \in Users /\ t.stake \in Nat /\ Payout(t) \in Nat
  BY <1>2, TicketForm, Worths DEF Ticket
<1>4. lines \in FairFor(row, t.user)
  BY <1>3, PaidRows
<1>5. Returned(b) = ReturnedLines(lines)
  BY ReturnedBooked
<1> HIDE DEF row, lines
<1>6. CASE row.status \in {"none", "open", "settled_loss"}
  <2>1. \E stake : lines = Lines(stake, "BET_STAKE", 0)
    BY <1>4, <1>6, FairRows
  <2>2. ReturnedLines(lines) = 0
    BY <1>2, <2>1, LinesReturn
  <2> QED
    BY <1>5, <1>6, <2>2 DEF WorthOf, row
<1>7. CASE row.status = "settled_win"
  <2>1. lines = Lines(t.stake, "BET_WIN_PAYOUT", Payout(t))
    BY <1>4, <1>7, FairRows
  <2>2. ReturnedLines(lines) = Payout(t)
    BY <1>2, <1>3, <2>1, LinesReturn
  <2> QED
    BY <1>5, <1>7, <2>2 DEF WorthOf, row
<1>8. CASE row.status = "voided"
  <2>1. lines \in {Lines(t.stake, "BET_VOID_REFUND", t.stake),
                   Lines(t.stake, "BET_CANCEL_REFUND", t.stake), CashLines(t)}
    BY <1>4, <1>8, FairRows
  <2>2. ReturnedLines(lines) \in {t.stake, CashoutNet(t)}
    BY <1>2, <1>3, <2>1, LinesReturn
  <2> QED
    BY <1>5, <1>8, <2>2 DEF WorthOf, row
<1> QED
  BY <1>6, <1>7, <1>8 DEF row

LEMMA FairReturnNext == HouseHeld' /\ BetsPaidOnce' => FairBook'
  BY FairReturn, PTL

\* A step that commits nothing leaves the book as it is.
LEMMA SameBook ==
    ASSUME HouseHeld, \A b \in BetIds : bets'[b].now = bets[b].now,
           \A u \in Users : wallets'[u].now = wallets[u].now
    PROVE  Book' = Book
<1>1. bets \in [BetIds -> RowOf(Bet)]
  BY DEF HouseHeld, HouseTyped, TypeOK
<1>2. \A b \in BetIds : bets[b].now.ticket.user \in Users
  BY <1>1, TicketForm DEF RowOf, Bet
<1>3. \A b \in BetIds : Returned(b)' = Returned(b)
  BY <1>2, Zenon DEF Returned
<1> QED
  BY <1>3 DEF Book

\* A commit places and decides bets.
LEMMA CommitPromise ==
    ASSUME NEW w \in Workers, MoneyInv, Commit(w)
    PROVE  Promise!Next
<1>1. HouseHeld /\ BetsHeld(w) /\ MoneyOK(w) /\ BetsPaidOnce /\ BetsPaidOnce' /\ pc[w] = "commit"
  BY EndPaid DEF MoneyInv, BetInv, Commit
<1>2. HouseHeld'
  BY <1>1, HeldNext DEF Next
<1>3. ASSUME NEW b \in BetIds, bets[b].by # w
      PROVE  Book'[b] = Book[b]
  <2>1. bets'[b] = bets[b] /\ bets[b].now.ticket.user \in Users
    BY <1>1, <1>3, RowsLeft, BetRows, TicketForm
  <2>2. \A u \in Users : Booked(wallets'[u].now, b) = Booked(wallets[u].now, b)
    BY <1>1, <1>3, RowsLeft DEF MoneyOK, ForeignOK, Seen
  <2>3. Returned(b)' = Returned(b)
    BY <2>1, <2>2, ReturnedBooked
  <2> QED
    BY <2>1, <2>3 DEF Book
<1>4. ASSUME NEW b \in BetIds, bets[b].by = w
      PROVE  Book'[b] = Book[b] \/ Promise!Placed(b) \/ Promise!Decided(b)
  <2>1. bets'[b].now = bets[b].new /\ Moves(bets[b])
    BY <1>1, <1>4, RowsLeft DEF BetsHeld, HolderOK, Seen
  <2>2. /\ Book[b] = [status |-> bets[b].now.status, ticket |-> bets[b].now.ticket,
                      returned |-> Returned(b)]
        /\ Book'[b] = [status |-> bets'[b].now.status, ticket |-> bets'[b].now.ticket,
                       returned |-> Returned(b)']
    BY DEF Book
  <2>3. bets[b].now.status \in {"none", "open"} /\ Returned(b) = 0
    BY <1>1, <2>1, FairReturn DEF Moves, FairBook
  <2>4. /\ bets'[b].now.status \in {"none", "open"} => Returned(b)' = 0
        /\ bets'[b].now.status \in {"settled_win", "settled_loss", "voided"} =>
               Returned(b)' \in WorthOf(bets'[b].now.ticket, bets'[b].now.status)
    BY <1>1, <1>2, FairReturnNext DEF FairBook
  <2>5. CASE bets[b].now.status = "open" /\ bets[b].new = bets[b].now
    BY <2>1, <2>2, <2>3, <2>4, <2>5
  <2>6. CASE bets[b].now.status = "none" /\ bets[b].new.status = "open"
    <3>1. bets'[b].now.ticket \in Ticket
      BY <1>1, <2>1, BetRows
    <3> QED
      BY <2>1, <2>2, <2>3, <2>4, <2>6, <3>1 DEF Promise!Placed, Promise!Unplaced
  <2>7. CASE /\ bets[b].now.status = "open" /\ bets[b].new.ticket = bets[b].now.ticket
             /\ bets[b].new.status \in {"settled_win", "settled_loss", "voided"}
    BY <2>1, <2>2, <2>3, <2>4, <2>7 DEF Promise!Decided
  <2> QED
    BY <2>1, <2>5, <2>6, <2>7 DEF Moves
<1> QED
  BY <1>3, <1>4 DEF Promise!Next

LEMMA PromiseNext == MoneyInv /\ [Next]_vars => [Promise!Next]_Book
<1> SUFFICES ASSUME MoneyInv, [Next]_vars
             PROVE  Promise!Next \/ Book' = Book
  OBVIOUS
<1>1. HouseHeld /\ HouseTyped
  BY DEF MoneyInv, BetInv, HouseHeld
<1>2. DOMAIN wallets = Users /\ DOMAIN bets = BetIds
  BY <1>1 DEF HouseTyped, TypeOK
<1>3. ASSUME NEW w \in Workers, WorkerStep(w), ~Rollback(w)
      PROVE  Book' = Book
  <2>1. OwnStep(w)
    BY <1>1, <1>3, WorkersOwn
  <2> QED
    BY <1>1, <1>2, <2>1, SameBook DEF OwnStep, OwnRows
<1>4. ASSUME NEW w \in Workers, Rollback(w)
      PROVE  Book' = Book
  BY <1>1, <1>4, RowsLeft, SameBook
<1>5. ASSUME NEW w \in Workers, Commit(w)
      PROVE  Promise!Next
  BY <1>5, CommitPromise
<1>6. CASE ClockTick \/ UNCHANGED vars \/ \E m \in Markets : CloseMarket(m)
  <2>1. UNCHANGED <<bets, wallets>>
    BY <1>6, TicksKeep DEF tables, CloseMarket
  <2> QED
    BY <1>1, <2>1, SameBook
<1> QED
  BY <1>1, <1>3, <1>4, <1>5, <1>6, StepKinds

LEMMA PromiseInit ==
    ASSUME Init
    PROVE  Promise!Init
<1>1. \A b \in BetIds : /\ bets[b].now.status = "none"
                        /\ bets[b].now.ticket = NoTicket
  BY DEF Init, Fresh
<1>2. NoTicket.user \in Users
  BY IdsAssumption DEF NoTicket
<1>3. \A u \in Users : \A l \in Line : wallets[u].now.ledger[l] = 0
  BY DEF Init, Fresh, NewWallet
<1>4. \A b \in BetIds : Returned(b) = 0
  <2>1. \A b \in BetIds : \A type \in BetTypes : Entry(type, b) \in Line
    BY BetEntries
  <2> SUFFICES ASSUME NEW b \in BetIds
               PROVE  Returned(b) = 0
    OBVIOUS
  <2>2. PICK ledger : ledger = wallets[bets[b].now.ticket.user].now.ledger
    OBVIOUS
  <2>3. \A l \in Line : ledger[l] = 0
    BY <1>1, <1>2, <1>3, <2>2
  <2>4. \A type \in BetTypes : ledger[Entry(type, b)] = 0
    BY <2>1, <2>3
  <2>5. /\ ledger[Entry("BET_WIN_PAYOUT", b)] = 0 /\ ledger[Entry("BET_VOID_REFUND", b)] = 0
        /\ ledger[Entry("BET_CANCEL_REFUND", b)] = 0
        /\ ledger[Entry("BET_CASHOUT_PAYOUT", b)] = 0
    BY <2>4 DEF BetTypes
  <2>6. Returned(b) = ledger[Entry("BET_WIN_PAYOUT", b)] + ledger[Entry("BET_VOID_REFUND", b)]
                        + ledger[Entry("BET_CANCEL_REFUND", b)]
                        + ledger[Entry("BET_CASHOUT_PAYOUT", b)]
    BY <2>2 DEF Returned
  <2> QED
    BY <2>5, <2>6
<1> QED
  BY <1>1, <1>4 DEF Promise!Init, Promise!Unplaced, Book

\* On the same assumption the services implement BetBook: each bet goes from unplaced to
\* placed and from placed to decided in one step, together with the money that this is worth.
THEOREM PromiseIsKept ==
    ASSUME \A mix \in Mixes : CashoutsApart(mix)
    PROVE  Spec => PromiseKept
<1>1. Init => MoneyInv /\ Promise!Init
  BY MoneyInit, PromiseInit
<1> QED
  BY <1>1, MoneyNext, PromiseNext, PTL DEF Spec, PromiseKept, Promise!Spec

----------------------------------------------------------------------------
(***************************************************************************)
(* Betslips.  An execution locks its quote, takes the items from it and    *)
(* inserts them one by one: what it has inserted and what it has yet to    *)
(* insert make up what the quote asks for, until the commit that marks the *)
(* quote as executed shows all of its bets.                                *)
(***************************************************************************)

\* The statements of a placement, from its first look at the market on.
PlaceAt == {"look", "risk", "debit", "insert", "commit"}

Placing(w) == req[w].op \in {"place", "execute"} /\ pc[w] \in PlaceAt
Executing(w) == req[w].op = "execute" /\ pc[w] \in PlaceAt

\* The betslip that the bets of w are marked with.
SlipOf(w) == IF req[w].op = "execute" THEN req[w].slip ELSE Nobody

\* The bets that w has inserted, and those of a betslip that are committed.
Inserted(w) == {b \in BetIds : bets[b].by = w /\ bets[b].now.status = "none"}
PlacedOf(k) == {b \in BetIds : bets[b].now.status # "none" /\ bets[b].now.slip = k}

DraftTickets == [b \in BetIds |-> bets[b].new.ticket]
RowTickets == [b \in BetIds |-> bets[b].now.ticket]

\* The first n items have been placed as the bets in S, one for one.
Matched(items, n, S, ticket) ==
    \E f \in Bijection(1 .. n, S) : \A i \in 1 .. n : ticket[f[i]] = items[i]

\* A bet that is there stays what it is but for its status; one that is not there yet is
\* somebody's draft of an open bet, or nobody's.
SlipRows ==
    \A b \in BetIds :
        /\ bets[b].now.status # "none" =>
               /\ bets[b].new.status # "none"
               /\ bets[b].new.ticket = bets[b].now.ticket /\ bets[b].new.slip = bets[b].now.slip
        /\ bets[b].by = Nobody => bets[b].new = bets[b].now

\* The bets that w has inserted bear its betslip.
InsertsOK(w) ==
    \A b \in Inserted(w) :
        Placing(w) /\ bets[b].new.status = "open" /\ bets[b].new.slip = SlipOf(w)

\* An execution has the quote, and has placed its items up to those it has yet to place.
ExecutionOK(w) ==
    Executing(w) =>
        LET quote == quotes[req[w].slip]
            items == quote.now.items
        IN  /\ quote.by = w /\ quote.now.status = "pending"
            /\ \E n \in 0 .. Len(items) :
                   /\ tx[w].items = SubSeq(items, n + 1, Len(items))
                   /\ Matched(items, n, Inserted(w), DraftTickets)
                   /\ pc[w] = "commit" <=> n = Len(items)
                   /\ quote.new.status = IF n = Len(items) THEN "executed" ELSE "pending"

\* A quote is held by an execution only, and is nobody's draft otherwise.
QuotesHeld ==
    \A k \in Slips :
        /\ quotes[k].by = Nobody => quotes[k].new = quotes[k].now
        /\ \A w \in Workers : quotes[k].by = w => Executing(w) /\ req[w].slip = k

\* What a loop over bets has found is there.
FoundOK(w) ==
    /\ pc[w] = "unbet" => Looping(w)
    /\ Looping(w) => \A b \in Pending(w) : bets[b].now.status # "none"

\* A betslip is placed as it was asked for, or not at all.
SlipKept(k) ==
    LET items == quotes[k].now.items
    IN  IF quotes[k].now.status = "executed"
        THEN Matched(items, Len(items), PlacedOf(k), RowTickets) ELSE PlacedOf(k) = {}

WorkerSlips(w) == InsertsOK(w) /\ ExecutionOK(w) /\ FoundOK(w)

SlipInv ==
    /\ HouseHeld /\ QuoteDrafts /\ SlipRows /\ QuotesHeld
    /\ \A w \in Workers : WorkerSlips(w)
    /\ \A k \in Slips : SlipKept(k)

----------------------------------------------------------------------------
(***************************************************************************)
(* Items and bets.                                                         *)
(***************************************************************************)

LEMMA MatchedNone ==
    ASSUME NEW items, NEW ticket
    PROVE  Matched(items, 0, {}, ticket)
<1> DEFINE f == [i \in 1 .. 0 |-> i]
<1>1. f \in Bijection(1 .. 0, {})
  BY DEF Bijection, Injection, Surjection, IsInjective
<1> QED
  BY <1>1 DEF Matched

\* One more item, and one more bet.
LEMMA MatchedMore ==
    ASSUME NEW items, NEW n \in Nat, NEW S, NEW ticket, Matched(items, n, S, ticket),
           NEW b, b \notin S, NEW after, after[b] = items[n + 1],
           \A c \in S : after[c] = ticket[c]
    PROVE  Matched(items, n + 1, S \cup {b}, after)
<1>1. PICK f \in Bijection(1 .. n, S) : \A i \in 1 .. n : ticket[f[i]] = items[i]
  BY DEF Matched
<1>2. /\ f \in [1 .. n -> S] /\ \A i, j \in 1 .. n : f[i] = f[j] => i = j
      /\ \A c \in S : \E i \in 1 .. n : f[i] = c
  BY DEF Bijection, Injection, Surjection, IsInjective
<1> DEFINE g == [i \in 1 .. n + 1 |-> IF i = n + 1 THEN b ELSE f[i]]
<1>3. /\ \A i \in 1 .. n : i \in 1 .. n + 1 /\ i # n + 1 /\ g[i] = f[i]
      /\ n + 1 \in 1 .. n + 1 /\ g[n + 1] = b
      /\ \A i \in 1 .. n + 1 : i # n + 1 => i \in 1 .. n
      /\ DOMAIN g = 1 .. n + 1
  OBVIOUS
<1>4. g \in [1 .. n + 1 -> S \cup {b}]
  BY <1>2, <1>3
<1> HIDE DEF g
<1>5. \A i, j \in 1 .. n + 1 : g[i] = g[j] => i = j
  BY <1>2, <1>3
<1>6. \A c \in S \cup {b} : \E i \in 1 .. n + 1 : g[i] = c
  BY <1>2, <1>3
<1>7. g \in Bijection(1 .. n + 1, S \cup {b})
  BY <1>3, <1>4, <1>5, <1>6 DEF Bijection, Injection, Surjection, IsInjective
<1>8. \A i \in 1 .. n + 1 : after[g[i]] = items[i]
  BY <1>1, <1>2, <1>3
<1> QED
  BY <1>7, <1>8 DEF Matched

\* The same tickets.
LEMMA MatchedStays ==
    ASSUME NEW items, NEW n \in Nat, NEW S, NEW ticket, Matched(items, n, S, ticket),
           NEW after, \A c \in S : after[c] = ticket[c]
    PROVE  Matched(items, n, S, after)
<1>1. PICK f \in Bijection(1 .. n, S) : \A i \in 1 .. n : ticket[f[i]] = items[i]
  BY DEF Matched
<1>2. f \in [1 .. n -> S]
  BY DEF Bijection, Injection
<1> QED
  BY <1>1, <1>2 DEF Matched

\* The items, and the bets, that are for the ticket t.
ItemsFor(items, n, t) == {i \in 1 .. n : items[i] = t}
BetsFor(S, ticket, t) == {b \in S : ticket[b] = t}

\* As many bets as items, and of each ticket as many as there are items of it.
LEMMA MatchedCounts ==
    ASSUME NEW items, NEW n \in Nat, NEW S, NEW ticket, Matched(items, n, S, ticket)
    PROVE  /\ Cardinality(S) = n
           /\ \A t : Cardinality(ItemsFor(items, n, t)) = Cardinality(BetsFor(S, ticket, t))
<1>1. PICK f \in Bijection(1 .. n, S) : \A i \in 1 .. n : ticket[f[i]] = items[i]
  BY DEF Matched
<1>2. /\ f \in [1 .. n -> S] /\ \A i, j \in 1 .. n : f[i] = f[j] => i = j
      /\ \A c \in S : \E i \in 1 .. n : f[i] = c
  BY DEF Bijection, Injection, Surjection, IsInjective
<1>3. IsFiniteSet(1 .. n) /\ Cardinality(1 .. n) = n
  BY FS_Interval
<1>4. ExistsBijection(1 .. n, S)
  BY DEF ExistsBijection
<1>5. Cardinality(S) = n
  BY <1>3, <1>4, FS_Bijection
<1>6. ASSUME NEW t
      PROVE  Cardinality(ItemsFor(items, n, t)) = Cardinality(BetsFor(S, ticket, t))
  <2> DEFINE A == {i \in 1 .. n : items[i] = t}
             B == {b \in S : ticket[b] = t}
             g == [i \in A |-> f[i]]
  <2>1. IsFiniteSet(A)
    BY <1>3, FS_Subset
  <2>2. g \in [A -> B]
    BY <1>1, <1>2
  <2>3. \A c \in B : \E i \in A : g[i] = c
    BY <1>1, <1>2
  <2>4. \A i, j \in A : g[i] = g[j] => i = j
    BY <1>2
  <2>5. DOMAIN g = A
    OBVIOUS
  <2> HIDE DEF A, B, g
  <2>6. g \in Bijection(A, B)
    BY <2>2, <2>3, <2>4, <2>5 DEF Bijection, Injection, Surjection, IsInjective
  <2>7. ExistsBijection(A, B)
    BY <2>6 DEF ExistsBijection
  <2>8. Cardinality(A) = Cardinality(B)
    BY <2>1, <2>7, FS_Bijection
  <2> QED
    BY <2>8 DEF A, B, ItemsFor, BetsFor
<1> QED
  BY <1>5, <1>6

\* That is what the betslips promise.
LEMMA KeptSlips ==
    ASSUME HouseTyped, \A k \in Slips : SlipKept(k)
    PROVE  SlipsAllOrNothing
<1>1. SUFFICES ASSUME NEW k \in Slips
      PROVE  LET items == quotes[k].now.items
                 placed == {b \in BetIds : bets[b].now.status # "none" /\ bets[b].now.slip = k}
                 Asked(t) == Cardinality({i \in 1 .. Len(items) : items[i] = t})
                 Got(t) == Cardinality({b \in placed : bets[b].now.ticket = t})
             IN  IF quotes[k].now.status = "executed"
                 THEN /\ Cardinality(placed) = Len(items)
                      /\ \A i \in 1 .. Len(items) : Asked(items[i]) = Got(items[i])
                 ELSE placed = {}
  BY DEF SlipsAllOrNothing
<1> DEFINE items == quotes[k].now.items
<1>2. Len(items) \in Nat
  <2>1. items \in Seq(Ticket)
    BY DEF HouseTyped, TypeOK, RowOf, Quote
  <2> QED
    BY <2>1, LenProperties
<1>3. ASSUME quotes[k].now.status = "executed"
      PROVE  /\ Cardinality(PlacedOf(k)) = Len(items)
             /\ \A i \in 1 .. Len(items) :
                    Cardinality({j \in 1 .. Len(items) : items[j] = items[i]})
                        = Cardinality({b \in PlacedOf(k) : bets[b].now.ticket = items[i]})
  <2>1. Matched(items, Len(items), PlacedOf(k), RowTickets)
    BY <1>3 DEF SlipKept
  <2>2. \A t : BetsFor(PlacedOf(k), RowTickets, t) = {b \in PlacedOf(k) : bets[b].now.ticket = t}
    BY DEF BetsFor, PlacedOf, RowTickets
  <2>3. /\ Cardinality(PlacedOf(k)) = Len(items)
        /\ \A t : Cardinality(ItemsFor(items, Len(items), t))
                      = Cardinality(BetsFor(PlacedOf(k), RowTickets, t))
    <3> HIDE DEF items
    <3> QED
      BY <1>2, <2>1, MatchedCounts
  <2> QED
    BY <2>2, <2>3 DEF ItemsFor
<1>4. quotes[k].now.status # "executed" => PlacedOf(k) = {}
  BY DEF SlipKept
<1> QED
  BY <1>3, <1>4 DEF PlacedOf

----------------------------------------------------------------------------
(***************************************************************************)
(* Steps that neither claim a betslip nor insert a bet.                    *)
(***************************************************************************)

\* The bets of other steps stay what they are but for their status.
BetsKept(w) ==
    \A b \in BetIds :
        /\ bets'[b].now = bets[b].now
        /\ \/ bets'[b] = bets[b]
           \/ /\ Free(bets[b], w) /\ bets'[b].by = w
              /\ bets[b].now.status # "none" /\ bets'[b].new.status # "none"
              /\ bets'[b].new.ticket = bets[b].now.ticket
              /\ bets'[b].new.slip = bets[b].now.slip

\* A row that keeps its ticket and its betslip is written or locked.
LEMMA StatusOnly ==
    ASSUME NEW w \in Workers, HouseHeld, SlipRows, NEW b \in BetIds, Free(bets[b], w),
           bets[b].now.status # "none", NEW status \in BetStatus, status # "none",
           \/ bets' = [bets EXCEPT ![b] = Locked(@, w)]
           \/ bets' = [bets EXCEPT ![b] = Written(@, w, [@.now EXCEPT !.status = status])]
           \/ bets[b].by = w /\ bets' = [bets EXCEPT ![b].new.status = status]
    PROVE  BetsKept(w)
<1>1. bets \in [BetIds -> RowOf(Bet)]
  BY BetRows
<1>2. bets[b].now \in Bet /\ bets[b].new \in Bet /\ bets[b] \in RowOf(Bet)
  BY <1>1, VersionsTyped
<1>3. /\ bets[b].new.status # "none" /\ bets[b].new.ticket = bets[b].now.ticket
      /\ bets[b].new.slip = bets[b].now.slip
  BY DEF SlipRows
<1>4. /\ \A c \in BetIds : c # b => bets'[c] = bets[c]
      /\ bets'[b].now = bets[b].now /\ bets'[b].by = w
      /\ bets'[b].new \in {bets[b].new, [bets[b].now EXCEPT !.status = status],
                           [bets[b].new EXCEPT !.status = status]}
  <2>1. PICK row \in RowOf(Bet) : row = bets[b]
    BY <1>2
  <2> DEFINE status1 == [row.now EXCEPT !.status = status]
             status2 == [row.new EXCEPT !.status = status]
  <2>2. PICK new : /\ bets' = [bets EXCEPT ![b] = new]
                   /\ new.now = row.now /\ new.by = w
                   /\ new.new \in {row.new, status1, status2}
    <3>1. CASE bets' = [bets EXCEPT ![b] = Locked(@, w)]
      <4>1. bets' = [bets EXCEPT ![b] = Locked(row, w)]
        BY <2>1, <3>1
      <4>2. /\ Locked(row, w).now = row.now /\ Locked(row, w).by = w
            /\ Locked(row, w).new = row.new
        BY DEF Locked, RowOf
      <4> QED
        BY <4>1, <4>2
    <3>2. CASE bets' = [bets EXCEPT ![b] = Written(@, w, [@.now EXCEPT !.status = status])]
      <4>1. bets' = [bets EXCEPT ![b] = Written(row, w, status1)]
        BY <2>1, <3>2
      <4>2. /\ Written(row, w, status1).now = row.now /\ Written(row, w, status1).by = w
            /\ Written(row, w, status1).new = status1
        BY DEF Written, RowOf
      <4> QED
        BY <4>1, <4>2
    <3>3. CASE bets[b].by = w /\ bets' = [bets EXCEPT ![b].new.status = status]
      <4>1. PICK new : new = [row EXCEPT !.new.status = status]
        OBVIOUS
      <4>2. bets' = [bets EXCEPT ![b] = new]
        BY <2>1, <3>3, <4>1
      <4>3. new.now = row.now /\ new.by = w /\ new.new = status2
        BY <2>1, <3>3, <4>1 DEF RowOf
      <4> QED
        BY <4>2, <4>3
    <3> QED
      BY <3>1, <3>2, <3>3
  <2> HIDE DEF status1, status2
  <2>3. bets'[b] = new /\ \A c \in BetIds : c # b => bets'[c] = bets[c]
    BY <1>1, <2>2
  <2> QED
    BY <2>1, <2>2, <2>3 DEF status1, status2
<1>5. \A bet \in Bet : /\ [bet EXCEPT !.status = status].status = status
                       /\ [bet EXCEPT !.status = status].ticket = bet.ticket
                       /\ [bet EXCEPT !.status = status].slip = bet.slip
  BY DEF Bet
<1>6. /\ bets'[b].new.status # "none" /\ bets'[b].new.ticket = bets[b].now.ticket
      /\ bets'[b].new.slip = bets[b].now.slip
  BY <1>2, <1>3, <1>4, <1>5
<1> QED
  BY <1>4, <1>6 DEF BetsKept

LEMMA StatementsKeepBets ==
    ASSUME NEW w \in Workers, HouseHeld, SlipRows, InsertsOK(w), FoundOK(w),
           WorkerStep(w), ~Rollback(w), ~InsertBet(w)
    PROVE  BetsKept(w)
<1>1. /\ pc[w] \notin PlaceAt => \A b \in BetIds : bets[b].by = w => bets[b].now.status # "none"
      /\ {"open", "voided", "settled_win", "settled_loss"} \subseteq BetStatus
  BY DEF InsertsOK, Inserted, Placing, BetStatus
<1>2. CASE bets' = bets
  BY <1>2 DEF BetsKept
<1>3. CASE LockBet(w)
  <2>1. /\ pc[w] = "bet" /\ Free(bets[tx[w].bet], w) /\ bets[tx[w].bet].now.status = "open"
        /\ bets' = [bets EXCEPT ![tx[w].bet] = Locked(@, w)]
    BY <1>3, Zenon DEF LockBet
  <2>2. tx[w].bet \in BetIds
    BY <2>1, BetRows
  <2> QED
    BY <1>1, <2>1, <2>2, StatusOnly
<1>4. CASE RefundStake(w) \/ CashOut(w)
  <2>1. /\ pc[w] \in {"refund", "cashout"}
        /\ bets' = [bets EXCEPT ![tx[w].bet].new.status = "voided"]
    BY <1>4, Zenon DEF RefundStake, CashOut
  <2>2. tx[w].bet \in BetIds /\ bets[tx[w].bet].by = w
    BY <2>1, BetRows DEF LocksOK
  <2>3. bets[tx[w].bet].now.status # "none" /\ Free(bets[tx[w].bet], w)
    BY <1>1, <2>1, <2>2 DEF PlaceAt, Free
  <2> QED
    BY <1>1, <2>1, <2>2, <2>3, StatusOnly
<1>5. CASE Result(w)
  <2>1. pc[w] = "result"
    BY <1>5 DEF Result
  <2>2. PICK b \in tx[w].batch : \E status \in {"settled_win", "settled_loss"} :
            /\ Free(bets[b], w)
            /\ bets' = [bets EXCEPT ![b] = Written(@, w, [@.now EXCEPT !.status = status])]
    BY <1>5 DEF Result
  <2>3. Looping(w)
    BY <2>1, BetRows DEF Looping, BatchOK
  <2>4. b \in BetIds /\ bets[b].now.status # "none"
    BY <2>3, LoopRows DEF FoundOK, Pending
  <2> QED
    BY <1>1, <2>2, <2>4, StatusOnly
<1>6. CASE VoidBet(w)
  <2>1. /\ pc[w] = "unbet" /\ Free(bets[tx[w].bet], w)
        /\ bets' = [bets EXCEPT ![tx[w].bet] =
                        Written(@, w, [@.now EXCEPT !.status = "voided"])]
    BY <1>6 DEF VoidBet
  <2>2. tx[w].bet \in Pending(w) /\ Looping(w)
    BY <2>1 DEF FoundOK, Pending
  <2>3. tx[w].bet \in BetIds /\ bets[tx[w].bet].now.status # "none"
    BY <2>1, <2>2, BetRows DEF FoundOK
  <2> QED
    BY <1>1, <2>1, <2>3, StatusOnly
<1>7. \/ bets' = bets
      \/ LockBet(w) \/ RefundStake(w) \/ CashOut(w) \/ Result(w) \/ VoidBet(w)
  <2>1. CASE ~WritesBets(w)
    BY <2>1, BetLinesKept
  <2>2. CASE DebitStake(w) \/ PayWinner(w) \/ CreditBet(w)
    BY <2>2, Zenon DEF DebitStake, PayWinner, CreditBet
  <2> QED
    BY <2>1, <2>2 DEF WritesBets
<1> QED
  BY <1>2, <1>3, <1>4, <1>5, <1>6, <1>7

\* Which statements there are for a placement, and which requests may arrive.
LEMMA StatementAt ==
    ASSUME NEW w \in Workers, WorkerStep(w), ~Rollback(w)
    PROVE  /\ pc[w] # "commit"
           /\ pc[w] = "claim" => Claim(w)
           /\ pc[w] \in {"look", "risk", "debit", "insert"} =>
                  Look(w) \/ Assess(w) \/ DebitStake(w) \/ InsertBet(w)
           /\ pc[w] = "idle" =>
                  StartPlace(w) \/ \E s \in Statement \ PlaceAt : Goto(w, s)
           /\ Claim(w) \/ InsertBet(w) \/ Register(w) \/ quotes' = quotes
           /\ Register(w) => pc[w] = "register"
<1>1. \/ Claim(w) \/ InsertBet(w) \/ Register(w) \/ quotes' = quotes
  <2>1. CASE FixedOddsStep(w)
    BY <2>1 DEF FixedOddsStep, StartPlace, StartExecute, Look, Assess, DebitStake,
       StartQuote, StartLeave, LockBet, RefundStake, TouchMarket, CashOut, tables
  <2>2. CASE PoolStep(w)
    BY <2>2 DEF PoolStep, StartStake, BankStake, AddToPool, StartTrade, Price, PayTrade, tables
  <2>3. CASE FinalStep(w)
    BY <2>3 DEF FinalStep, StartSettle, Decide, Result, PayWinner, Divide, PayShare,
       FinishSettle, StartAnnul, LockToCancel, CreditBet, VoidBet, CreditPool, FinishCancel,
       Patch, WritePatch, StartReview, Approve, GrantFunds, Reject, tables
  <2> QED
    BY <2>1, <2>2, <2>3 DEF WorkerStep
<1>2. \/ pc[w] = "idle"
      \/ pc[w] = "claim" /\ Claim(w)
      \/ /\ pc[w] \in {"look", "risk", "debit", "insert"}
         /\ Look(w) \/ Assess(w) \/ DebitStake(w) \/ InsertBet(w)
      \/ pc[w] \notin {"idle", "claim", "look", "risk", "debit", "insert", "commit"}
  <2>1. CASE FixedOddsStep(w)
    BY <2>1 DEF FixedOddsStep, StartPlace, StartExecute, Claim, Look, Assess, DebitStake,
       InsertBet, StartQuote, Register, StartLeave, LockBet, RefundStake, TouchMarket, CashOut,
       Accept
  <2>2. CASE PoolStep(w)
    BY <2>2 DEF PoolStep, StartStake, BankStake, AddToPool, StartTrade, Price, PayTrade, Accept
  <2>3. CASE FinalStep(w)
    BY <2>3, Zenon DEF FinalStep, StartSettle, Decide, Result, PayWinner, Divide, PayShare,
       FinishSettle, StartAnnul, LockToCancel, CreditBet, VoidBet, CreditPool, FinishCancel,
       Patch, WritePatch, StartReview, Approve, GrantFunds, Reject, Accept
  <2> QED
    BY <2>1, <2>2, <2>3 DEF WorkerStep
<1>3. pc[w] = "idle" => StartPlace(w) \/ \E s \in Statement \ PlaceAt : Goto(w, s)
  <2>1. CASE FixedOddsStep(w)
    BY <2>1 DEF FixedOddsStep, StartExecute, Claim, Look, Assess, DebitStake, InsertBet,
       StartQuote, Register, StartLeave, LockBet, RefundStake, TouchMarket, CashOut,
       PlaceAt, Statement
  <2>2. CASE PoolStep(w)
    BY <2>2 DEF PoolStep, StartStake, BankStake, AddToPool, StartTrade, Price, PayTrade,
       PlaceAt, Statement
  <2>3. CASE FinalStep(w)
    BY <2>3 DEF FinalStep, StartSettle, Decide, Result, PayWinner, Divide, PayShare,
       FinishSettle, StartAnnul, LockToCancel, CreditBet, VoidBet, CreditPool, FinishCancel,
       Patch, WritePatch, StartReview, Approve, GrantFunds, Reject, PlaceAt, Statement
  <2> QED
    BY <2>1, <2>2, <2>3 DEF WorkerStep
<1>4. Register(w) => pc[w] = "register"
  BY DEF Register
<1> QED
  BY <1>1, <1>2, <1>3, <1>4

\* A placement goes on with the items it has, and no other request becomes an execution.
LEMMA PlacingGoesOn ==
    ASSUME NEW w \in Workers, HouseHeld, WorkerStep(w), ~Rollback(w), ~Claim(w), ~InsertBet(w)
    PROVE  /\ Placing(w) => /\ pc[w] # "commit" /\ pc'[w] # "commit" /\ Placing(w)'
                            /\ req'[w] = req[w] /\ tx'[w] = tx[w] /\ quotes' = quotes
           /\ Executing(w) => Placing(w)
           /\ Executing(w)' <=> Executing(w)
<1>1. /\ pc \in [Workers -> Statement] /\ req \in [Workers -> Request \cup {NoRequest}]
      /\ req[w].op \in OpsAt(pc[w]) /\ HoldingOK(w)
  BY BetRows, Holding, Typed
<1>2. ASSUME Placing(w)
      PROVE  /\ pc[w] # "commit" /\ pc'[w] # "commit" /\ Placing(w)'
             /\ req'[w] = req[w] /\ tx'[w] = tx[w] /\ quotes' = quotes
             /\ Executing(w)' <=> Executing(w)
  <2>1. Look(w) \/ Assess(w) \/ DebitStake(w)
    BY <1>2, StatementAt DEF Placing, PlaceAt
  <2>2. /\ UNCHANGED <<req, tx, quotes>>
        /\ Goto(w, "risk") \/ Goto(w, "debit") \/ Goto(w, "insert")
        /\ pc[w] # "commit"
    BY <2>1, Zenon DEF Look, Assess, DebitStake, tables
  <2>3. pc'[w] \in {"risk", "debit", "insert"}
    BY <1>1, <2>2 DEF Goto
  <2> QED
    BY <1>2, <2>2, <2>3 DEF Placing, Executing, PlaceAt
<1>3. ASSUME ~Placing(w)
      PROVE  ~Executing(w) /\ ~Executing(w)'
  <2>1. ~Executing(w)
    BY <1>3 DEF Placing, Executing
  <2>2. CASE pc[w] = "idle"
    <3>1. CASE StartPlace(w)
      <4>1. \E r \in todo : r.op = "place" /\ req' = [req EXCEPT ![w] = r]
        BY <3>1 DEF StartPlace, Accept
      <4>2. req'[w].op = "place"
        BY <1>1, <4>1
      <4> QED
        BY <2>1, <4>2 DEF Executing
    <3>2. CASE \E s \in Statement \ PlaceAt : Goto(w, s)
      <4>1. pc'[w] \notin PlaceAt
        BY <1>1, <3>2 DEF Goto
      <4> QED
        BY <2>1, <4>1 DEF Executing
    <3> QED
      BY <2>2, <3>1, <3>2, StatementAt
  <2>3. CASE pc[w] # "idle"
    <3>1. req'[w] = req[w] \/ req'[w] = NoRequest
      BY <1>1, <2>3, RequestsArrive DEF RequestMoves, Accept, EndRequest
    <3>2. pc[w] \notin {"claim"} \cup PlaceAt
      BY <1>1, <1>3, StatementAt DEF Placing, PlaceAt, OpsAt
    <3>3. req[w].op # "execute"
      BY <1>1, <2>3, <3>2 DEF OpsAt, PlaceAt, Statement
    <3> QED
      BY <2>1, <3>1, <3>3 DEF Executing, NoRequest
  <2> QED
    BY <2>2, <2>3
<1> QED
  BY <1>2, <1>3 DEF Placing, Executing

----------------------------------------------------------------------------
(***************************************************************************)
(* What a step leaves as it is.                                            *)
(***************************************************************************)

\* What a loop has found is still there.
LEMMA StillFound ==
    ASSUME NEW w \in Workers, HouseHeld, FoundOK(w), Looping(w), Pending(w)' \subseteq Pending(w),
           pc'[w] = "unbet" => Looping(w)', \A b \in BetIds : bets'[b].now = bets[b].now
    PROVE  FoundOK(w)'
<1>1. Pending(w) \subseteq BetIds
  BY LoopRows
<1>2. \A b \in Pending(w)' : bets'[b].now.status # "none"
  BY <1>1 DEF FoundOK
<1> QED
  BY <1>2 DEF FoundOK

\* A loop begins with the open bets that w sees.
LEMMA NewlyFound ==
    ASSUME NEW w \in Workers, SlipRows, InsertsOK(w), pc[w] \notin PlaceAt, NEW m,
           Looping(w)' => tx'[w].batch = OpenBets(BetsSeen(w), m), pc'[w] # "unbet",
           \A b \in BetIds : bets'[b].now = bets[b].now
    PROVE  FoundOK(w)'
<1>1. \A b \in BetIds : bets[b].by = w => bets[b].now.status # "none"
  BY DEF InsertsOK, Inserted, Placing
<1>2. \A b \in OpenBets(BetsSeen(w), m) : b \in BetIds /\ bets[b].now.status # "none"
  BY <1>1 DEF OpenBets, BetsSeen, Seen
<1> QED
  BY <1>2 DEF FoundOK, Pending

\* The other statements lead into no loop.
LEMMA OutsideLoops ==
    ASSUME NEW w \in Workers, HouseHeld, WorkerStep(w), ~Rollback(w), ~Decide(w),
           ~LockToCancel(w), ~Result(w), ~PayWinner(w), ~CreditBet(w), ~VoidBet(w)
    PROVE  ~Looping(w)' /\ pc'[w] # "unbet"
<1>1. pc \in [Workers -> Statement]
  BY BetRows
<1> DEFINE Quiet == {"idle", "commit", "look", "risk", "debit", "insert", "claim", "register",
                     "bet", "refund", "touch", "cashout", "bank", "pool", "price", "pay",
                     "decide", "divide", "share", "annul", "patch", "approve", "grant", "reject"}
<1>2. (\E s \in Quiet : Goto(w, s)) => ~Looping(w)' /\ pc'[w] # "unbet"
  <2>1. (\E s \in Quiet : Goto(w, s)) => pc'[w] \in Quiet
    BY <1>1 DEF Goto
  <2> QED
    BY <2>1 DEF Looping
<1>3. CASE FixedOddsStep(w)
  <2>1. \E s \in Quiet : Goto(w, s)
    BY <1>3 DEF FixedOddsStep, StartPlace, StartExecute, Claim, Look, Assess, DebitStake,
       InsertBet, StartQuote, Register, StartLeave, LockBet, RefundStake, TouchMarket, CashOut,
       EndRequest
  <2> QED
    BY <1>2, <2>1
<1>4. CASE PoolStep(w)
  <2>1. \E s \in Quiet : Goto(w, s)
    BY <1>4, Zenon DEF PoolStep, StartStake, BankStake, AddToPool, StartTrade, Price, PayTrade
  <2> QED
    BY <1>2, <2>1
<1>5. CASE FinalStep(w)
  <2>1. CASE PayShare(w)
    <3>1. pc' = pc /\ pc[w] = "share"
      BY <2>1 DEF PayShare
    <3> QED
      BY <3>1 DEF Looping
  <2>2. CASE CreditPool(w)
    <3>1. pc' = pc /\ pc[w] = "credit" /\ req' = req /\ Mechanism(req[w].market) # "fixed_odds"
      BY <2>2 DEF CreditPool
    <3> QED
      BY <3>1 DEF Looping
  <2>3. CASE ~PayShare(w) /\ ~CreditPool(w)
    <3>1. \E s \in Quiet : Goto(w, s)
      BY <1>5, <2>3, Zenon DEF FinalStep, StartSettle, Divide, FinishSettle, StartAnnul,
         FinishCancel, Patch, WritePatch, StartReview, Approve, GrantFunds, Reject
    <3> QED
      BY <1>2, <3>1
  <2> QED
    BY <2>1, <2>2, <2>3
<1> QED
  BY <1>3, <1>4, <1>5 DEF WorkerStep

LEMMA StatementsFind ==
    ASSUME NEW w \in Workers, HouseHeld, SlipRows, InsertsOK(w), FoundOK(w),
           WorkerStep(w), ~Rollback(w)
    PROVE  FoundOK(w)'
<1>1. /\ pc \in [Workers -> Statement] /\ tx \in [Workers -> Tx] /\ tx[w] \in Tx
      /\ BatchOK(w)
  BY BetRows
<1>2. \A b \in BetIds : bets'[b].now = bets[b].now
  BY WorkersOwn, BetRows DEF OwnStep, OwnRows
<1>3. CASE Decide(w)
  <2> DEFINE m == req[w].market
  <2>1. /\ pc[w] = "decide"
        /\ \/ Goto(w, "share")
           \/ Goto(w, "result") /\ tx' = [tx EXCEPT ![w].batch = OpenBets(BetsSeen(w), m)]
    BY <1>3, Zenon DEF Decide
  <2>2. \/ pc'[w] = "share"
        \/ pc'[w] = "result" /\ tx'[w].batch = OpenBets(BetsSeen(w), m)
    BY <1>1, <2>1 DEF Goto, Tx
  <2> QED
    BY <1>2, <2>1, <2>2, NewlyFound DEF PlaceAt, Looping
<1>4. CASE LockToCancel(w)
  <2> DEFINE m == req[w].market
  <2>1. /\ pc[w] = "annul" /\ Goto(w, "credit") /\ req' = req
        /\ tx' = [tx EXCEPT ![w].batch = ToRefund(w, m)]
    BY <1>4 DEF LockToCancel
  <2>2. pc'[w] = "credit" /\ tx'[w].batch = ToRefund(w, m)
    BY <1>1, <2>1 DEF Goto, Tx
  <2>3. Looping(w)' => tx'[w].batch = OpenBets(BetsSeen(w), m)
    BY <2>1, <2>2 DEF ToRefund, Looping
  <2> QED
    BY <1>2, <2>1, <2>2, <2>3, NewlyFound DEF PlaceAt
<1>5. CASE Result(w)
  <2>1. /\ pc[w] = "result" /\ req' = req
        /\ Goto(w, "payout") \/ Goto(w, "result")
        /\ \E b \in tx[w].batch : tx' = [tx EXCEPT ![w].batch = @ \ {b}, ![w].bet = b]
    BY <1>5 DEF Result
  <2>2. pc'[w] \in {"payout", "result"} /\ tx'[w].batch \subseteq tx[w].batch
    BY <1>1, <2>1 DEF Goto, Tx
  <2>3. Looping(w) /\ Pending(w)' \subseteq Pending(w)
    BY <1>1, <2>1, <2>2 DEF Looping, Pending, BatchOK
  <2> QED
    BY <1>2, <2>2, <2>3, StillFound
<1>6. CASE PayWinner(w)
  <2>1. pc[w] = "payout" /\ Goto(w, "result") /\ tx' = tx
    BY <1>6, Zenon DEF PayWinner
  <2>2. pc'[w] = "result"
    BY <1>1, <2>1 DEF Goto
  <2>3. Looping(w) /\ Pending(w)' \subseteq Pending(w)
    BY <1>1, <2>1, <2>2 DEF Looping, Pending, BatchOK
  <2> QED
    BY <1>2, <2>2, <2>3, StillFound
<1>7. CASE CreditBet(w)
  <2>1. /\ pc[w] = "credit" /\ Mechanism(req[w].market) = "fixed_odds" /\ Goto(w, "unbet")
        /\ req' = req
        /\ \E b \in tx[w].batch : tx' = [tx EXCEPT ![w].batch = @ \ {b}, ![w].bet = b]
    BY <1>7 DEF CreditBet
  <2>2. /\ pc'[w] = "unbet" /\ tx'[w].batch \subseteq tx[w].batch
        /\ tx'[w].bet \in tx[w].batch
    BY <1>1, <2>1 DEF Goto, Tx
  <2>3. Looping(w) /\ Looping(w)' /\ Pending(w)' \subseteq Pending(w)
    BY <2>1, <2>2 DEF Looping, Pending
  <2> QED
    BY <1>2, <2>3, StillFound
<1>8. CASE VoidBet(w)
  <2>1. pc[w] = "unbet" /\ Goto(w, "credit") /\ tx' = tx
    BY <1>8 DEF VoidBet
  <2>2. pc'[w] = "credit"
    BY <1>1, <2>1 DEF Goto
  <2>3. Looping(w) /\ Pending(w)' \subseteq Pending(w)
    BY <2>1, <2>2 DEF FoundOK, Pending
  <2> QED
    BY <1>2, <2>2, <2>3, StillFound
<1>9. CASE ~Decide(w) /\ ~LockToCancel(w) /\ ~Result(w) /\ ~PayWinner(w) /\ ~CreditBet(w)
           /\ ~VoidBet(w)
  BY <1>9, OutsideLoops DEF FoundOK
<1> QED
  BY <1>3, <1>4, <1>5, <1>6, <1>7, <1>8, <1>9

\* A worker whose rows are left alone, whatever becomes of the others.
LEMMA SameSlips ==
    ASSUME NEW v \in Workers, HouseHeld, WorkerSlips(v), QuotesHeld,
           pc'[v] = pc[v], req'[v] = req[v], tx'[v] = tx[v],
           \A b \in BetIds : /\ bets'[b].by = v <=> bets[b].by = v
                             /\ bets[b].by = v => bets'[b] = bets[b]
                             /\ bets[b].now.status # "none" => bets'[b].now.status # "none",
           \A k \in Slips : quotes[k].by = v => quotes'[k] = quotes[k]
    PROVE  WorkerSlips(v)'
<1>1. Inserted(v)' = Inserted(v) /\ \A b \in Inserted(v) : b \in BetIds /\ bets'[b] = bets[b]
  BY DEF Inserted
<1>2. InsertsOK(v)'
  BY <1>1 DEF WorkerSlips, InsertsOK, Placing, SlipOf
<1>3. ExecutionOK(v)'
  <2>1. SUFFICES ASSUME Executing(v)
                 PROVE  ExecutionOK(v)'
    BY DEF ExecutionOK, Executing
  <2> DEFINE quote == quotes[req[v].slip]
             items == quote.now.items
  <2>2. req[v].slip \in Slips
    BY <2>1, BetRows, RequestForms DEF Executing
  <2>3. quote.by = v /\ quotes'[req'[v].slip] = quote
    BY <2>1, <2>2 DEF WorkerSlips, ExecutionOK
  <2>4. Len(items) \in Nat
    <3>1. quote.now \in Quote
      BY <2>2, Holding, Typed, VersionsTyped DEF TablesTypedNow
    <3> QED
      BY <3>1, LenProperties DEF Quote
  <2>5. PICK n \in 0 .. Len(items) :
            /\ tx[v].items = SubSeq(items, n + 1, Len(items))
            /\ Matched(items, n, Inserted(v), DraftTickets)
            /\ pc[v] = "commit" <=> n = Len(items)
            /\ quote.new.status = IF n = Len(items) THEN "executed" ELSE "pending"
    BY <2>1 DEF WorkerSlips, ExecutionOK
  <2>6. Matched(items, n, Inserted(v)', DraftTickets')
    <3>1. \A b \in Inserted(v) : DraftTickets'[b] = DraftTickets[b]
      BY <1>1 DEF DraftTickets
    <3>2. n \in Nat
      BY <2>4
    <3> HIDE DEF items
    <3> QED
      BY <1>1, <2>5, <3>1, <3>2, MatchedStays
  <2>7. quote.now.status = "pending"
    BY <2>1 DEF WorkerSlips, ExecutionOK
  <2> QED
    BY <2>3, <2>5, <2>6, <2>7 DEF ExecutionOK
<1>4. FoundOK(v)'
  <2>1. Looping(v)' = Looping(v) /\ Pending(v)' = Pending(v)
    BY DEF Looping, Pending
  <2> QED
    BY <2>1, LoopRows DEF WorkerSlips, FoundOK
<1> QED
  BY <1>2, <1>3, <1>4 DEF WorkerSlips

\* A betslip whose committed bets are left alone.
LEMMA SameSlip ==
    ASSUME NEW k \in Slips, SlipKept(k), \A b \in BetIds : bets'[b].now = bets[b].now,
           \/ quotes'[k].now = quotes[k].now
           \/ quotes[k].now.status = "none" /\ quotes'[k].now.status = "pending"
    PROVE  SlipKept(k)'
<1>1. PlacedOf(k)' = PlacedOf(k) /\ RowTickets' = RowTickets
  BY DEF PlacedOf, RowTickets
<1> QED
  BY <1>1 DEF SlipKept

----------------------------------------------------------------------------
(***************************************************************************)
(* The steps of an execution.                                              *)
(***************************************************************************)

\* What is used of the types of the quotes.
LEMMA QuoteRows ==
    ASSUME HouseTyped
    PROVE  /\ quotes \in [Slips -> RowOf(Quote)]
           /\ \A k \in Slips : /\ quotes[k].now.items \in Seq(Ticket)
                               /\ Len(quotes[k].now.items) \in Nat
                               /\ quotes[k].now.status \in {"none", "pending", "executed"}
<1>1. quotes \in [Slips -> RowOf(Quote)]
  BY DEF HouseTyped, TypeOK
<1>2. \A k \in Slips : /\ quotes[k].now.items \in Seq(Ticket)
                       /\ quotes[k].now.status \in {"none", "pending", "executed"}
  BY <1>1 DEF RowOf, Quote
<1> QED
  BY <1>1, <1>2, LenProperties

\* What an execution has.
LEMMA ExecutionHas ==
    ASSUME NEW w \in Workers, SlipInv, Executing(w)
    PROVE  /\ req[w].slip \in Slips /\ quotes[req[w].slip].by = w
           /\ quotes[req[w].slip].now.status = "pending"
  BY BetRows, RequestForms DEF SlipInv, WorkerSlips, ExecutionOK, Executing

LEMMA ClaimSlips ==
    ASSUME NEW w \in Workers, SlipInv, Claim(w), ~Rollback(w)
    PROVE  /\ InsertsOK(w)' /\ ExecutionOK(w)' /\ BetsKept(w) /\ Executing(w)'
           /\ req'[w] = req[w] /\ req[w].slip \in Slips
           /\ quotes[req[w].slip].by = Nobody /\ quotes'[req[w].slip].by = w
           /\ quotes'[req[w].slip].now = quotes[req[w].slip].now
           /\ \A k \in Slips \ {req[w].slip} : quotes'[k] = quotes[k]
<1> DEFINE k == req[w].slip
           items == quotes[k].now.items
<1>1. /\ HouseHeld /\ HouseTyped /\ QuotesHeld /\ InsertsOK(w)
      /\ pc \in [Workers -> Statement] /\ tx \in [Workers -> Tx]
      /\ req[w] \in Request \cup {NoRequest} /\ req[w].op \in OpsAt(pc[w]) /\ ServingOK(w)
  BY BetRows, Holding, Typed DEF SlipInv, WorkerSlips
<1>2. /\ pc[w] = "claim" /\ Free(quotes[k], w) /\ quotes[k].now.status # "executed"
      /\ quotes' = [quotes EXCEPT ![k] = Locked(@, w)]
      /\ tx' = [tx EXCEPT ![w].items = items]
      /\ Goto(w, "look") /\ UNCHANGED <<bets, req>>
  BY DEF Claim
<1>3. req[w].op = "execute" /\ k \in Slips
  BY <1>1, <1>2, RequestForms DEF OpsAt
<1>4. /\ quotes \in [Slips -> RowOf(Quote)] /\ items \in Seq(Ticket) /\ Len(items) \in Nat
      /\ quotes[k].now.status = "pending"
  <2>1. quotes[k].now.status # "none"
    BY <1>1, <1>2, <1>3 DEF ServingOK
  <2> QED
    BY <1>1, <1>2, <1>3, <2>1, QuoteRows
<1>5. quotes[k].by = Nobody /\ quotes[k].new = quotes[k].now
  <2>1. quotes[k].by # w
    BY <1>1, <1>2, <1>3 DEF QuotesHeld, Executing, PlaceAt
  <2> QED
    BY <1>1, <1>2, <1>3, <2>1 DEF QuotesHeld, Free
<1>6. /\ quotes'[k].by = w /\ quotes'[k].now = quotes[k].now /\ quotes'[k].new = quotes[k].now
      /\ \A c \in Slips \ {k} : quotes'[c] = quotes[c]
  BY <1>2, <1>3, <1>4, <1>5 DEF Locked, RowOf
<1>7. pc'[w] = "look" /\ tx'[w].items = items /\ req'[w] = req[w]
  BY <1>1, <1>2 DEF Goto, Tx
<1>8. Inserted(w)' = {} /\ Executing(w)'
  <2>1. Inserted(w) = {}
    BY <1>1, <1>2 DEF InsertsOK, Placing, PlaceAt
  <2> QED
    BY <1>2, <1>3, <1>7, <2>1 DEF Inserted, Executing, PlaceAt
<1>9. ExecutionOK(w)'
  <2>1. items = SubSeq(items, 1, Len(items)) /\ 0 # Len(items)
    <3>1. items # <<>>
      BY <1>1, <1>3, <1>4 DEF HouseTyped, QuotesAsk
    <3> HIDE DEF items
    <3> QED
      BY <1>4, <3>1, SubSeqFull, EmptySeq
  <2>2. Matched(items, 0, Inserted(w)', DraftTickets')
    <3> HIDE DEF items
    <3> QED
      BY <1>8, MatchedNone
  <2>3. 0 \in 0 .. Len(items) /\ 0 + 1 = 1
    BY <1>4
  <2>4. quotes'[req'[w].slip].now.items = items
    BY <1>6, <1>7
  <2> QED
    BY <1>4, <1>6, <1>7, <2>1, <2>2, <2>3, <2>4, Zenon DEF ExecutionOK
<1>10. BetsKept(w)
  BY <1>2 DEF BetsKept
<1> QED
  BY <1>3, <1>5, <1>6, <1>7, <1>8, <1>9, <1>10 DEF InsertsOK

\* The next item of an execution.
LEMMA NextItem ==
    ASSUME NEW items \in Seq(Ticket), NEW n \in 0 .. Len(items), n # Len(items),
           NEW rest, rest = SubSeq(items, n + 1, Len(items))
    PROVE  /\ Head(rest) = items[n + 1]
           /\ Tail(rest) = SubSeq(items, n + 1 + 1, Len(items))
           /\ n + 1 \in 0 .. Len(items) /\ n \in Nat
           /\ Len(rest) = 1 <=> n + 1 = Len(items)
<1>1. Len(items) \in Nat
  BY LenProperties
<1>2. n + 1 \in 1 .. Len(items) /\ Len(items) \in n + 1 .. Len(items) /\ n \in Nat
  BY <1>1
<1>3. Head(rest) = items[n + 1] /\ Tail(rest) = SubSeq(items, n + 1 + 1, Len(items))
  BY <1>2, HeadTailOfSubSeq
<1>4. Len(rest) = Len(items) - (n + 1) + 1
  <2>1. \A i \in n + 1 .. Len(items) : items[i] \in Ticket
    <3>1. \A i \in n + 1 .. Len(items) : i \in 1 .. Len(items)
      BY <1>1, <1>2
    <3> QED
      BY <3>1, ElementOfSeq
  <2> QED
    BY <1>1, <1>2, <2>1, SubSeqProperties
<1>5. \A m \in Nat : n + 1 \in 1 .. m => n + 1 \in 0 .. m /\ (m - (n + 1) + 1 = 1 <=> n + 1 = m)
  BY <1>2
<1>6. n + 1 \in 0 .. Len(items) /\ (Len(rest) = 1 <=> n + 1 = Len(items))
  BY <1>1, <1>2, <1>4, <1>5, Zenon
<1> QED
  BY <1>2, <1>3, <1>6

LEMMA InsertBetSlips ==
    ASSUME NEW w \in Workers, SlipInv, InsertBet(w)
    PROVE  /\ SlipRows' /\ InsertsOK(w)' /\ ExecutionOK(w)'
           /\ \A b \in BetIds : bets'[b].now = bets[b].now
           /\ Executing(w) => Executing(w)' /\ req'[w] = req[w]
           /\ \A k \in Slips :
                  \/ quotes'[k] = quotes[k]
                  \/ /\ quotes[k].by = w /\ quotes'[k].by = w
                     /\ quotes'[k].now = quotes[k].now
<1> DEFINE t == Head(tx[w].items)
           slip == SlipOf(w)
           last == Len(tx[w].items) = 1
           bet == [ticket |-> t, slip |-> slip, status |-> "open"]
<1>1. /\ HouseHeld /\ HouseTyped /\ SlipRows /\ QuotesHeld /\ InsertsOK(w) /\ ExecutionOK(w)
      /\ pc \in [Workers -> Statement] /\ tx \in [Workers -> Tx]
      /\ bets \in [BetIds -> RowOf(Bet)] /\ quotes \in [Slips -> RowOf(Quote)]
      /\ req[w] \in Request \cup {NoRequest} /\ req[w].op \in OpsAt(pc[w])
  BY BetRows, Typed, QuoteRows, Holding DEF SlipInv, WorkerSlips
<1>2. PICK b \in FreeBets : bets' = [bets EXCEPT ![b] = Written(@, w, bet)]
  BY Zenon DEF InsertBet, SlipOf
<1>3. /\ pc[w] = "insert" /\ req' = req /\ tx' = [tx EXCEPT ![w].items = Tail(@)]
      /\ Goto(w, IF last THEN "commit" ELSE "look")
      /\ quotes' = IF last /\ slip # Nobody
                   THEN [quotes EXCEPT ![slip].new.status = "executed"] ELSE quotes
  BY DEF InsertBet, SlipOf
<1>4. /\ pc'[w] = (IF last THEN "commit" ELSE "look") /\ req'[w] = req[w]
      /\ tx'[w].items = Tail(tx[w].items) /\ pc[w] # "commit"
  BY <1>1, <1>3 DEF Goto, Tx
<1>5. /\ req[w].op \in {"place", "execute"} /\ Placing(w) /\ Placing(w)'
      /\ Executing(w) <=> req[w].op = "execute"
      /\ Executing(w)' <=> req[w].op = "execute"
      /\ SlipOf(w)' = slip /\ SlipOf(w) = slip
  BY <1>1, <1>3, <1>4 DEF OpsAt, Placing, Executing, PlaceAt, SlipOf
<1>6. b \in BetIds /\ bets[b].by = Nobody /\ bets[b].now.status = "none" /\ b \notin Inserted(w)
  BY NobodyAssumption DEF FreeBets, Inserted
<1>7. bet.ticket = t /\ bet.slip = slip /\ bet.status = "open"
  OBVIOUS
<1> HIDE DEF bet, t, slip, last
<1>8. /\ bets'[b].by = w /\ bets'[b].now = bets[b].now /\ bets'[b].new = bet
      /\ \A c \in BetIds : c # b => bets'[c] = bets[c]
  BY <1>1, <1>2, <1>6 DEF Written, RowOf
<1>9. Inserted(w)' = Inserted(w) \cup {b}
  BY <1>6, <1>8 DEF Inserted
<1>10. InsertsOK(w)'
  BY <1>1, <1>5, <1>6, <1>7, <1>8, <1>9 DEF InsertsOK, Inserted
<1>11. SlipRows'
  BY <1>1, <1>6, <1>8, NobodyAssumption DEF SlipRows
<1>12. CASE req[w].op # "execute"
  <2>1. quotes' = quotes
    BY <1>3, <1>12 DEF slip, SlipOf
  <2> QED
    BY <1>4, <1>5, <1>8, <1>10, <1>11, <1>12, <2>1 DEF ExecutionOK
<1>13. CASE req[w].op = "execute"
  <2> DEFINE items == quotes[slip].now.items
  <2>1. /\ slip = req[w].slip /\ slip \in Slips /\ slip # Nobody /\ Executing(w)
        /\ quotes[slip].by = w /\ quotes[slip].now.status = "pending"
    BY <1>5, <1>13, ExecutionHas, SlipsAssumption DEF slip, SlipOf
  <2>2. PICK n \in 0 .. Len(items) :
            /\ tx[w].items = SubSeq(items, n + 1, Len(items))
            /\ Matched(items, n, Inserted(w), DraftTickets)
            /\ pc[w] = "commit" <=> n = Len(items)
            /\ quotes[slip].new.status = IF n = Len(items) THEN "executed" ELSE "pending"
    BY <1>1, <2>1 DEF ExecutionOK
  <2>3. items \in Seq(Ticket) /\ n # Len(items)
    BY <1>1, <1>4, <2>1, <2>2, QuoteRows, Zenon
  <2>4. /\ t = items[n + 1] /\ Tail(tx[w].items) = SubSeq(items, n + 1 + 1, Len(items))
        /\ n + 1 \in 0 .. Len(items) /\ n \in Nat
        /\ last <=> n + 1 = Len(items)
    <3> HIDE DEF items
    <3> QED
      BY <2>2, <2>3, NextItem DEF t, last
  <2>5. /\ quotes'[slip].by = w /\ quotes'[slip].now = quotes[slip].now
        /\ quotes'[slip].new.status = IF last THEN "executed" ELSE "pending"
        /\ \A k \in Slips : k # slip => quotes'[k] = quotes[k]
    <3>1. quotes[slip].new.status = "pending"
      BY <2>2, <2>3
    <3> QED
      BY <1>1, <1>3, <2>1, <3>1 DEF RowOf, Quote
  <2>6. Matched(items, n + 1, Inserted(w)', DraftTickets')
    <3>1. DraftTickets'[b] = items[n + 1]
      BY <1>6, <1>7, <1>8, <2>4 DEF DraftTickets
    <3>2. \A c \in Inserted(w) : DraftTickets'[c] = DraftTickets[c]
      BY <1>6, <1>8 DEF DraftTickets, Inserted
    <3>3. b \notin Inserted(w) /\ n \in Nat
      BY <1>6, <2>4
    <3>4. Matched(items, n, Inserted(w), DraftTickets)
      BY <2>2
    <3> HIDE DEF items
    <3>5. Matched(items, n + 1, Inserted(w) \cup {b}, DraftTickets')
      BY <3>1, <3>2, <3>3, <3>4, MatchedMore
    <3> QED
      BY <1>9, <3>5
  <2>7. ExecutionOK(w)'
    <3>1. /\ quotes'[req'[w].slip].now.items = items
          /\ quotes'[req'[w].slip] = quotes'[slip]
      BY <1>4, <2>1, <2>5
    <3>2. pc'[w] = "commit" <=> n + 1 = Len(items)
      BY <1>4, <2>4
    <3>3. quotes'[slip].new.status = IF n + 1 = Len(items) THEN "executed" ELSE "pending"
      BY <2>4, <2>5
    <3> QED
      BY <1>4, <2>1, <2>4, <2>5, <2>6, <3>1, <3>2, <3>3, Zenon DEF ExecutionOK
  <2> QED
    BY <1>4, <1>5, <1>8, <1>10, <1>11, <2>1, <2>5, <2>7
<1> QED
  BY <1>12, <1>13

\* Where a step of w leaves the quotes: it writes one that is free or its own, for the
\* betslip that it executes, or registers one that was not there.
QuotesMove(w) ==
    \A k \in Slips :
        \/ quotes'[k] = quotes[k]
        \/ /\ quotes[k].by \in {Nobody, w} /\ quotes'[k].by = w
           /\ quotes'[k].now = quotes[k].now
           /\ Executing(w)' /\ req'[w].slip = k
        \/ /\ quotes[k].by = Nobody /\ quotes'[k].by = Nobody
           /\ quotes'[k].new = quotes'[k].now
           /\ quotes[k].now.status = "none" /\ quotes'[k].now.status = "pending"

\* What every step of w makes of its own betslip and bets.
SlipsMove(w) ==
    /\ SlipRows' /\ InsertsOK(w)' /\ ExecutionOK(w)' /\ QuotesMove(w)
    /\ \A b \in BetIds : bets'[b].now = bets[b].now
    /\ Executing(w) => Executing(w)' /\ req'[w] = req[w]

LEMMA KeptRows ==
    ASSUME NEW w \in Workers, SlipRows, BetsKept(w)
    PROVE  /\ SlipRows' /\ Inserted(w)' = Inserted(w)
           /\ \A b \in Inserted(w) : bets'[b] = bets[b]
           /\ \A b \in BetIds : bets'[b].now = bets[b].now
<1>1. \A b \in BetIds : bets'[b].now = bets[b].now
  BY DEF BetsKept
<1>2. SlipRows'
  BY NobodyAssumption DEF SlipRows, BetsKept
<1>3. \A b \in BetIds : bets'[b] = bets[b] \/ bets[b].now.status # "none"
  BY DEF BetsKept
<1>4. Inserted(w)' = Inserted(w) /\ \A b \in Inserted(w) : bets'[b] = bets[b]
  BY <1>1, <1>3 DEF Inserted
<1> QED
  BY <1>1, <1>2, <1>4

LEMMA QuietSlips ==
    ASSUME NEW w \in Workers, SlipInv, WorkerStep(w), ~Rollback(w), ~Claim(w), ~InsertBet(w)
    PROVE  SlipsMove(w)
<1>1. /\ HouseHeld /\ HouseTyped /\ SlipRows /\ QuotesHeld
      /\ InsertsOK(w) /\ ExecutionOK(w) /\ FoundOK(w)
  BY Holding DEF SlipInv, WorkerSlips
<1>2. BetsKept(w)
  BY <1>1, StatementsKeepBets
<1>3. /\ SlipRows' /\ Inserted(w)' = Inserted(w)
      /\ \A b \in Inserted(w) : bets'[b] = bets[b]
      /\ \A b \in BetIds : bets'[b].now = bets[b].now
  BY <1>1, <1>2, KeptRows
<1>4. /\ Placing(w) => /\ pc[w] # "commit" /\ pc'[w] # "commit" /\ Placing(w)'
                       /\ req'[w] = req[w] /\ tx'[w] = tx[w] /\ quotes' = quotes
      /\ Executing(w) => Placing(w)
      /\ Executing(w)' <=> Executing(w)
  BY <1>1, PlacingGoesOn
<1>5. InsertsOK(w)'
  BY <1>1, <1>3, <1>4 DEF InsertsOK, SlipOf
<1>6. ExecutionOK(w)'
  <2>1. SUFFICES ASSUME Executing(w)
                 PROVE  ExecutionOK(w)'
    BY <1>4 DEF ExecutionOK
  <2> DEFINE items == quotes[req[w].slip].now.items
  <2>2. PICK n \in 0 .. Len(items) :
            /\ tx[w].items = SubSeq(items, n + 1, Len(items))
            /\ Matched(items, n, Inserted(w), DraftTickets)
            /\ pc[w] = "commit" <=> n = Len(items)
            /\ quotes[req[w].slip].new.status =
                   IF n = Len(items) THEN "executed" ELSE "pending"
    BY <1>1, <2>1 DEF ExecutionOK
  <2>3. Len(items) \in Nat
    BY <1>1, <2>1, ExecutionHas, QuoteRows
  <2>4. Matched(items, n, Inserted(w)', DraftTickets')
    <3>1. \A b \in Inserted(w) : DraftTickets'[b] = DraftTickets[b]
      BY <1>3 DEF DraftTickets, Inserted
    <3>2. n \in Nat
      BY <2>3
    <3> HIDE DEF items
    <3> QED
      BY <1>3, <2>2, <3>1, <3>2, MatchedStays
  <2>5. /\ quotes[req[w].slip].by = w /\ quotes[req[w].slip].now.status = "pending"
        /\ quotes' = quotes /\ req'[w] = req[w] /\ tx'[w] = tx[w]
        /\ pc[w] # "commit" /\ pc'[w] # "commit"
    BY <1>4, <2>1, ExecutionHas
  <2> QED
    BY <2>2, <2>4, <2>5 DEF ExecutionOK
<1>7. QuotesMove(w)
  <2>1. CASE Register(w)
    <3> DEFINE k == req[w].slip
    <3>1. \/ quotes' = quotes
          \/ /\ quotes[k].now.status = "none"
             /\ quotes' = [quotes EXCEPT ![k] =
                    Fresh([user |-> req[w].user, items |-> req[w].items, status |-> "pending"])]
      BY <2>1 DEF Register
    <3> HIDE DEF k
    <3>2. quotes \in [Slips -> RowOf(Quote)]
      BY <1>1, QuoteRows
    <3>3. ASSUME k \in Slips, quotes[k].now.status = "none"
          PROVE  quotes[k].by = Nobody
      <4>1. quotes[k].by \in Workers \cup {Nobody}
        BY <3>2, <3>3 DEF RowOf
      <4>2. ASSUME NEW v \in Workers, quotes[k].by = v
            PROVE  FALSE
        <5>1. Executing(v) /\ req[v].slip = k
          BY <1>1, <3>3, <4>2 DEF QuotesHeld
        <5> QED
          BY <3>3, <5>1, ExecutionHas
      <4> QED
        BY <4>1, <4>2
    <3> QED
      BY <3>1, <3>2, <3>3 DEF QuotesMove, Fresh
  <2>2. CASE ~Register(w)
    BY <2>2, StatementAt DEF QuotesMove
  <2> QED
    BY <2>1, <2>2
<1> QED
  BY <1>3, <1>4, <1>5, <1>6, <1>7 DEF SlipsMove

LEMMA WorkersMove ==
    ASSUME NEW w \in Workers, SlipInv, WorkerStep(w), ~Rollback(w)
    PROVE  SlipsMove(w)
<1>1. /\ HouseHeld /\ SlipRows /\ QuotesHeld
  BY DEF SlipInv
<1>2. CASE Claim(w)
  <2>1. /\ InsertsOK(w)' /\ ExecutionOK(w)' /\ BetsKept(w) /\ Executing(w)'
        /\ req'[w] = req[w] /\ req[w].slip \in Slips
        /\ quotes[req[w].slip].by = Nobody /\ quotes'[req[w].slip].by = w
        /\ quotes'[req[w].slip].now = quotes[req[w].slip].now
        /\ \A k \in Slips \ {req[w].slip} : quotes'[k] = quotes[k]
    BY <1>2, ClaimSlips
  <2>2. SlipRows' /\ \A b \in BetIds : bets'[b].now = bets[b].now
    BY <1>1, <2>1, KeptRows
  <2>3. QuotesMove(w)
    BY <2>1 DEF QuotesMove
  <2> QED
    BY <2>1, <2>2, <2>3 DEF SlipsMove
<1>3. CASE InsertBet(w)
  <2>1. /\ SlipRows' /\ InsertsOK(w)' /\ ExecutionOK(w)'
        /\ \A b \in BetIds : bets'[b].now = bets[b].now
        /\ Executing(w) => Executing(w)' /\ req'[w] = req[w]
        /\ \A k \in Slips :
               \/ quotes'[k] = quotes[k]
               \/ /\ quotes[k].by = w /\ quotes'[k].by = w
                  /\ quotes'[k].now = quotes[k].now
    BY <1>3, InsertBetSlips
  <2>2. QuotesMove(w)
    <3>1. \A k \in Slips : quotes[k].by = w => Executing(w) /\ req[w].slip = k
      BY <1>1 DEF QuotesHeld
    <3> QED
      BY <2>1, <3>1 DEF QuotesMove
  <2> QED
    BY <2>1, <2>2 DEF SlipsMove
<1>4. CASE ~Claim(w) /\ ~InsertBet(w)
  BY <1>4, QuietSlips
<1> QED
  BY <1>2, <1>3, <1>4

\* A step within a request.
LEMMA SlipSteps ==
    ASSUME NEW w \in Workers, SlipInv, WorkerStep(w), ~Rollback(w)
    PROVE  /\ SlipRows' /\ QuotesHeld'
           /\ \A v \in Workers : WorkerSlips(v)'
           /\ \A k \in Slips : SlipKept(k)'
<1>1. /\ HouseHeld /\ SlipRows /\ QuotesHeld /\ WorkerSlips(w)
      /\ bets \in [BetIds -> RowOf(Bet)]
  BY BetRows DEF SlipInv
<1>2. /\ SlipRows' /\ InsertsOK(w)' /\ ExecutionOK(w)' /\ QuotesMove(w)
      /\ \A b \in BetIds : bets'[b].now = bets[b].now
      /\ Executing(w) => Executing(w)' /\ req'[w] = req[w]
  BY WorkersMove DEF SlipsMove
<1>3. /\ OwnRows(bets, bets', w)
      /\ \A v \in Workers \ {w} : pc'[v] = pc[v] /\ req'[v] = req[v] /\ tx'[v] = tx[v]
  BY <1>1, WorkersOwn DEF OwnStep
<1>4. FoundOK(w)'
  BY <1>1, StatementsFind DEF WorkerSlips
<1>5. ASSUME NEW v \in Workers \ {w}
      PROVE  WorkerSlips(v)'
  <2>1. \A b \in BetIds : /\ bets'[b].by = v <=> bets[b].by = v
                          /\ bets[b].by = v => bets'[b] = bets[b]
                          /\ bets[b].now.status # "none" => bets'[b].now.status # "none"
    BY <1>1, <1>2, <1>3, NobodyAssumption DEF OwnRows, Free
  <2>2. \A k \in Slips : quotes[k].by = v => quotes'[k] = quotes[k]
    BY <1>2, NobodyAssumption DEF QuotesMove
  <2>3. pc'[v] = pc[v] /\ req'[v] = req[v] /\ tx'[v] = tx[v] /\ WorkerSlips(v)
    BY <1>3 DEF SlipInv
  <2> QED
    BY <1>1, <2>1, <2>2, <2>3, SameSlips
<1>6. QuotesHeld'
  <2>1. ASSUME NEW k \in Slips, quotes'[k].by = Nobody
        PROVE  quotes'[k].new = quotes'[k].now
    BY <1>1, <1>2, <2>1, NobodyAssumption DEF QuotesMove, QuotesHeld
  <2>2. ASSUME NEW k \in Slips, NEW v \in Workers, quotes'[k].by = v
        PROVE  Executing(v)' /\ req'[v].slip = k
    <3>1. \/ quotes[k].by = v
          \/ v = w /\ Executing(w)' /\ req'[w].slip = k
      BY <1>2, <2>2, NobodyAssumption DEF QuotesMove
    <3>2. CASE quotes[k].by = v
      <4>1. Executing(v) /\ req[v].slip = k
        BY <1>1, <3>2 DEF QuotesHeld
      <4>2. CASE v = w
        BY <1>2, <4>1, <4>2
      <4>3. CASE v # w
        BY <1>3, <4>1, <4>3 DEF Executing
      <4> QED
        BY <4>2, <4>3
    <3> QED
      BY <3>1, <3>2
  <2> QED
    BY <2>1, <2>2 DEF QuotesHeld
<1>7. ASSUME NEW k \in Slips
      PROVE  SlipKept(k)'
  <2>1. SlipKept(k)
    BY DEF SlipInv
  <2>2. \/ quotes'[k].now = quotes[k].now
        \/ quotes[k].now.status = "none" /\ quotes'[k].now.status = "pending"
    BY <1>2 DEF QuotesMove
  <2> QED
    BY <1>2, <2>1, <2>2, SameSlip
<1> QED
  BY <1>2, <1>4, <1>5, <1>6, <1>7 DEF WorkerSlips

----------------------------------------------------------------------------
(***************************************************************************)
(* The end of a request.                                                   *)
(***************************************************************************)

\* Until the last bet is inserted the quote is not marked, so that a commit shows the
\* bets that the quote asks for, all of them.
LEMMA CommitShows ==
    ASSUME NEW w \in Workers, SlipInv, Commit(w), NEW k \in Slips
    PROVE  SlipKept(k)'
<1>1. /\ HouseHeld /\ HouseTyped /\ QuoteDrafts /\ SlipRows /\ QuotesHeld
      /\ InsertsOK(w) /\ ExecutionOK(w) /\ SlipKept(k)
      /\ bets \in [BetIds -> RowOf(Bet)] /\ quotes \in [Slips -> RowOf(Quote)]
      /\ Len(quotes[k].now.items) \in Nat
  BY BetRows, Holding, QuoteRows DEF SlipInv, WorkerSlips
<1>2. /\ pc[w] = "commit" /\ bets' = Published(bets, w) /\ quotes' = Published(quotes, w)
  BY DEF Commit
<1>3. /\ \A b \in BetIds : bets[b].by = w => bets'[b].now = bets[b].new
      /\ \A b \in BetIds : bets[b].by # w => bets'[b].now = bets[b].now
      /\ \A c \in Slips : quotes[c].by = w => quotes'[c].now = quotes[c].new
      /\ \A c \in Slips : quotes[c].by # w => quotes'[c].now = quotes[c].now
  BY <1>1, <1>2 DEF Published, Fresh
<1>4. \A b \in BetIds : bets[b].now.status # "none" =>
          /\ bets'[b].now.status # "none" /\ bets'[b].now.ticket = bets[b].now.ticket
          /\ bets'[b].now.slip = bets[b].now.slip
  BY <1>1, <1>3 DEF SlipRows
<1>5. \A b \in Inserted(w) : /\ b \in BetIds /\ bets'[b].now = bets[b].new
                             /\ bets'[b].now.status # "none" /\ bets'[b].now.slip = SlipOf(w)
  BY <1>1, <1>3 DEF InsertsOK, Inserted
<1>6. \A b \in BetIds : bets[b].now.status = "none" /\ b \notin Inserted(w) =>
          bets'[b].now.status = "none"
  BY <1>3 DEF Inserted
<1>7. PlacedOf(k)' = PlacedOf(k) \cup {b \in Inserted(w) : SlipOf(w) = k}
  BY <1>4, <1>5, <1>6 DEF PlacedOf, Inserted
<1>8. \A b \in PlacedOf(k) : RowTickets'[b] = RowTickets[b]
  BY <1>4 DEF PlacedOf, RowTickets
<1> DEFINE items == quotes[k].now.items
<1>9. CASE SlipOf(w) # k
  <2>1. PlacedOf(k)' = PlacedOf(k)
    BY <1>7, <1>9
  <2>2. quotes'[k].now = quotes[k].now
    <3>1. quotes[k].by # w
      <4>1. quotes[k].by = w => Executing(w) /\ req[w].slip = k
        BY <1>1 DEF QuotesHeld
      <4> QED
        BY <1>9, <4>1 DEF Executing, SlipOf
    <3> QED
      BY <1>3, <3>1
  <2>3. Matched(items, Len(items), PlacedOf(k), RowTickets) =>
            Matched(items, Len(items), PlacedOf(k), RowTickets')
    <3>1. Len(items) \in Nat
      BY <1>1
    <3> HIDE DEF items
    <3> QED
      BY <1>8, <3>1, MatchedStays
  <2> QED
    BY <1>1, <2>1, <2>2, <2>3 DEF SlipKept
<1>10. CASE SlipOf(w) = k
  <2>1. Executing(w) /\ req[w].slip = k
    BY <1>2, <1>10, SlipsAssumption DEF SlipOf, Executing, PlaceAt
  <2>2. /\ quotes[k].by = w /\ quotes[k].now.status = "pending"
        /\ quotes[k].new.status = "executed" /\ quotes[k].new.items = items
        /\ Matched(items, Len(items), Inserted(w), DraftTickets)
    <3>1. PICK n \in 0 .. Len(items) :
              /\ Matched(items, n, Inserted(w), DraftTickets)
              /\ pc[w] = "commit" <=> n = Len(items)
              /\ quotes[k].new.status = IF n = Len(items) THEN "executed" ELSE "pending"
      BY <1>1, <2>1 DEF ExecutionOK
    <3>2. n = Len(items)
      BY <1>2, <3>1
    <3>3. quotes[k].by = w /\ quotes[k].now.status = "pending"
      BY <2>1, ExecutionHas
    <3> QED
      BY <1>1, <3>1, <3>2, <3>3 DEF QuoteDrafts
  <2>3. PlacedOf(k) = {}
    BY <1>1, <2>2 DEF SlipKept
  <2>4. PlacedOf(k)' = Inserted(w)
    BY <1>7, <1>10, <2>3
  <2>5. Matched(items, Len(items), Inserted(w), RowTickets')
    <3>1. \A b \in Inserted(w) : RowTickets'[b] = DraftTickets[b]
      BY <1>5 DEF RowTickets, DraftTickets
    <3>2. Len(items) \in Nat
      BY <1>1
    <3> HIDE DEF items
    <3> QED
      BY <2>2, <3>1, <3>2, MatchedStays
  <2>6. quotes'[k].now.status = "executed" /\ quotes'[k].now.items = items
    BY <1>3, <2>2
  <2> QED
    BY <2>4, <2>5, <2>6 DEF SlipKept
<1> QED
  BY <1>9, <1>10

LEMMA EndSlips ==
    ASSUME NEW w \in Workers, SlipInv, Rollback(w) \/ Commit(w)
    PROVE  /\ SlipRows' /\ QuotesHeld'
           /\ \A v \in Workers : WorkerSlips(v)'
           /\ \A k \in Slips : SlipKept(k)'
<1>1. /\ HouseHeld /\ HouseTyped /\ SlipRows /\ QuotesHeld
      /\ bets \in [BetIds -> RowOf(Bet)] /\ quotes \in [Slips -> RowOf(Quote)]
      /\ pc \in [Workers -> Statement]
  BY BetRows, Holding, QuoteRows DEF SlipInv
<1>2. /\ bets' \in {Published(bets, w), Discarded(bets, w)}
      /\ quotes' \in {Published(quotes, w), Discarded(quotes, w)}
      /\ EndRequest(w)
  BY DEF Rollback, Commit
<1>3. /\ pc'[w] = "idle" /\ req'[w] = NoRequest
      /\ \A v \in Workers \ {w} : pc'[v] = pc[v] /\ req'[v] = req[v] /\ tx'[v] = tx[v]
  BY <1>1, <1>2, Typed DEF EndRequest, Goto
<1>4. /\ \A b \in BetIds : bets'[b].by # w
      /\ \A b \in BetIds : \A v \in Workers \ {w} :
             /\ bets'[b].by = v <=> bets[b].by = v
             /\ bets[b].by = v => bets'[b] = bets[b]
      /\ \A b \in BetIds : bets[b].by # w => bets'[b] = bets[b]
      /\ bets' = Discarded(bets, w) => \A b \in BetIds : bets'[b].now = bets[b].now
  BY <1>1, <1>2, RowsEnd
<1>5. /\ \A k \in Slips : quotes'[k].by # w
      /\ \A k \in Slips : \A v \in Workers \ {w} :
             /\ quotes'[k].by = v <=> quotes[k].by = v
             /\ quotes[k].by = v => quotes'[k] = quotes[k]
      /\ \A k \in Slips : quotes[k].by # w => quotes'[k] = quotes[k]
      /\ quotes' = Discarded(quotes, w) => \A k \in Slips : quotes'[k].now = quotes[k].now
  BY <1>1, <1>2, RowsEnd
<1>6. \A b \in BetIds : bets[b].by = w =>
          bets'[b].new = bets'[b].now /\ bets'[b].now \in {bets[b].now, bets[b].new}
  BY <1>1, <1>2 DEF Published, Discarded, Fresh
<1>7. SlipRows'
  <2>1. ASSUME NEW b \in BetIds, bets[b].by = w
        PROVE  bets'[b].new = bets'[b].now
    BY <1>6, <2>1
  <2> QED
    BY <1>1, <1>4, <2>1 DEF SlipRows
<1>8. QuotesHeld'
  <2>1. \A k \in Slips : quotes[k].by = w => quotes'[k].new = quotes'[k].now
    BY <1>1, <1>2 DEF Published, Discarded, Fresh
  <2>2. \A k \in Slips : quotes'[k].by = Nobody => quotes'[k].new = quotes'[k].now
    BY <1>1, <1>5, <2>1 DEF QuotesHeld
  <2>3. ASSUME NEW k \in Slips, NEW v \in Workers, quotes'[k].by = v
        PROVE  Executing(v)' /\ req'[v].slip = k
    <3>1. v # w /\ quotes[k].by = v
      BY <1>5, <2>3
    <3>2. Executing(v) /\ req[v].slip = k
      BY <1>1, <3>1 DEF QuotesHeld
    <3> QED
      BY <1>3, <3>1, <3>2 DEF Executing
  <2> QED
    BY <2>2, <2>3 DEF QuotesHeld
<1>9. WorkerSlips(w)'
  BY <1>3, <1>4 DEF WorkerSlips, InsertsOK, Inserted, ExecutionOK, Executing, FoundOK, Looping,
     PlaceAt
<1>10. ASSUME NEW v \in Workers \ {w}
       PROVE  WorkerSlips(v)'
  <2>1. \A b \in BetIds : bets[b].now.status # "none" => bets'[b].now.status # "none"
    BY <1>1, <1>4, <1>6 DEF SlipRows
  <2>2. pc'[v] = pc[v] /\ req'[v] = req[v] /\ tx'[v] = tx[v] /\ WorkerSlips(v)
    BY <1>3 DEF SlipInv
  <2> QED
    BY <1>1, <1>4, <1>5, <2>1, <2>2, SameSlips
<1>11. ASSUME NEW k \in Slips
       PROVE  SlipKept(k)'
  <2>1. CASE Commit(w)
    BY <2>1, CommitShows
  <2>2. CASE Rollback(w)
    <3>1. /\ \A b \in BetIds : bets'[b].now = bets[b].now
          /\ quotes'[k].now = quotes[k].now
      BY <1>4, <1>5, <2>2 DEF Rollback
    <3> QED
      BY <3>1, SameSlip DEF SlipInv
  <2> QED
    BY <2>1, <2>2
<1> QED
  BY <1>7, <1>8, <1>9, <1>10, <1>11

----------------------------------------------------------------------------
(***************************************************************************)
(* Always.                                                                 *)
(***************************************************************************)

LEMMA SlipInit == Init => SlipInv
<1> SUFFICES ASSUME Init
             PROVE  SlipInv
  OBVIOUS
<1>1. HouseHeld
  BY HeldInit
<1>2. /\ \A b \in BetIds : /\ bets[b].by = Nobody /\ bets[b].new = bets[b].now
                           /\ bets[b].now.status = "none"
      /\ \A k \in Slips : /\ quotes[k].by = Nobody /\ quotes[k].new = quotes[k].now
                          /\ quotes[k].now.status = "none"
      /\ \A w \in Workers : pc[w] = "idle"
  BY DEF Init, Fresh
<1>3. QuoteDrafts /\ SlipRows
  BY <1>2 DEF QuoteDrafts, SlipRows
<1>4. QuotesHeld
  BY <1>2, NobodyAssumption DEF QuotesHeld
<1>5. \A w \in Workers : WorkerSlips(w)
  BY <1>2, NobodyAssumption DEF WorkerSlips, InsertsOK, Inserted, ExecutionOK, Executing,
     FoundOK, Looping, PlaceAt
<1>6. \A k \in Slips : SlipKept(k)
  BY <1>2 DEF SlipKept, PlacedOf
<1> QED
  BY <1>1, <1>3, <1>4, <1>5, <1>6 DEF SlipInv

LEMMA SlipNext == SlipInv /\ [Next]_vars => SlipInv'
<1> SUFFICES ASSUME SlipInv, [Next]_vars
             PROVE  SlipInv'
  OBVIOUS
<1>1. HouseTyped /\ HouseHeld' /\ QuoteDrafts'
  BY HeldNext, QuotesNext DEF SlipInv, HouseHeld
<1>2. ASSUME NEW w \in Workers, WorkerStep(w), ~Rollback(w)
      PROVE  SlipInv'
  BY <1>1, <1>2, SlipSteps DEF SlipInv
<1>3. ASSUME NEW w \in Workers, Rollback(w) \/ Commit(w)
      PROVE  SlipInv'
  BY <1>1, <1>3, EndSlips DEF SlipInv
<1>4. CASE ClockTick \/ UNCHANGED vars \/ \E m \in Markets : CloseMarket(m)
  <2>1. UNCHANGED <<bets, quotes, pc, req, tx>>
    BY <1>4, TicksKeep DEF tables, CloseMarket
  <2>2. SlipRows' /\ QuotesHeld'
    BY <2>1 DEF SlipInv, SlipRows, QuotesHeld, Executing
  <2>3. ASSUME NEW w \in Workers
        PROVE  WorkerSlips(w)'
    BY <2>1, SameSlips DEF SlipInv
  <2>4. \A k \in Slips : SlipKept(k)'
    BY <2>1, SameSlip DEF SlipInv
  <2> QED
    BY <1>1, <2>2, <2>3, <2>4 DEF SlipInv
<1> QED
  BY <1>1, <1>2, <1>3, <1>4, StepKinds

\* A betslip is placed as a whole, once, or not at all, whatever fails on the way and
\* whoever else executes it: its committed bets are those that the quote asks for, ticket
\* by ticket, when the quote is executed, and none before.
THEOREM SlipsArePlacedWhole == Spec => []SlipsAllOrNothing
<1>1. SlipInv => SlipsAllOrNothing
  BY Holding, KeptSlips DEF SlipInv, HouseHeld
<1> QED
  BY <1>1, SlipInit, SlipNext, PTL DEF Spec

----------------------------------------------------------------------------
(***************************************************************************)
(* With one worker, a market that is settled or cancelled leaves no bet    *)
(* open: the market's last statement to load bets has loaded them all, and *)
(* whoever inserts one has looked at the market before.                    *)
(***************************************************************************)

\* A market that has ended.
Final(market) == market.status \in {"settled", "cancelled"}

\* The bets on m that w has yet to decide.
ToDecide(w, m) == IF Looping(w) /\ req[w].market = m THEN Pending(w) ELSE {}

\* Nobody is about to end a market by hand.
Mild ==
    /\ \A r \in todo : r.op = "patch" => r.status \notin {"settled", "cancelled"}
    /\ \A w \in Workers : req[w].op = "patch" => req[w].status \notin {"settled", "cancelled"}

NoneOpen(m) ==
    Mechanism(m) = "fixed_odds" /\ Final(markets[m].now) => OpenBets(CommittedBets, m) = {}

\* Of a market that has ended, as w sees it, the open bets are those it has yet to decide.
DecidesAll(w) ==
    \A m \in Markets :
        Mechanism(m) = "fixed_odds" /\ Final(Seen(markets[m], w)) =>
            OpenBets(BetsSeen(w), m) \subseteq ToDecide(w, m)

\* The market that w bets on has not ended since w looked at it.
BetsInTime(w) ==
    pc[w] \in {"risk", "debit", "insert"} => ~Final(markets[Head(tx[w].items).market].now)

OpenInv ==
    /\ MarketsHeld /\ IsFiniteSet(load.crew)
    /\ Alone => /\ BetInv /\ Mild
                /\ \A m \in Markets : NoneOpen(m)
                /\ \A w \in Workers : DecidesAll(w) /\ BetsInTime(w)

----------------------------------------------------------------------------
(***************************************************************************)
(* What a statement does to the bets and the markets that its worker sees. *)
(***************************************************************************)

\* Only a placement opens bets.
LEMMA StatementsClose ==
    ASSUME NEW w \in Workers, HouseHeld, CleanBets, WorkerStep(w), ~Rollback(w),
           ~InsertBet(w), NEW b \in BetIds
    PROVE  \/ Seen(bets[b], w)' = Seen(bets[b], w)
           \/ Seen(bets[b], w)'.status \in {"settled_win", "settled_loss", "voided"}
<1>1. /\ bets \in [BetIds -> RowOf(Bet)] /\ tx[w] \in Tx
      /\ pc[w] \in {"bet", "refund", "touch", "cashout", "payout", "unbet"} =>
             tx[w].bet \in BetIds
      /\ pc[w] \in {"refund", "touch", "cashout"} => bets[tx[w].bet].by = w
  BY BetRows DEF LocksOK
<1>2. CASE bets' = bets
  BY <1>2 DEF Seen
<1>3. CASE LockBet(w)
  <2>1. Free(bets[tx[w].bet], w) /\ bets' = [bets EXCEPT ![tx[w].bet] = Locked(@, w)]
    BY <1>3 DEF LockBet
  <2> QED
    BY <1>1, <2>1 DEF CleanBets, Seen, Locked, Free, RowOf
<1>4. CASE RefundStake(w) \/ CashOut(w)
  <2>1. /\ pc[w] \in {"refund", "cashout"}
        /\ bets' = [bets EXCEPT ![tx[w].bet].new.status = "voided"]
    BY <1>4, Zenon DEF RefundStake, CashOut
  <2>2. bets[tx[w].bet].by = w
    BY <1>1, <2>1
  <2> QED
    BY <1>1, <2>1, <2>2 DEF Seen, RowOf, Bet
<1>5. ASSUME NEW c \in BetIds, NEW status \in {"settled_win", "settled_loss", "voided"},
             bets' = [bets EXCEPT ![c] = Written(@, w, [@.now EXCEPT !.status = status])]
      PROVE  \/ Seen(bets[b], w)' = Seen(bets[b], w)
             \/ Seen(bets[b], w)'.status \in {"settled_win", "settled_loss", "voided"}
  <2>1. bets[c].now \in Bet
    BY <1>1 DEF RowOf
  <2>2. PICK value : value = [bets[c].now EXCEPT !.status = status]
    OBVIOUS
  <2>3. value.status = status
    BY <2>1, <2>2 DEF Bet
  <2>4. bets' = [bets EXCEPT ![c] = Written(@, w, value)]
    BY <1>5, <2>2
  <2> QED
    BY <1>1, <2>3, <2>4 DEF Seen, Written, RowOf
<1>6. CASE Result(w)
  <2>1. PICK c \in tx[w].batch : \E status \in {"settled_win", "settled_loss"} :
            bets' = [bets EXCEPT ![c] = Written(@, w, [@.now EXCEPT !.status = status])]
    BY <1>6 DEF Result
  <2>2. Looping(w)
    BY <1>6, BetRows DEF Result, Looping, BatchOK
  <2>3. c \in BetIds
    BY <2>2, LoopRows DEF Pending
  <2> QED
    BY <1>5, <2>1, <2>3
<1>7. CASE VoidBet(w)
  <2>1. /\ tx[w].bet \in BetIds
        /\ bets' = [bets EXCEPT ![tx[w].bet] =
                        Written(@, w, [@.now EXCEPT !.status = "voided"])]
    BY <1>1, <1>7 DEF VoidBet
  <2> QED
    BY <1>5, <2>1, Zenon
<1>8. \/ bets' = bets
      \/ LockBet(w) \/ RefundStake(w) \/ CashOut(w) \/ Result(w) \/ VoidBet(w)
  <2>1. CASE ~WritesBets(w)
    BY <2>1, BetLinesKept
  <2>2. CASE DebitStake(w) \/ PayWinner(w) \/ CreditBet(w)
    BY <2>2, Zenon DEF DebitStake, PayWinner, CreditBet
  <2> QED
    BY <2>1, <2>2 DEF WritesBets
<1> QED
  BY <1>2, <1>3, <1>4, <1>6, <1>7, <1>8

LEMMA OpenFall ==
    ASSUME NEW w \in Workers, HouseHeld, CleanBets, WorkerStep(w), ~Rollback(w),
           ~InsertBet(w), NEW m
    PROVE  OpenBets(BetsSeen(w), m)' \subseteq OpenBets(BetsSeen(w), m)
<1>1. \A b \in BetIds : \/ Seen(bets[b], w)' = Seen(bets[b], w)
                        \/ Seen(bets[b], w)'.status # "open"
  BY StatementsClose
<1> QED
  BY <1>1 DEF OpenBets, BetsSeen

\* Markets at fixed odds end by these statements only.
LEMMA StatusStays ==
    ASSUME NEW w \in Workers, MarketsHeld, WorkerStep(w), ~Rollback(w),
           ~Decide(w), ~LockToCancel(w), ~WritePatch(w),
           NEW m \in Markets, Mechanism(m) = "fixed_odds"
    PROVE  Seen(markets[m], w)'.status = Seen(markets[m], w).status
<1>1. /\ markets \in [Markets -> RowOf(Market)] /\ HouseHeld /\ LocksOK(w)
      /\ Clean /\ MarketsOK(w)
  BY BetRows DEF MarketsHeld
<1>2. CASE markets' = markets
  BY <1>2 DEF Seen
<1>3. CASE TouchMarket(w) \/ Price(w)
  <2>1. \E k : Free(markets[k], w) /\ markets' = [markets EXCEPT ![k] = Locked(@, w)]
    BY <1>3, Zenon DEF TouchMarket, Price, FreeForUpdate
  <2> QED
    BY <1>1, <2>1 DEF Clean, Seen, Locked, Free, RowOf
<1>4. CASE AddToPool(w)
  <2>1. PICK old \in Market : old = markets[m].now
    BY <1>1 DEF RowOf
  <2>6. PICK value : value = [old EXCEPT !.pool[req[w].side] = @ + req[w].amount]
    OBVIOUS
  <2>2. value.status = old.status
    BY <2>6 DEF Market
  <2>3. CASE req[w].market = m
    <3>1. pc[w] = "pool" /\ markets' = [markets EXCEPT ![m] = Written(@, w, value)]
      BY <1>4, <2>1, <2>3, <2>6 DEF AddToPool
    <3>2. markets[m].by # w
      BY <1>1, <3>1 DEF MarketsOK, MarketAt
    <3> QED
      BY <1>1, <2>1, <2>2, <3>1, <3>2 DEF Seen, Written, RowOf
  <2>4. CASE req[w].market # m
    BY <1>1, <1>4, <2>4, Zenon DEF AddToPool, Seen
  <2> QED
    BY <2>3, <2>4
<1>5. CASE PayTrade(w)
  <2>1. CASE req[w].market = m
    <3>1. pc[w] = "pay" /\ markets[m].by = w
      BY <1>1, <1>5, <2>1 DEF PayTrade, LocksOK
    <3>2. PICK old \in Market : old = markets[m].new
      BY <1>1 DEF RowOf
    <3>3. PICK value : value = [old EXCEPT !.shares = Bought(req[w], @),
                                           !.held[req[w].user][req[w].side] = @ + req[w].amount,
                                           !.costs[req[w].user] = @ + tx[w].due,
                                           !.trades = @ + 1]
      OBVIOUS
    <3>4. value.status = old.status
      BY <3>3 DEF Market
    <3>5. markets' = [markets EXCEPT ![m].new = value]
      BY <1>5, <2>1, <3>2, <3>3 DEF PayTrade
    <3> QED
      BY <1>1, <3>1, <3>2, <3>4, <3>5 DEF Seen, RowOf
  <2>2. CASE req[w].market # m
    BY <1>1, <1>5, <2>2, Zenon DEF PayTrade, Seen
  <2> QED
    BY <2>1, <2>2
<1>6. CASE FinishSettle(w)
  <2>1. markets' = markets \/ req[w].market # m
    BY <1>6 DEF FinishSettle
  <2> QED
    BY <1>1, <1>6, <2>1 DEF FinishSettle, Seen
<1>7. \/ markets' = markets
      \/ TouchMarket(w) \/ Price(w) \/ AddToPool(w) \/ PayTrade(w) \/ FinishSettle(w)
  <2>1. CASE FixedOddsStep(w)
    BY <2>1 DEF FixedOddsStep, StartPlace, StartExecute, Claim, Look, Assess, DebitStake,
       InsertBet, StartQuote, Register, StartLeave, LockBet, RefundStake, CashOut, tables
  <2>2. CASE PoolStep(w)
    BY <2>2 DEF PoolStep, StartStake, BankStake, StartTrade, tables
  <2>3. CASE FinalStep(w)
    BY <2>3, Zenon DEF FinalStep, StartSettle, Result, PayWinner, Divide, PayShare, StartAnnul,
       CreditBet, VoidBet, CreditPool, FinishCancel, Patch, StartReview, Approve, GrantFunds,
       Reject, tables
  <2> QED
    BY <2>1, <2>2, <2>3 DEF WorkerStep
<1> QED
  BY <1>2, <1>3, <1>4, <1>5, <1>6, <1>7

\* A statement that ends a loop has nothing left to do.
LEMMA LoopEnds ==
    ASSUME NEW w \in Workers, HouseHeld, WorkerStep(w), ~Rollback(w), Looping(w),
           ~Result(w), ~PayWinner(w), ~CreditBet(w), ~VoidBet(w)
    PROVE  Pending(w) = {}
<1>1. pc[w] \in {"result", "payout", "credit", "unbet"} /\ Mechanism(req[w].market) = "fixed_odds"
  BY DEF Looping
<1>2. FinishSettle(w) \/ FinishCancel(w)
  <2>1. CASE FixedOddsStep(w)
    BY <1>1, <2>1 DEF FixedOddsStep, StartPlace, StartExecute, Claim, Look, Assess, DebitStake,
       InsertBet, StartQuote, Register, StartLeave, LockBet, RefundStake, TouchMarket, CashOut,
       Accept
  <2>2. CASE PoolStep(w)
    BY <1>1, <2>2 DEF PoolStep, StartStake, BankStake, AddToPool, StartTrade, Price, PayTrade,
       Accept
  <2>3. CASE FinalStep(w)
    BY <1>1, <2>3, Zenon DEF FinalStep, StartSettle, Decide, Divide, PayShare, StartAnnul,
       LockToCancel, CreditPool, Patch, WritePatch, StartReview, Approve, GrantFunds, Reject,
       Accept
  <2> QED
    BY <2>1, <2>2, <2>3 DEF WorkerStep
<1>3. tx[w].batch = {} /\ pc[w] # "unbet"
  BY <1>2 DEF FinishSettle, FinishCancel
<1> QED
  BY <1>3 DEF Pending

\* Who bets on a market has looked at it.
LEMMA BetsFollowLooks ==
    ASSUME NEW w \in Workers, HouseHeld, WorkerStep(w), ~Rollback(w),
           pc'[w] \in {"risk", "debit", "insert"}
    PROVE  Look(w) \/ Assess(w) \/ DebitStake(w)
<1> DEFINE Others == Statement \ {"risk", "debit", "insert"}
<1>1. pc \in [Workers -> Statement]
  BY BetRows
<1>2. ~\E s \in Others : Goto(w, s)
  BY <1>1 DEF Goto
<1>3. CASE FixedOddsStep(w)
  BY <1>2, <1>3 DEF FixedOddsStep, StartPlace, StartExecute, Claim, InsertBet, StartQuote,
     Register, StartLeave, LockBet, RefundStake, TouchMarket, CashOut, EndRequest, Statement
<1>4. CASE PoolStep(w)
  BY <1>2, <1>4, Zenon DEF PoolStep, StartStake, BankStake, AddToPool, StartTrade, Price, PayTrade,
     Statement
<1>5. CASE FinalStep(w)
  <2>1. CASE PayShare(w)
    BY <2>1 DEF PayShare
  <2>2. CASE CreditPool(w)
    BY <2>2 DEF CreditPool
  <2>3. CASE ~PayShare(w) /\ ~CreditPool(w)
    BY <1>2, <1>5, <2>3, Zenon DEF FinalStep, StartSettle, Decide, Result, PayWinner, Divide,
       FinishSettle, StartAnnul, LockToCancel, CreditBet, VoidBet, FinishCancel,
       Patch, WritePatch, StartReview, Approve, GrantFunds, Reject, Statement
  <2> QED
    BY <2>1, <2>2, <2>3
<1> QED
  BY <1>3, <1>4, <1>5 DEF WorkerStep

----------------------------------------------------------------------------
(***************************************************************************)
(* What others decide.                                                     *)
(***************************************************************************)

\* A step after which v sees the same bets, and no more markets that have ended.
LEMMA OthersDecide ==
    ASSUME NEW v \in Workers, HouseHeld, DecidesAll(v), BetsInTime(v),
           pc'[v] = pc[v], req'[v] = req[v], tx'[v] = tx[v],
           \A b \in BetIds : Seen(bets[b], v)' = Seen(bets[b], v),
           \A m \in Markets : /\ Final(Seen(markets[m], v))' => Final(Seen(markets[m], v))
                              /\ Final(markets[m].now)' => Final(markets[m].now)
    PROVE  DecidesAll(v)' /\ BetsInTime(v)'
<1>1. DecidesAll(v)'
  <2>1. \A m \in Markets : OpenBets(BetsSeen(v), m)' = OpenBets(BetsSeen(v), m)
    BY DEF OpenBets, BetsSeen
  <2>2. \A m \in Markets : ToDecide(v, m)' = ToDecide(v, m)
    BY DEF ToDecide, Looping, Pending
  <2> QED
    BY <2>1, <2>2 DEF DecidesAll
<1>2. BetsInTime(v)'
  <2>1. CASE pc[v] \in {"risk", "debit", "insert"}
    <3>1. tx[v].items \in Seq(Ticket) /\ tx[v].items # <<>>
      BY <2>1, Holding, Typed DEF ServingOK, Tx
    <3>2. Head(tx[v].items).market \in Markets
      BY <3>1, HeadAndTail, TicketForm
    <3> QED
      BY <3>2 DEF BetsInTime
  <2>2. CASE pc[v] \notin {"risk", "debit", "insert"}
    BY <2>2 DEF BetsInTime
  <2> QED
    BY <2>1, <2>2
<1> QED
  BY <1>1, <1>2

\* A worker that holds nothing sees what is committed.
LEMMA IdleDecides ==
    ASSUME NEW v \in Workers, pc[v] = "idle", \A m \in Markets : NoneOpen(m),
           \A b \in BetIds : bets[b].by # v, \A m \in Markets : markets[m].by # v
    PROVE  DecidesAll(v) /\ BetsInTime(v)
<1>1. \A m \in Markets : OpenBets(BetsSeen(v), m) = OpenBets(CommittedBets, m)
  BY DEF OpenBets, BetsSeen, CommittedBets, Seen
<1>2. \A m \in Markets : Seen(markets[m], v) = markets[m].now
  BY DEF Seen
<1> QED
  BY <1>1, <1>2 DEF DecidesAll, NoneOpen, BetsInTime

----------------------------------------------------------------------------
(***************************************************************************)
(* What a statement of w does to w's own part.                             *)
(***************************************************************************)

LEMMA BetsStayInTime ==
    ASSUME NEW w \in Workers, MarketsHeld, BetsInTime(w), WorkerStep(w), ~Rollback(w)
    PROVE  BetsInTime(w)'
<1> SUFFICES ASSUME pc'[w] \in {"risk", "debit", "insert"}
             PROVE  ~Final(markets'[Head(tx'[w].items).market].now)
  BY DEF BetsInTime
<1>1. HouseHeld /\ MarketsOK(w)
  BY DEF MarketsHeld
<1>2. Look(w) \/ Assess(w) \/ DebitStake(w)
  BY <1>1, BetsFollowLooks
<1>3. /\ tx' = tx /\ markets' = markets
      /\ pc[w] \in {"look", "risk", "debit"}
      /\ Look(w) => TakesBets(Head(tx[w].items).market, w)
      /\ ~Look(w) => pc[w] \in {"risk", "debit"}
  BY <1>2, Zenon DEF Look, Assess, DebitStake, tables
<1>4. tx[w].items \in Seq(Ticket) /\ tx[w].items # <<>>
  BY <1>1, <1>3, Holding, Typed DEF ServingOK, Tx
<1>5. Head(tx[w].items).market \in Markets
  BY <1>4, HeadAndTail, TicketForm
<1>6. markets[Head(tx[w].items).market].by # w
  BY <1>1, <1>3, <1>5 DEF MarketsOK, MarketAt
<1>7. CASE Look(w)
  BY <1>3, <1>6, <1>7 DEF TakesBets, Seen, Final
<1>8. CASE ~Look(w)
  BY <1>3, <1>8 DEF BetsInTime
<1> QED
  BY <1>7, <1>8

\* The markets a placement may not be about.
LEMMA InsertBetDecides ==
    ASSUME NEW w \in Workers, MarketsHeld, DecidesAll(w), BetsInTime(w), InsertBet(w)
    PROVE  DecidesAll(w)'
<1>1. /\ HouseHeld /\ MarketsOK(w) /\ bets \in [BetIds -> RowOf(Bet)]
      /\ pc[w] = "insert" /\ markets' = markets
  BY BetRows DEF MarketsHeld, InsertBet
<1>2. PICK t \in Ticket : t = Head(tx[w].items)
  <2>1. tx[w].items \in Seq(Ticket) /\ tx[w].items # <<>>
    BY <1>1, Holding, Typed DEF ServingOK, Tx
  <2> QED
    BY <2>1, HeadAndTail
<1>3. PICK b \in BetIds : \E slip : bets' =
          [bets EXCEPT ![b] = Written(@, w, [ticket |-> t, slip |-> slip, status |-> "open"])]
  BY <1>2, Zenon DEF InsertBet, FreeBets
<1>4. bets'[b].new.ticket = t /\ bets'[b].by = w /\ \A c \in BetIds \ {b} : bets'[c] = bets[c]
  BY <1>1, <1>3 DEF Written, RowOf
<1>5. t.market \in Markets /\ ~Final(markets[t.market].now)
  BY <1>1, <1>2, TicketForm DEF BetsInTime
<1>6. ~Final(Seen(markets[t.market], w))
  BY <1>1, <1>5 DEF MarketsOK, MarketAt, Seen
<1>7. ~Looping(w)
  BY <1>1 DEF Looping
<1> SUFFICES ASSUME NEW m \in Markets, Mechanism(m) = "fixed_odds",
                    Final(Seen(markets[m], w))'
             PROVE  OpenBets(BetsSeen(w), m)' \subseteq ToDecide(w, m)'
  BY DEF DecidesAll
<1>8. Final(Seen(markets[m], w)) /\ m # t.market
  BY <1>1, <1>6 DEF Seen
<1>9. OpenBets(BetsSeen(w), m) = {}
  BY <1>7, <1>8 DEF DecidesAll, ToDecide
<1>10. OpenBets(BetsSeen(w), m)' \subseteq OpenBets(BetsSeen(w), m)
  BY <1>4, <1>8 DEF OpenBets, BetsSeen, Seen
<1> QED
  BY <1>9, <1>10

\* A market ends as its open bets are loaded.
LEMMA EndingDecides ==
    ASSUME NEW w \in Workers, MarketsHeld, DecidesAll(w), Decide(w) \/ LockToCancel(w),
           ~Rollback(w)
    PROVE  DecidesAll(w)'
<1>1. /\ HouseHeld /\ markets \in [Markets -> RowOf(Market)] /\ pc \in [Workers -> Statement]
      /\ tx \in [Workers -> Tx] /\ req[w].op \in OpsAt(pc[w]) /\ BatchOK(w)
      /\ req[w] \in Request \cup {NoRequest}
  BY BetRows DEF MarketsHeld
<1>2. PICK m : m = req[w].market
  OBVIOUS
<1>3. /\ pc[w] \in {"decide", "annul"} /\ bets' = bets /\ req' = req
      /\ \E value : markets' = [markets EXCEPT ![m] = Written(@, w, value)]
  BY <1>2, Zenon DEF Decide, LockToCancel
<1>4. m \in Markets
  BY <1>1, <1>2, <1>3, RequestForms DEF OpsAt
<1>5. Mechanism(m) = "fixed_odds" =>
          /\ tx'[w].batch = OpenBets(BetsSeen(w), m)
          /\ pc'[w] \in {"result", "credit"}
  BY <1>1, <1>2 DEF Decide, LockToCancel, ToRefund, Goto, Tx
<1>6. ~Looping(w)
  BY <1>3 DEF Looping
<1> SUFFICES ASSUME NEW k \in Markets, Mechanism(k) = "fixed_odds",
                    Final(Seen(markets[k], w))'
             PROVE  OpenBets(BetsSeen(w), k)' \subseteq ToDecide(w, k)'
  BY DEF DecidesAll
<1>7. OpenBets(BetsSeen(w), k)' = OpenBets(BetsSeen(w), k)
  BY <1>3 DEF OpenBets, BetsSeen
<1>8. CASE k = m
  <2>1. Looping(w)' /\ req'[w].market = k
    BY <1>2, <1>3, <1>5, <1>8 DEF Looping
  <2>2. OpenBets(BetsSeen(w), m) \subseteq Pending(w)'
    BY <1>5, <1>8 DEF Pending
  <2> QED
    BY <1>7, <1>8, <2>1, <2>2 DEF ToDecide
<1>9. CASE k # m
  <2>1. Final(Seen(markets[k], w))
    BY <1>1, <1>3, <1>9 DEF Seen
  <2> QED
    BY <1>6, <1>7, <2>1 DEF DecidesAll, ToDecide
<1> QED
  BY <1>8, <1>9

\* A loop goes on: each bet that it is done with is no longer open.
LEMMA LoopDecides ==
    ASSUME NEW w \in Workers, MarketsHeld, CleanBets, DecidesAll(w), ~Rollback(w),
           Result(w) \/ PayWinner(w) \/ CreditBet(w) \/ VoidBet(w), BetsHeld(w)
    PROVE  DecidesAll(w)'
<1>1. /\ HouseHeld /\ bets \in [BetIds -> RowOf(Bet)] /\ pc \in [Workers -> Statement]
      /\ tx \in [Workers -> Tx] /\ BatchOK(w) /\ LoopOK(w)
      /\ pc[w] \in {"payout", "unbet"} => tx[w].bet \in BetIds
  BY BetRows DEF MarketsHeld, BetsHeld
<1>2. /\ markets' = markets /\ req' = req
      /\ pc[w] \in {"result", "payout", "credit", "unbet"}
      /\ pc'[w] \in {"result", "payout", "credit", "unbet"}
  BY <1>1 DEF Result, PayWinner, CreditBet, VoidBet, Goto
<1>3. Looping(w) /\ Looping(w)'
  <2>1. Mechanism(req[w].market) = "fixed_odds"
    BY <1>1, <1>2, Zenon DEF BatchOK, CreditBet, Result, PayWinner, VoidBet, LoopOK, Looping
  <2> QED
    BY <1>2, <2>1 DEF Looping
<1>4. WorkerStep(w) /\ ~InsertBet(w)
  BY <1>2 DEF WorkerStep, FinalStep, InsertBet
<1>5. \A m \in Markets : OpenBets(BetsSeen(w), m)' \subseteq OpenBets(BetsSeen(w), m)
  BY <1>1, <1>4, OpenFall
<1>6. ASSUME NEW b \in Pending(w), b \notin Pending(w)'
      PROVE  b \in BetIds /\ Seen(bets[b], w)'.status # "open"
  <2>1. b \in BetIds /\ bets[b].now \in Bet
    BY <1>1, <1>3, LoopRows DEF RowOf
  <2>2. CASE Result(w)
    <3>1. PICK c \in tx[w].batch : \E status \in {"settled_win", "settled_loss"} :
              /\ bets' = [bets EXCEPT ![c] = Written(@, w, [@.now EXCEPT !.status = status])]
              /\ tx' = [tx EXCEPT ![w].batch = @ \ {c}, ![w].bet = c]
      BY <2>2 DEF Result
    <3>2. tx'[w].batch = tx[w].batch \ {c}
      BY <1>1, <3>1 DEF Tx
    <3>7. pc[w] # "unbet"
      BY <2>2 DEF Result
    <3>3. b = c
      BY <1>6, <3>2, <3>7 DEF Pending
    <3>4. PICK status \in {"settled_win", "settled_loss"} :
              bets' = [bets EXCEPT ![b] = Written(@, w, [@.now EXCEPT !.status = status])]
      BY <3>1, <3>3
    <3>5. PICK value : value = [bets[b].now EXCEPT !.status = status]
      OBVIOUS
    <3>6. value.status = status /\ bets' = [bets EXCEPT ![b] = Written(@, w, value)]
      BY <2>1, <3>4, <3>5 DEF Bet
    <3> QED
      BY <1>1, <2>1, <3>6 DEF Seen, Written, RowOf
  <2>3. CASE PayWinner(w)
    BY <1>1, <1>6, <2>3, Zenon DEF PayWinner, Pending, Goto
  <2>4. CASE CreditBet(w)
    <3>1. PICK c \in tx[w].batch : tx' = [tx EXCEPT ![w].batch = @ \ {c}, ![w].bet = c]
      BY <2>4 DEF CreditBet
    <3>2. tx'[w].batch = tx[w].batch \ {c} /\ tx'[w].bet = c
      BY <1>1, <3>1 DEF Tx
    <3>3. pc[w] = "credit" /\ pc'[w] = "unbet"
      BY <1>1, <2>4, Zenon DEF CreditBet, Goto
    <3> QED
      BY <1>6, <3>2, <3>3 DEF Pending
  <2>5. CASE VoidBet(w)
    <3>1. /\ pc[w] = "unbet" /\ tx' = tx
          /\ bets' = [bets EXCEPT ![tx[w].bet] =
                          Written(@, w, [@.now EXCEPT !.status = "voided"])]
      BY <2>5 DEF VoidBet
    <3>2. b = tx[w].bet
      BY <1>6, <3>1 DEF Pending
    <3>3. PICK value : value = [bets[b].now EXCEPT !.status = "voided"]
      OBVIOUS
    <3>4. value.status = "voided" /\ bets' = [bets EXCEPT ![b] = Written(@, w, value)]
      BY <2>1, <3>1, <3>2, <3>3 DEF Bet
    <3> QED
      BY <1>1, <2>1, <3>4 DEF Seen, Written, RowOf
  <2> QED
    BY <2>2, <2>3, <2>4, <2>5
<1> SUFFICES ASSUME NEW m \in Markets, Mechanism(m) = "fixed_odds",
                    Final(Seen(markets[m], w))'
             PROVE  OpenBets(BetsSeen(w), m)' \subseteq ToDecide(w, m)'
  BY DEF DecidesAll
<1>7. OpenBets(BetsSeen(w), m)' \subseteq ToDecide(w, m)
  BY <1>2, <1>5 DEF DecidesAll, Seen
<1>8. CASE req[w].market = m
  <2>1. ToDecide(w, m) = Pending(w)
    BY <1>3, <1>8 DEF ToDecide
  <2>2. ToDecide(w, m)' = Pending(w)'
    BY <1>2, <1>3, <1>8 DEF ToDecide
  <2>3. \A b \in OpenBets(BetsSeen(w), m)' : Seen(bets[b], w)'.status = "open"
    BY DEF OpenBets, BetsSeen
  <2> QED
    BY <1>6, <1>7, <2>1, <2>2, <2>3
<1>9. CASE req[w].market # m
  BY <1>7, <1>9 DEF ToDecide
<1> QED
  BY <1>8, <1>9

\* An admin who sets no status of an end ends no market.
LEMMA PatchDecides ==
    ASSUME NEW w \in Workers, MarketsHeld, Mild, DecidesAll(w), WritePatch(w)
    PROVE  DecidesAll(w)'
<1>1. /\ HouseHeld /\ markets \in [Markets -> RowOf(Market)] /\ req[w].op \in OpsAt(pc[w])
      /\ req[w] \in Request \cup {NoRequest}
  BY BetRows DEF MarketsHeld
<1>2. pc[w] = "patch" /\ bets' = bets /\ req[w].op = "patch"
  BY <1>1 DEF WritePatch, OpsAt
<1>3. req[w].market \in Markets /\ req[w].status \in {"draft", "open", "closed"}
  <2>1. req[w].market \in Markets /\ req[w].status \in MarketStatus
    BY <1>1, <1>2 DEF Request, NoRequest
  <2> QED
    BY <1>2, <2>1 DEF Mild, MarketStatus
<1>4. PICK old \in Market : old = markets[req[w].market].now
  BY <1>1, <1>3 DEF RowOf
<1>5. PICK value : value = [old EXCEPT !.status = req[w].status]
  OBVIOUS
<1>6. value.status = req[w].status
  BY <1>5 DEF Market
<1>7. markets' = [markets EXCEPT ![req[w].market] = Written(@, w, value)]
  BY <1>4, <1>5 DEF WritePatch
<1>8. ~Final(Seen(markets[req[w].market], w))'
  <2>1. markets'[req[w].market].by = w /\ markets'[req[w].market].new = value
    BY <1>1, <1>3, <1>7 DEF Written, RowOf
  <2>2. req' = req
    BY DEF WritePatch
  <2> QED
    BY <1>3, <1>6, <2>1, <2>2 DEF Seen, Final
<1>9. \A m \in Markets : m # req[w].market => Seen(markets[m], w)' = Seen(markets[m], w)
  BY <1>1, <1>7 DEF Seen
<1>10. \A m \in Markets : OpenBets(BetsSeen(w), m)' = OpenBets(BetsSeen(w), m)
  BY <1>2 DEF OpenBets, BetsSeen
<1>11. \A m \in Markets : ToDecide(w, m) = {}
  BY <1>2 DEF ToDecide, Looping
<1>12. req' = req
  BY DEF WritePatch
<1> SUFFICES ASSUME NEW m \in Markets, Mechanism(m) = "fixed_odds",
                    Final(Seen(markets[m], w))'
             PROVE  OpenBets(BetsSeen(w), m)' \subseteq ToDecide(w, m)'
  BY DEF DecidesAll
<1>13. m # req[w].market
  BY <1>8, <1>12
<1>14. OpenBets(BetsSeen(w), m) = {}
  BY <1>9, <1>11, <1>13 DEF DecidesAll
<1> QED
  BY <1>10, <1>14

LEMMA StatementDecides ==
    ASSUME NEW w \in Workers, MarketsHeld, CleanBets, Mild, BetsHeld(w), DecidesAll(w),
           BetsInTime(w), WorkerStep(w), ~Rollback(w)
    PROVE  DecidesAll(w)'
<1>1. HouseHeld
  BY DEF MarketsHeld
<1>2. CASE InsertBet(w)
  BY <1>2, InsertBetDecides
<1>3. CASE Decide(w) \/ LockToCancel(w)
  BY <1>3, EndingDecides
<1>4. CASE Result(w) \/ PayWinner(w) \/ CreditBet(w) \/ VoidBet(w)
  BY <1>4, LoopDecides
<1>5. CASE WritePatch(w)
  BY <1>5, PatchDecides
<1>6. CASE /\ ~InsertBet(w) /\ ~Decide(w) /\ ~LockToCancel(w) /\ ~WritePatch(w)
           /\ ~Result(w) /\ ~PayWinner(w) /\ ~CreditBet(w) /\ ~VoidBet(w)
  <2>1. Looping(w) => Pending(w) = {}
    BY <1>1, <1>6, LoopEnds
  <2> SUFFICES ASSUME NEW m \in Markets, Mechanism(m) = "fixed_odds",
                      Final(Seen(markets[m], w))'
               PROVE  OpenBets(BetsSeen(w), m)' \subseteq ToDecide(w, m)'
    BY DEF DecidesAll
  <2>2. Seen(markets[m], w)'.status = Seen(markets[m], w).status
    BY <1>6, StatusStays
  <2>3. OpenBets(BetsSeen(w), m) = {}
    BY <2>1, <2>2 DEF Final, DecidesAll, ToDecide
  <2>4. OpenBets(BetsSeen(w), m)' \subseteq OpenBets(BetsSeen(w), m)
    BY <1>1, <1>6, OpenFall
  <2> QED
    BY <2>3, <2>4
<1> QED
  BY <1>2, <1>3, <1>4, <1>5, <1>6

----------------------------------------------------------------------------
(***************************************************************************)
(* Steps of every kind.                                                    *)
(***************************************************************************)

LEMMA MildNext ==
    ASSUME HouseTyped, Mild, [Next]_vars
    PROVE  Mild'
<1>1. req \in [Workers -> Request \cup {NoRequest}]
  BY DEF HouseTyped, TypeOK
<1>2. ASSUME NEW w \in Workers, WorkerStep(w) \/ Rollback(w) \/ Commit(w)
      PROVE  Mild'
  <2>1. RequestMoves(w)
    BY <1>2, RequestsArrive
  <2>2. /\ \A r \in todo' : r \in todo
        /\ \A v \in Workers : req'[v] = req[v] \/ req'[v] \in todo \/ req'[v] = NoRequest
    BY <1>1, <2>1 DEF RequestMoves, Accept, EndRequest
  <2>3. NoRequest.op = "none"
    BY DEF NoRequest
  <2> QED
    BY <2>2, <2>3 DEF Mild
<1>3. CASE ClockTick \/ UNCHANGED vars \/ \E m \in Markets : CloseMarket(m)
  BY <1>3 DEF ClockTick, Lapse, Expire, CloseMarket, vars, Mild
<1> QED
  BY <1>2, <1>3, StepKinds

LEMMA CrewStays ==
    ASSUME HouseTyped, [Next]_vars
    PROVE  load' = load
<1>1. ASSUME NEW w \in Workers, WorkerStep(w) \/ Rollback(w) \/ Commit(w)
      PROVE  load' = load
  BY <1>1, RequestsArrive
<1>2. CASE ClockTick \/ UNCHANGED vars
  BY <1>2, TicksKeep
<1>3. CASE \E m \in Markets : CloseMarket(m)
  BY <1>3 DEF CloseMarket
<1> QED
  BY <1>1, <1>2, <1>3, StepKinds

\* The one worker commits: what it has decided, it has decided for everyone.
LEMMA CommitDecides ==
    ASSUME NEW w \in Workers, MarketsHeld, MarketsHeld', BetInv, BetInv', IsFiniteSet(load.crew),
           Alone, DecidesAll(w), Commit(w)
    PROVE  /\ \A m \in Markets : NoneOpen(m)'
           /\ \A v \in Workers : DecidesAll(v)' /\ BetsInTime(v)'
<1>1. /\ HouseHeld /\ HouseHeld' /\ markets \in [Markets -> RowOf(Market)]
      /\ bets \in [BetIds -> RowOf(Bet)] /\ pc \in [Workers -> Statement]
  BY BetRows DEF MarketsHeld
<1>2. pc[w] = "commit" /\ w \in load.crew
  BY <1>1, Holding DEF Commit, HoldingOK
<1>3. \A v \in Workers \ {w} : pc[v] = "idle"
  <2>1. ASSUME NEW v \in Workers \ {w}, pc[v] # "idle"
        PROVE  FALSE
    <3>1. v \in load.crew
      BY <1>1, <2>1, Holding DEF HoldingOK
    <3> QED
      BY <1>2, <2>1, <3>1, NotAlone
  <2> QED
    BY <2>1
<1>4. \A v \in Workers : pc'[v] = "idle"
  BY <1>1, <1>3 DEF Commit, EndRequest, Goto
<1>5. \A v \in Workers : /\ \A m \in Markets : markets'[m].by # v
                         /\ \A b \in BetIds : bets'[b].by # v
  BY <1>4 DEF MarketsHeld, MarketsOK, MarketAt, BetInv, BetsHeld, HolderOK, BetAt
<1>6. /\ \A m \in Markets : markets'[m].now = Seen(markets[m], w)
      /\ \A b \in BetIds : bets'[b].now = Seen(bets[b], w)
  BY <1>1, RowsEnd DEF Commit
<1>7. ~Looping(w)
  BY <1>2 DEF Looping
<1>8. ASSUME NEW m \in Markets
      PROVE  NoneOpen(m)'
  <2>1. OpenBets(CommittedBets, m)' = OpenBets(BetsSeen(w), m)
    BY <1>6 DEF OpenBets, CommittedBets, BetsSeen
  <2> QED
    BY <1>6, <1>7, <2>1 DEF NoneOpen, DecidesAll, ToDecide
<1>9. ASSUME NEW v \in Workers
      PROVE  DecidesAll(v)' /\ BetsInTime(v)'
  <2>1. \A m \in Markets : OpenBets(BetsSeen(v), m)' = OpenBets(CommittedBets, m)'
    BY <1>5 DEF OpenBets, BetsSeen, CommittedBets, Seen
  <2>2. \A m \in Markets : Seen(markets[m], v)' = markets'[m].now
    BY <1>5 DEF Seen
  <2>3. DecidesAll(v)'
    BY <1>8, <2>1, <2>2 DEF DecidesAll, NoneOpen
  <2> QED
    BY <1>4, <2>3 DEF BetsInTime
<1> QED
  BY <1>8, <1>9

\* What w wrote is forgotten.
LEMMA RollbackDecides ==
    ASSUME NEW w \in Workers, MarketsHeld, MarketsHeld', \A m \in Markets : NoneOpen(m),
           \A v \in Workers : DecidesAll(v) /\ BetsInTime(v), Rollback(w)
    PROVE  /\ \A m \in Markets : NoneOpen(m)'
           /\ \A v \in Workers : DecidesAll(v)' /\ BetsInTime(v)'
<1>1. /\ HouseHeld /\ markets \in [Markets -> RowOf(Market)]
      /\ bets \in [BetIds -> RowOf(Bet)] /\ pc \in [Workers -> Statement]
  BY BetRows DEF MarketsHeld
<1>2. /\ pc'[w] = "idle"
      /\ \A v \in Workers \ {w} : pc'[v] = pc[v] /\ req'[v] = req[v] /\ tx'[v] = tx[v]
  BY <1>1, Holding, Typed DEF Rollback, EndRequest, Goto
<1>3. /\ markets' \in {Published(markets, w), Discarded(markets, w)}
      /\ bets' \in {Published(bets, w), Discarded(bets, w)}
      /\ markets' = Discarded(markets, w) /\ bets' = Discarded(bets, w)
  BY DEF Rollback
<1>4. /\ \A m \in Markets : markets'[m].now = markets[m].now /\ markets'[m].by # w
      /\ \A m \in Markets : \A v \in Workers \ {w} :
             /\ markets'[m].by = v <=> markets[m].by = v
             /\ markets[m].by = v => markets'[m] = markets[m]
  BY <1>1, <1>3, RowsEnd
<1>5. /\ \A b \in BetIds : bets'[b].now = bets[b].now /\ bets'[b].by # w
      /\ \A b \in BetIds : \A v \in Workers \ {w} :
             /\ bets'[b].by = v <=> bets[b].by = v
             /\ bets[b].by = v => bets'[b] = bets[b]
  BY <1>1, <1>3, RowsEnd
<1>6. ASSUME NEW m \in Markets
      PROVE  NoneOpen(m)'
  <2>1. OpenBets(CommittedBets, m)' = OpenBets(CommittedBets, m)
    BY <1>5 DEF OpenBets, CommittedBets
  <2> QED
    BY <1>4, <2>1 DEF NoneOpen
<1>7. DecidesAll(w)' /\ BetsInTime(w)'
  <2>1. \A m \in Markets : OpenBets(BetsSeen(w), m)' = OpenBets(CommittedBets, m)'
    BY <1>5 DEF OpenBets, BetsSeen, CommittedBets, Seen
  <2>2. \A m \in Markets : Seen(markets[m], w)' = markets'[m].now
    BY <1>4 DEF Seen
  <2>3. DecidesAll(w)'
    BY <1>6, <2>1, <2>2 DEF DecidesAll, NoneOpen
  <2> QED
    BY <1>2, <2>3 DEF BetsInTime
<1>8. ASSUME NEW v \in Workers \ {w}
      PROVE  DecidesAll(v)' /\ BetsInTime(v)'
  <2>1. \A b \in BetIds : Seen(bets[b], v)' = Seen(bets[b], v)
    BY <1>5 DEF Seen
  <2>2. \A m \in Markets : /\ Final(Seen(markets[m], v))' => Final(Seen(markets[m], v))
                           /\ Final(markets[m].now)' => Final(markets[m].now)
    BY <1>4 DEF Seen
  <2> QED
    BY <1>1, <1>2, <2>1, <2>2, OthersDecide
<1> QED
  BY <1>6, <1>7, <1>8

\* A statement of w: nothing is committed yet, and the others see what they saw.
LEMMA StepDecides ==
    ASSUME NEW w \in Workers, MarketsHeld, BetInv, Mild, \A m \in Markets : NoneOpen(m),
           \A v \in Workers : DecidesAll(v) /\ BetsInTime(v), WorkerStep(w), ~Rollback(w)
    PROVE  /\ \A m \in Markets : NoneOpen(m)'
           /\ \A v \in Workers : DecidesAll(v)' /\ BetsInTime(v)'
<1>1. /\ HouseHeld /\ CleanBets /\ BetsHeld(w)
      /\ markets \in [Markets -> RowOf(Market)] /\ bets \in [BetIds -> RowOf(Bet)]
  BY BetRows DEF MarketsHeld, BetInv
<1>2. OwnStep(w)
  BY <1>1, WorkersOwn
<1>3. /\ \A m \in Markets : markets'[m].now = markets[m].now
      /\ \A m \in Markets : \A v \in Workers \ {w} :
             /\ markets'[m].by = v <=> markets[m].by = v
             /\ markets[m].by = v => markets'[m] = markets[m]
  BY <1>1, <1>2, NobodyAssumption DEF OwnStep, OwnRows, Free
<1>4. /\ \A b \in BetIds : bets'[b].now = bets[b].now
      /\ \A b \in BetIds : \A v \in Workers \ {w} :
             /\ bets'[b].by = v <=> bets[b].by = v
             /\ bets[b].by = v => bets'[b] = bets[b]
  BY <1>1, <1>2, NobodyAssumption DEF OwnStep, OwnRows, Free
<1>5. ASSUME NEW m \in Markets
      PROVE  NoneOpen(m)'
  <2>1. OpenBets(CommittedBets, m)' = OpenBets(CommittedBets, m)
    BY <1>4 DEF OpenBets, CommittedBets
  <2> QED
    BY <1>3, <2>1 DEF NoneOpen
<1>6. DecidesAll(w)' /\ BetsInTime(w)'
  BY <1>1, StatementDecides, BetsStayInTime
<1>7. ASSUME NEW v \in Workers \ {w}
      PROVE  DecidesAll(v)' /\ BetsInTime(v)'
  <2>1. pc'[v] = pc[v] /\ req'[v] = req[v] /\ tx'[v] = tx[v]
    BY <1>2 DEF OwnStep
  <2>2. \A b \in BetIds : Seen(bets[b], v)' = Seen(bets[b], v)
    BY <1>4 DEF Seen
  <2>3. \A m \in Markets : /\ Final(Seen(markets[m], v))' => Final(Seen(markets[m], v))
                           /\ Final(markets[m].now)' => Final(markets[m].now)
    BY <1>3 DEF Seen
  <2> QED
    BY <1>1, <2>1, <2>2, <2>3, OthersDecide
<1> QED
  BY <1>5, <1>6, <1>7

\* The close job closes a market that nobody holds.
LEMMA ClosingDecides ==
    ASSUME NEW k \in Markets, CloseMarket(k), MarketsHeld, \A m \in Markets : NoneOpen(m),
           \A v \in Workers : DecidesAll(v) /\ BetsInTime(v)
    PROVE  /\ \A m \in Markets : NoneOpen(m)'
           /\ \A v \in Workers : DecidesAll(v)' /\ BetsInTime(v)'
<1>1. HouseHeld /\ markets \in [Markets -> RowOf(Market)]
  BY DEF MarketsHeld, HouseHeld, HouseTyped, TypeOK
<1>2. /\ bets' = bets /\ pc' = pc /\ req' = req /\ tx' = tx /\ markets[k].by = Nobody
      /\ markets' = [markets EXCEPT ![k] = Fresh([markets[k].now EXCEPT !.status = "closed"])]
  BY DEF CloseMarket
<1>3. PICK value : value = [markets[k].now EXCEPT !.status = "closed"]
  OBVIOUS
<1>4. value.status = "closed"
  <2>1. markets[k].now \in Market
    BY <1>1 DEF RowOf
  <2> QED
    BY <1>3, <2>1 DEF Market
<1>5. /\ markets'[k] = Fresh(value)
      /\ \A m \in Markets \ {k} : markets'[m] = markets[m]
  BY <1>1, <1>2, <1>3
<1>6. \A m \in Markets : Final(markets[m].now)' => m # k
  BY <1>4, <1>5 DEF Final, Fresh
<1>7. ASSUME NEW m \in Markets
      PROVE  NoneOpen(m)'
  <2>1. OpenBets(CommittedBets, m)' = OpenBets(CommittedBets, m)
    BY <1>2 DEF OpenBets, CommittedBets
  <2> QED
    BY <1>5, <1>6, <2>1 DEF NoneOpen
<1>8. ASSUME NEW v \in Workers
      PROVE  DecidesAll(v)' /\ BetsInTime(v)'
  <2>1. \A m \in Markets : /\ Final(Seen(markets[m], v))' => Final(Seen(markets[m], v))
                           /\ Final(markets[m].now)' => Final(markets[m].now)
    <3>1. Seen(markets[k], v)' = value
      BY <1>5 DEF Seen, Fresh
    <3>2. ~Final(Seen(markets[k], v))'
      BY <1>4, <3>1 DEF Final
    <3> QED
      BY <1>5, <1>6, <3>2 DEF Seen
  <2>2. \A b \in BetIds : Seen(bets[b], v)' = Seen(bets[b], v)
    BY <1>2 DEF Seen
  <2> QED
    BY <1>1, <1>2, <2>1, <2>2, OthersDecide
<1> QED
  BY <1>7, <1>8

----------------------------------------------------------------------------
(***************************************************************************)
(* Always.                                                                 *)
(***************************************************************************)

LEMMA OpenNext == OpenInv /\ [Next]_vars => OpenInv'
<1> SUFFICES ASSUME OpenInv, [Next]_vars
             PROVE  OpenInv'
  OBVIOUS
<1>1. HouseTyped /\ MarketsHeld /\ MarketsHeld'
  BY MarketsHeldNext DEF OpenInv, MarketsHeld, HouseHeld
<1>2. load' = load
  BY <1>1, CrewStays
<1> SUFFICES ASSUME Alone
             PROVE  /\ BetInv' /\ Mild' /\ \A m \in Markets : NoneOpen(m)'
                    /\ \A v \in Workers : DecidesAll(v)' /\ BetsInTime(v)'
  BY <1>1, <1>2 DEF OpenInv, Alone
<1>3. BetInv /\ BetInv'
  BY BetNext DEF OpenInv
<1>4. /\ Mild /\ IsFiniteSet(load.crew) /\ \A m \in Markets : NoneOpen(m)
      /\ \A v \in Workers : DecidesAll(v) /\ BetsInTime(v)
  BY DEF OpenInv
<1>10. Mild'
  BY <1>1, <1>4, MildNext
<1>5. ASSUME NEW w \in Workers, WorkerStep(w), ~Rollback(w)
      PROVE  /\ \A m \in Markets : NoneOpen(m)'
             /\ \A v \in Workers : DecidesAll(v)' /\ BetsInTime(v)'
  BY <1>1, <1>3, <1>4, <1>5, StepDecides
<1>6. ASSUME NEW w \in Workers, Rollback(w)
      PROVE  /\ \A m \in Markets : NoneOpen(m)'
             /\ \A v \in Workers : DecidesAll(v)' /\ BetsInTime(v)'
  BY <1>1, <1>4, <1>6, RollbackDecides
<1>7. ASSUME NEW w \in Workers, Commit(w)
      PROVE  /\ \A m \in Markets : NoneOpen(m)'
             /\ \A v \in Workers : DecidesAll(v)' /\ BetsInTime(v)'
  BY <1>1, <1>3, <1>4, <1>7, CommitDecides
<1>8. ASSUME NEW k \in Markets, CloseMarket(k)
      PROVE  /\ \A m \in Markets : NoneOpen(m)'
             /\ \A v \in Workers : DecidesAll(v)' /\ BetsInTime(v)'
  BY <1>1, <1>4, <1>8, ClosingDecides
<1>9. CASE ClockTick \/ UNCHANGED vars
  <2>1. UNCHANGED <<bets, markets, pc, req, tx>>
    BY <1>9, TicksKeep DEF tables
  <2>2. \A m \in Markets : NoneOpen(m)'
    BY <1>4, <2>1 DEF NoneOpen, OpenBets, CommittedBets
  <2>3. \A v \in Workers : DecidesAll(v)' /\ BetsInTime(v)'
    BY <1>4, <2>1 DEF DecidesAll, BetsInTime, ToDecide, Looping, Pending, OpenBets, BetsSeen, Seen
  <2> QED
    BY <1>3, <1>10, <2>2, <2>3
<1> QED
  BY <1>1, <1>3, <1>5, <1>6, <1>7, <1>8, <1>9, <1>10, StepKinds

LEMMA OpenInit ==
    ASSUME \A mix \in Mixes : PatchesDecideNothing(mix), Init
    PROVE  OpenInv
<1>1. MarketsHeld
  BY MarketsHeldInit
<1>2. PICK mix \in Mixes : load = [crew |-> mix.crew, timed |-> mix.timed] /\ todo = mix.todo
  BY DEF Init
<1>3. /\ \A w \in Workers : pc[w] = "idle" /\ req[w].op = "none"
      /\ \A m \in Markets : markets[m].now.status = "open" /\ markets[m].by = Nobody
      /\ \A b \in BetIds : bets[b].by = Nobody /\ bets[b].new = bets[b].now
  BY DEF Init, Fresh, NoRequest, NewMarket
<1>4. IsFiniteSet(load.crew) /\ (Alone => Mild)
  <2>1. IsFiniteSet(load.crew) /\ load.crew = mix.crew
    BY <1>2, MixesAssumption
  <2>2. Alone => \A v, w \in mix.crew : v = w
    BY <2>1, NotAlone
  <2> QED
    BY <1>2, <1>3, <2>1, <2>2 DEF PatchesDecideNothing, Mild
<1>5. \A m \in Markets : NoneOpen(m)
  BY <1>3 DEF NoneOpen, Final
<1>6. \A w \in Workers : DecidesAll(w) /\ BetsInTime(w)
  BY <1>3, NobodyAssumption, <1>5, IdleDecides
<1>7. Alone => BetInv
  <2>1. Alone => Apart
    BY <1>4, NotAlone DEF Apart
  <2>2. CleanBets /\ \A w \in Workers : BetsHeld(w)
    BY <1>3, NobodyAssumption DEF CleanBets, BetsHeld, HolderOK, LoopOK, Looping, LeaveOK
  <2> QED
    BY <1>1, <2>1, <2>2 DEF MarketsHeld, BetInv
<1> QED
  BY <1>1, <1>4, <1>5, <1>6, <1>7 DEF OpenInv

\* With one worker, and unless an admin sets a market to settled or to cancelled by hand,
\* which the admin API permits (admin/markets_controller.rb:34,81) and which decides no bet,
\* a market that is settled or cancelled has no open bet: whatever was bet before, between
\* the statements of its settlement or after a crash in the middle of one, and however
\* often an admin reopens it.
THEOREM NothingStaysOpen ==
    ASSUME \A mix \in Mixes : PatchesDecideNothing(mix)
    PROVE  Spec => []NothingLeftOpen
<1>1. OpenInv => NothingLeftOpen
  BY DEF OpenInv, NothingLeftOpen, NoneOpen, Final
<1> QED
  BY <1>1, OpenInit, OpenNext, PTL DEF Spec

----------------------------------------------------------------------------
(***************************************************************************)
(* The liability cap.  The liability that a placement is refused by is     *)
(* that with the new bet as number 0; the bet is then inserted under an    *)
(* id, and what the worker sees of the other bets has not changed.         *)
(***************************************************************************)

\* Sums do not depend on what the entries are called.
LEMMA SumRenamed ==
    ASSUME NEW D, IsFiniteSet(D), NEW a, a \notin D, NEW b, b \notin D,
           NEW g, DOMAIN g = D \cup {a}, NEW h, DOMAIN h = D \cup {b},
           \A d \in D : g[d] \in Int /\ g[d] = h[d], g[a] \in Int, g[a] = h[b]
    PROVE  SumFunction(g) = SumFunction(h)
<1>1. SumFunctionOnSet(g, D \cup {a}) = SumFunctionOnSet(g, D) + g[a]
  BY SumAdded
<1>2. SumFunctionOnSet(h, D \cup {b}) = SumFunctionOnSet(h, D) + h[b]
  <2>1. \A d \in D : h[d] \in Int
    OBVIOUS
  <2>2. h[b] \in Int
    OBVIOUS
  <2> QED
    BY <2>1, <2>2, SumAdded
<1>3. SumFunctionOnSet(g, D) = SumFunctionOnSet(h, D)
  BY SumEqual
<1> QED
  BY <1>1, <1>2, <1>3 DEF SumFunction

\* The bets on one side.
OnSide(tickets, side) == [b \in {c \in DOMAIN tickets : tickets[c].side = side} |-> tickets[b]]

LEMMA LiabilityRenamed ==
    ASSUME NEW D, IsFiniteSet(D), NEW a, a \notin D, NEW b, b \notin D,
           NEW p \in [D \cup {a} -> Ticket], NEW q \in [D \cup {b} -> Ticket],
           \A d \in D : p[d] = q[d], p[a] = q[b], NEW m
    PROVE  Liability(p, m) = Liability(q, m)
<1>1. \A t \in Ticket : NetStake(t) \in Int /\ Payout(t) \in Int
  <2>1. ASSUME NEW t \in Ticket
        PROVE  NetStake(t) \in Int /\ Payout(t) \in Int
    <3>1. t.stake \in Nat /\ Terms[t.market].fee_bps \in Nat
      BY TicketForm, TermsOf
    <3>2. Fee(t) \in Nat
      BY <3>1, Product, Quotient DEF Fee
    <3> QED
      BY <3>1, <3>2, Worths DEF NetStake
  <2> QED
    BY <2>1
<1>2. Total(NetStake, p) = Total(NetStake, q)
  <2>1. PICK g : g = [d \in DOMAIN p |-> NetStake(p[d])]
    OBVIOUS
  <2>2. PICK h : h = [d \in DOMAIN q |-> NetStake(q[d])]
    OBVIOUS
  <2>3. DOMAIN g = D \cup {a} /\ DOMAIN h = D \cup {b}
    BY <2>1, <2>2
  <2>4. /\ \A d \in D : g[d] \in Int /\ g[d] = h[d]
        /\ g[a] \in Int /\ g[a] = h[b]
    BY <1>1, <2>1, <2>2
  <2>5. SumFunction(g) = SumFunction(h)
    BY <2>3, <2>4, SumRenamed
  <2> QED
    BY <2>1, <2>2, <2>5 DEF Total
<1>3. ASSUME NEW side \in Sides
      PROVE  Total(Payout, OnSide(p, side)) = Total(Payout, OnSide(q, side))
  <2>1. PICK here : here = {d \in D : p[d].side = side}
    OBVIOUS
  <2>2. PICK g : g = [d \in DOMAIN OnSide(p, side) |-> Payout(OnSide(p, side)[d])]
    OBVIOUS
  <2>3. PICK h : h = [d \in DOMAIN OnSide(q, side) |-> Payout(OnSide(q, side)[d])]
    OBVIOUS
  <2>4. /\ DOMAIN OnSide(p, side) = {d \in D \cup {a} : p[d].side = side}
        /\ DOMAIN OnSide(q, side) = {d \in D \cup {b} : q[d].side = side}
    BY DEF OnSide
  <2>5. /\ \A d \in DOMAIN OnSide(p, side) : OnSide(p, side)[d] = p[d]
        /\ \A d \in DOMAIN OnSide(q, side) : OnSide(q, side)[d] = q[d]
    BY DEF OnSide
  <2>6. SumFunction(g) = SumFunction(h)
    <3>1. CASE p[a].side = side
      <4>1. DOMAIN g = here \cup {a} /\ DOMAIN h = here \cup {b}
        BY <2>1, <2>2, <2>3, <2>4, <3>1
      <4>2. /\ \A d \in here : g[d] \in Int /\ g[d] = h[d]
            /\ g[a] \in Int /\ g[a] = h[b]
        BY <1>1, <2>1, <2>2, <2>3, <2>4, <2>5, <3>1
      <4>3. IsFiniteSet(here) /\ a \notin here /\ b \notin here
        BY <2>1, FS_Subset
      <4> QED
        BY <4>1, <4>2, <4>3, SumRenamed
    <3>2. CASE p[a].side # side
      <4>1. DOMAIN g = here /\ DOMAIN h = here
        BY <2>1, <2>2, <2>3, <2>4, <3>2
      <4>2. \A d \in here : g[d] = h[d]
        BY <2>1, <2>2, <2>3, <2>4, <2>5, <3>2
      <4>3. g = h
        BY <2>2, <2>3, <4>1, <4>2
      <4> QED
        BY <4>3
    <3> QED
      BY <3>1, <3>2
  <2> QED
    BY <2>2, <2>3, <2>6 DEF Total
<1>4. /\ Liability(p, m) = Max({0} \cup {-(Total(NetStake, p) - Total(Payout, OnSide(p, side)))
                                            : side \in Sides})
      /\ Liability(q, m) = Max({0} \cup {-(Total(NetStake, q) - Total(Payout, OnSide(q, side)))
                                            : side \in Sides})
  BY DEF Liability, OnSide
<1>5. {-(Total(NetStake, p) - Total(Payout, OnSide(p, side))) : side \in Sides}
        = {-(Total(NetStake, q) - Total(Payout, OnSide(q, side))) : side \in Sides}
  BY <1>2, <1>3
<1> QED
  BY <1>4, <1>5

\* The bets that w sees on the market of t, and t as bet 0.
WithBet(w, t) ==
    LET open == TicketsOf(BetsSeen(w), t.market)
    IN  [b \in DOMAIN open \cup {0} |-> IF b = 0 THEN t ELSE open[b]]

\* Within a placement w sees a market's open bets within the cap, or none but those that
\* are committed; the bet that it has assessed would keep the market within the cap.
CapOK(w) ==
    /\ \A m \in Markets :
           \/ OpenBets(BetsSeen(w), m) \subseteq OpenBets(CommittedBets, m)
           \/ /\ pc[w] \in PlaceAt
              /\ Liability(TicketsOf(BetsSeen(w), m), m) <= Terms[m].liability_cap
    /\ pc[w] \in {"debit", "insert"} =>
           LET t == Head(tx[w].items)
           IN  Liability(WithBet(w, t), t.market) <= Terms[t.market].liability_cap

CapInv == HouseHeld /\ IsFiniteSet(load.crew) /\ (Alone => BetInv /\ \A w \in Workers : CapOK(w))

\* A step after which v sees the same bets, and the same are committed.
LEMMA OthersCapped ==
    ASSUME NEW v \in Workers, CapOK(v), pc'[v] = pc[v], tx'[v] = tx[v],
           \A b \in BetIds : /\ Seen(bets[b], v)' = Seen(bets[b], v)
                             /\ bets'[b].now = bets[b].now
    PROVE  CapOK(v)'
<1>1. BetsSeen(v)' = BetsSeen(v) /\ CommittedBets' = CommittedBets
  BY DEF BetsSeen, CommittedBets
<1>2. \A m \in Markets : /\ OpenBets(BetsSeen(v), m)' = OpenBets(BetsSeen(v), m)
                         /\ OpenBets(CommittedBets, m)' = OpenBets(CommittedBets, m)
                         /\ TicketsOf(BetsSeen(v), m)' = TicketsOf(BetsSeen(v), m)
  BY <1>1 DEF OpenBets, TicketsOf
<1>3. \A t : WithBet(v, t)' = WithBet(v, t)
  BY <1>1 DEF WithBet, TicketsOf, OpenBets
<1>4. \A m \in Markets : Liability(TicketsOf(BetsSeen(v), m), m)'
                             = Liability(TicketsOf(BetsSeen(v), m), m)
  BY <1>2
<1>5. Liability(WithBet(v, Head(tx[v].items)), Head(tx[v].items).market)'
          = Liability(WithBet(v, Head(tx[v].items)), Head(tx[v].items).market)
  BY <1>3
<1> QED
  BY <1>2, <1>4, <1>5 DEF CapOK

\* The bet that a placement inserts is the one that it has assessed.
LEMMA InsertBetCapped ==
    ASSUME NEW w \in Workers, HouseHeld, CapOK(w), InsertBet(w)
    PROVE  CapOK(w)'
<1>1. /\ bets \in [BetIds -> RowOf(Bet)] /\ pc \in [Workers -> Statement]
      /\ \A b \in BetIds : bets[b].now.ticket \in Ticket /\ bets[b].new.ticket \in Ticket
      /\ pc[w] = "insert"
  BY BetRows DEF InsertBet
<1>2. PICK t \in Ticket : t = Head(tx[w].items)
  <2>1. tx[w].items \in Seq(Ticket) /\ tx[w].items # <<>>
    BY <1>1, Holding, Typed DEF ServingOK, Tx
  <2> QED
    BY <2>1, HeadAndTail
<1>3. PICK b \in FreeBets : \E slip : bets' =
          [bets EXCEPT ![b] = Written(@, w, [ticket |-> t, slip |-> slip, status |-> "open"])]
  BY <1>2, Zenon DEF InsertBet
<1>4. /\ b \in BetIds /\ Seen(bets[b], w) = bets[b].now /\ bets[b].now.status = "none"
      /\ b # 0
  BY NobodyAssumption, <1>3 DEF FreeBets, Seen, BetIds
<1>5. /\ Seen(bets[b], w)'.ticket = t /\ Seen(bets[b], w)'.status = "open"
      /\ \A c \in BetIds \ {b} : Seen(bets[c], w)' = Seen(bets[c], w)
      /\ \A c \in BetIds : bets'[c].now = bets[c].now
  <2>1. /\ bets'[b].new.ticket = t /\ bets'[b].new.status = "open" /\ bets'[b].by = w
        /\ bets'[b].now = bets[b].now
        /\ \A c \in BetIds \ {b} : bets'[c] = bets[c]
    BY <1>1, <1>3, <1>4 DEF Written, RowOf
  <2> QED
    BY <1>4, <2>1 DEF Seen
<1>6. pc'[w] \in {"look", "commit"}
  BY <1>1 DEF InsertBet, Goto
<1>7. \A m \in Markets : OpenBets(CommittedBets, m)' = OpenBets(CommittedBets, m)
  BY <1>5 DEF OpenBets, CommittedBets
<1>8. ASSUME NEW m \in Markets, m # t.market
      PROVE  /\ OpenBets(BetsSeen(w), m)' = OpenBets(BetsSeen(w), m)
             /\ TicketsOf(BetsSeen(w), m)' = TicketsOf(BetsSeen(w), m)
  <2>1. OpenBets(BetsSeen(w), m)' = OpenBets(BetsSeen(w), m)
    BY <1>4, <1>5, <1>8 DEF OpenBets, BetsSeen
  <2>2. b \notin OpenBets(BetsSeen(w), m)
    BY <1>4 DEF OpenBets, BetsSeen
  <2>3. \A c \in OpenBets(BetsSeen(w), m) : BetsSeen(w)'[c] = BetsSeen(w)[c]
    BY <1>5, <2>2 DEF OpenBets, BetsSeen
  <2> QED
    BY <2>1, <2>3 DEF TicketsOf
<1>9. Liability(TicketsOf(BetsSeen(w), t.market), t.market)' <= Terms[t.market].liability_cap
  <2>1. PICK D : D = OpenBets(BetsSeen(w), t.market)
    OBVIOUS
  <2>2. OpenBets(BetsSeen(w), t.market)' = D \cup {b}
    BY <1>4, <1>5, <2>1 DEF OpenBets, BetsSeen
  <2>3. D \subseteq BetIds /\ b \notin D /\ 0 \notin D
    BY <1>4, <2>1 DEF OpenBets, BetsSeen, BetIds
  <2>4. IsFiniteSet(D)
    <3>1. IsFiniteSet(BetIds)
      BY FS_Interval, BoundsAssumption DEF BetIds
    <3> QED
      BY <2>3, <3>1, FS_Subset
  <2>5. PICK p : p = WithBet(w, t)
    OBVIOUS
  <2>6. PICK q : q = TicketsOf(BetsSeen(w), t.market)'
    OBVIOUS
  <2>7. \A c \in D : BetsSeen(w)[c].ticket \in Ticket /\ BetsSeen(w)'[c].ticket = BetsSeen(w)[c].ticket
    BY <1>1, <1>5, <2>3 DEF BetsSeen, Seen
  <2>8. /\ p \in [D \cup {0} -> Ticket] /\ p[0] = t
        /\ \A c \in D : p[c] = BetsSeen(w)[c].ticket
    BY <2>1, <2>3, <2>5, <2>7 DEF WithBet, TicketsOf
  <2>9. BetsSeen(w)'[b].ticket = t
    BY <1>4, <1>5 DEF BetsSeen
  <2>10. /\ q \in [D \cup {b} -> Ticket] /\ q[b] = t
         /\ \A c \in D : q[c] = BetsSeen(w)[c].ticket
    BY <2>2, <2>3, <2>6, <2>7, <2>9 DEF TicketsOf
  <2>11. Liability(p, t.market) = Liability(q, t.market)
    <3>1. \A c \in D : p[c] = q[c]
      BY <2>8, <2>10
    <3> QED
      BY <2>3, <2>4, <2>8, <2>10, <3>1, LiabilityRenamed
  <2>12. Liability(p, t.market) <= Terms[t.market].liability_cap
    BY <1>1, <1>2, <2>5 DEF CapOK
  <2> QED
    BY <2>6, <2>11, <2>12
<1>10. ASSUME NEW m \in Markets
       PROVE  \/ OpenBets(BetsSeen(w), m)' \subseteq OpenBets(CommittedBets, m)'
              \/ /\ pc'[w] \in PlaceAt
                 /\ Liability(TicketsOf(BetsSeen(w), m), m)' <= Terms[m].liability_cap
  <2>1. CASE m = t.market
    BY <1>6, <1>9, <2>1 DEF PlaceAt
  <2>2. CASE m # t.market
    <3>1. \/ OpenBets(BetsSeen(w), m) \subseteq OpenBets(CommittedBets, m)
          \/ Liability(TicketsOf(BetsSeen(w), m), m) <= Terms[m].liability_cap
      BY DEF CapOK
    <3>2. Liability(TicketsOf(BetsSeen(w), m), m)' = Liability(TicketsOf(BetsSeen(w), m), m)
      BY <1>8, <2>2
    <3> QED
      BY <1>6, <1>7, <1>8, <2>2, <3>1, <3>2 DEF PlaceAt
  <2> QED
    BY <2>1, <2>2
<1> QED
  BY <1>6, <1>10 DEF CapOK

\* Any other statement closes bets, if anything, and only a placement goes beyond what is
\* committed.
LEMMA StatementCapped ==
    ASSUME NEW w \in Workers, HouseHeld, CleanBets, CapOK(w), WorkerStep(w), ~Rollback(w),
           ~InsertBet(w)
    PROVE  CapOK(w)'
<1>1. /\ bets \in [BetIds -> RowOf(Bet)] /\ pc \in [Workers -> Statement]
      /\ \A b \in BetIds : bets'[b].now = bets[b].now
  BY BetRows, WorkersOwn DEF OwnStep, OwnRows
<1>2. \A m \in Markets : OpenBets(CommittedBets, m)' = OpenBets(CommittedBets, m)
  BY <1>1 DEF OpenBets, CommittedBets
<1>3. CASE Look(w) \/ Assess(w) \/ DebitStake(w)
  <2>1. /\ bets' = bets /\ tx' = tx /\ pc[w] \in PlaceAt
        /\ Look(w) => Goto(w, "risk")
        /\ Assess(w) => Goto(w, "debit")
        /\ DebitStake(w) => Goto(w, "insert") /\ pc[w] = "debit"
    BY <1>3, Zenon DEF Look, Assess, DebitStake, PlaceAt, tables
  <2>2. /\ pc'[w] \in PlaceAt
        /\ Look(w) => pc'[w] = "risk"
        /\ DebitStake(w) => pc[w] = "debit"
    BY <1>1, <1>3, <2>1 DEF Goto, PlaceAt
  <2>3. BetsSeen(w)' = BetsSeen(w)
    BY <2>1 DEF BetsSeen
  <2>4. \A m \in Markets : /\ OpenBets(BetsSeen(w), m)' = OpenBets(BetsSeen(w), m)
                           /\ TicketsOf(BetsSeen(w), m)' = TicketsOf(BetsSeen(w), m)
    BY <2>3 DEF OpenBets, TicketsOf
  <2>5. \A m \in Markets : Liability(TicketsOf(BetsSeen(w), m), m)'
                               = Liability(TicketsOf(BetsSeen(w), m), m)
    BY <2>4
  <2>6. \A m \in Markets :
            \/ OpenBets(BetsSeen(w), m)' \subseteq OpenBets(CommittedBets, m)'
            \/ /\ pc'[w] \in PlaceAt
               /\ Liability(TicketsOf(BetsSeen(w), m), m)' <= Terms[m].liability_cap
    BY <1>2, <2>2, <2>4, <2>5 DEF CapOK
  <2>7. PICK t : t = Head(tx[w].items)
    OBVIOUS
  <2>8. WithBet(w, t)' = WithBet(w, t)
    BY <2>3 DEF WithBet, TicketsOf, OpenBets
  <2>9. pc'[w] \in {"debit", "insert"} =>
            Liability(WithBet(w, t), t.market) <= Terms[t.market].liability_cap
    <3>1. CASE Look(w)
      BY <2>2, <3>1
    <3>2. CASE Assess(w)
      BY <2>7, <3>2 DEF Assess, WithBet
    <3>3. CASE DebitStake(w)
      BY <2>2, <2>7, <3>3 DEF CapOK
    <3> QED
      BY <1>3, <3>1, <3>2, <3>3
  <2>10. pc'[w] \in {"debit", "insert"} =>
            Liability(WithBet(w, t), t.market)' <= Terms[t.market].liability_cap
    BY <2>8, <2>9
  <2>11. t = Head(tx'[w].items)
    BY <2>1, <2>7
  <2> QED
    BY <2>6, <2>10, <2>11 DEF CapOK
<1>4. CASE ~Look(w) /\ ~Assess(w) /\ ~DebitStake(w)
  <2>1. pc[w] \notin PlaceAt
    BY <1>4, StatementAt DEF PlaceAt
  <2>2. pc'[w] \notin {"risk", "debit", "insert"}
    BY <1>4, BetsFollowLooks
  <2>3. \A m \in Markets : OpenBets(BetsSeen(w), m)' \subseteq OpenBets(BetsSeen(w), m)
    BY OpenFall
  <2> QED
    BY <1>2, <2>1, <2>2, <2>3 DEF CapOK
<1> QED
  BY <1>3, <1>4

----------------------------------------------------------------------------
(***************************************************************************)
(* Always.                                                                 *)
(***************************************************************************)

\* A worker that holds no bets sees those that are committed.
LEMMA IdleCapped ==
    ASSUME NEW v \in Workers, pc[v] = "idle", \A b \in BetIds : bets[b].by # v
    PROVE  CapOK(v)
<1>1. \A m \in Markets : OpenBets(BetsSeen(v), m) = OpenBets(CommittedBets, m)
  BY DEF OpenBets, BetsSeen, CommittedBets, Seen
<1> QED
  BY <1>1 DEF CapOK

\* The end of a request: everyone else is idle, or sees what it saw.
LEMMA EndCapped ==
    ASSUME NEW w \in Workers, HouseHeld, BetInv', \A v \in Workers : CapOK(v),
           \/ Rollback(w)
           \/ Commit(w) /\ \A v \in Workers \ {w} : pc[v] = "idle"
    PROVE  \A v \in Workers : CapOK(v)'
<1>1. bets \in [BetIds -> RowOf(Bet)] /\ pc \in [Workers -> Statement]
  BY BetRows
<1>2. EndRequest(w)
  BY DEF Rollback, Commit
<1>3. /\ pc'[w] = "idle"
      /\ \A v \in Workers \ {w} : pc'[v] = pc[v] /\ tx'[v] = tx[v]
  BY <1>1, <1>2, Holding, Typed DEF EndRequest, Goto
<1>4. ASSUME NEW v \in Workers, pc'[v] = "idle"
      PROVE  CapOK(v)'
  <2>1. \A b \in BetIds : bets'[b].by # v
    BY <1>4 DEF BetInv, BetsHeld, HolderOK, BetAt
  <2>2. \A m \in Markets : OpenBets(BetsSeen(v), m)' = OpenBets(CommittedBets, m)'
    BY <2>1 DEF OpenBets, BetsSeen, CommittedBets, Seen
  <2> QED
    BY <1>4, <2>2 DEF CapOK
<1>5. CASE Commit(w) /\ \A v \in Workers \ {w} : pc[v] = "idle"
  BY <1>3, <1>4, <1>5
<1>6. CASE Rollback(w)
  <2>1. bets' \in {Published(bets, w), Discarded(bets, w)} /\ bets' = Discarded(bets, w)
    BY <1>6 DEF Rollback
  <2>2. ASSUME NEW v \in Workers \ {w}
        PROVE  CapOK(v)'
    <3>1. \A b \in BetIds : /\ bets'[b].now = bets[b].now
                            /\ bets'[b].by = v <=> bets[b].by = v
                            /\ bets[b].by = v => bets'[b] = bets[b]
      BY <1>1, <2>1, RowsEnd
    <3>2. \A b \in BetIds : /\ Seen(bets[b], v)' = Seen(bets[b], v)
                            /\ bets'[b].now = bets[b].now
      BY <3>1 DEF Seen
    <3> QED
      BY <1>3, <3>2, OthersCapped
  <2> QED
    BY <1>3, <1>4, <2>2
<1> QED
  BY <1>5, <1>6

\* Everyone else is idle when the one worker commits.
LEMMA CommitsAlone ==
    ASSUME NEW w \in Workers, HouseHeld, IsFiniteSet(load.crew), Alone, Commit(w)
    PROVE  \A v \in Workers \ {w} : pc[v] = "idle"
<1>1. w \in load.crew
  BY Holding DEF Commit, HoldingOK
<1>2. ASSUME NEW v \in Workers \ {w}, pc[v] # "idle"
      PROVE  FALSE
  <2>1. v \in load.crew
    BY <1>2, Holding DEF HoldingOK
  <2> QED
    BY <1>1, <1>2, <2>1, NotAlone
<1> QED
  BY <1>2

LEMMA CapNext == CapInv /\ [Next]_vars => CapInv'
<1> SUFFICES ASSUME CapInv, [Next]_vars
             PROVE  CapInv'
  OBVIOUS
<1>1. HouseTyped /\ HouseHeld /\ HouseHeld' /\ IsFiniteSet(load.crew)
  BY HeldNext DEF CapInv, HouseHeld
<1>2. load' = load
  BY <1>1, CrewStays
<1> SUFFICES ASSUME Alone
             PROVE  BetInv' /\ \A v \in Workers : CapOK(v)'
  BY <1>1, <1>2 DEF CapInv, Alone
<1>3. BetInv /\ BetInv' /\ \A v \in Workers : CapOK(v)
  BY BetNext DEF CapInv
<1>4. bets \in [BetIds -> RowOf(Bet)]
  BY <1>1 DEF HouseTyped, TypeOK
<1>5. ASSUME NEW w \in Workers, WorkerStep(w), ~Rollback(w)
      PROVE  \A v \in Workers : CapOK(v)'
  <2>1. OwnStep(w)
    BY <1>1, <1>5, WorkersOwn
  <2>2. CapOK(w)'
    BY <1>1, <1>3, <1>5, InsertBetCapped, StatementCapped DEF BetInv
  <2>3. ASSUME NEW v \in Workers \ {w}
        PROVE  CapOK(v)'
    <3>1. \A b \in BetIds : /\ bets'[b].now = bets[b].now
                            /\ bets'[b].by = v <=> bets[b].by = v
                            /\ bets[b].by = v => bets'[b] = bets[b]
      BY <1>4, <2>1, NobodyAssumption DEF OwnStep, OwnRows, Free
    <3>2. \A b \in BetIds : /\ Seen(bets[b], v)' = Seen(bets[b], v)
                            /\ bets'[b].now = bets[b].now
      BY <3>1 DEF Seen
    <3>3. pc'[v] = pc[v] /\ tx'[v] = tx[v]
      BY <2>1 DEF OwnStep
    <3> QED
      BY <1>3, <3>2, <3>3, OthersCapped
  <2> QED
    BY <2>2, <2>3
<1>6. ASSUME NEW w \in Workers, Rollback(w) \/ Commit(w)
      PROVE  \A v \in Workers : CapOK(v)'
  BY <1>1, <1>3, <1>6, CommitsAlone, EndCapped
<1>7. CASE ClockTick \/ UNCHANGED vars \/ \E m \in Markets : CloseMarket(m)
  <2>1. UNCHANGED <<bets, pc, tx>>
    BY <1>7, TicksKeep DEF tables, CloseMarket
  <2>2. ASSUME NEW v \in Workers
        PROVE  CapOK(v)'
    <3>1. \A b \in BetIds : /\ Seen(bets[b], v)' = Seen(bets[b], v)
                            /\ bets'[b].now = bets[b].now
      BY <2>1
    <3> QED
      BY <1>3, <2>1, <3>1, OthersCapped
  <2> QED
    BY <1>3, <2>2
<1> QED
  BY <1>1, <1>3, <1>5, <1>6, <1>7, StepKinds

LEMMA CapInit == Init => CapInv
<1> SUFFICES ASSUME Init
             PROVE  CapInv
  OBVIOUS
<1>1. /\ \A w \in Workers : pc[w] = "idle"
      /\ \A b \in BetIds : bets[b].by = Nobody /\ bets[b].new = bets[b].now
  BY DEF Init, Fresh
<1>2. HouseHeld
  BY HeldInit
<1>3. IsFiniteSet(load.crew)
  BY MixesAssumption DEF Init
<1>4. Alone => Apart
  BY <1>3, NotAlone DEF Apart
<1>5. CleanBets /\ \A w \in Workers : BetsHeld(w)
  BY <1>1, NobodyAssumption DEF CleanBets, BetsHeld, HolderOK, LoopOK, Looping, LeaveOK
<1>6. \A w \in Workers : CapOK(w)
  BY <1>1, NobodyAssumption, IdleCapped
<1> QED
  BY <1>2, <1>3, <1>4, <1>5, <1>6 DEF CapInv, BetInv

LEMMA CapStep ==
    ASSUME CapInv, [Next]_vars, Alone, NEW m \in Markets,
           ~(OpenBets(CommittedBets', m) \subseteq OpenBets(CommittedBets, m))
    PROVE  LiabilityNow(m)' <= Terms[m].liability_cap
<1>1. HouseHeld /\ HouseTyped /\ IsFiniteSet(load.crew) /\ \A w \in Workers : CapOK(w)
  BY DEF CapInv, HouseHeld
<1>2. bets \in [BetIds -> RowOf(Bet)]
  BY <1>1 DEF HouseTyped, TypeOK
<1>3. ~\A b \in BetIds : bets'[b].now = bets[b].now
  BY DEF OpenBets, CommittedBets
<1>4. PICK w \in Workers : Commit(w)
  <2>1. ASSUME NEW w \in Workers, WorkerStep(w), ~Rollback(w)
        PROVE  FALSE
    BY <1>1, <1>2, <1>3, <2>1, WorkersOwn DEF OwnStep, OwnRows
  <2>2. ASSUME NEW w \in Workers, Rollback(w)
        PROVE  FALSE
    BY <1>2, <1>3, <2>2, RowsEnd DEF Rollback
  <2>3. ~ClockTick /\ ~UNCHANGED vars /\ ~\E k \in Markets : CloseMarket(k)
    BY <1>3, TicksKeep DEF tables, CloseMarket
  <2> QED
    BY <1>1, <2>1, <2>2, <2>3, StepKinds
<1>5. \A b \in BetIds : bets'[b].now = Seen(bets[b], w)
  BY <1>2, <1>4, RowsEnd DEF Commit
<1>6. CommittedBets' = BetsSeen(w)
  BY <1>5 DEF CommittedBets, BetsSeen
<1>7. Liability(TicketsOf(BetsSeen(w), m), m) <= Terms[m].liability_cap
  BY <1>1, <1>6 DEF CapOK
<1> QED
  BY <1>6, <1>7 DEF LiabilityNow, TicketsOf, OpenBets

\* With one worker, a transaction that adds open bets to a market leaves the market's
\* worst-case loss within its cap: also with the second bet of a betslip on it, which is
\* assessed with the first one in sight and not yet committed.
THEOREM TheCapIsKept == Spec => CapKept
<1>1. CapInv /\ [Next]_vars =>
          [Alone => \A m \in Markets :
               ~(OpenBets(CommittedBets', m) \subseteq OpenBets(CommittedBets, m)) =>
                   LiabilityNow(m)' <= Terms[m].liability_cap]_vars
  BY CapStep
<1> QED
  BY <1>1, CapInit, CapNext, PTL DEF Spec, CapKept

=============================================================================

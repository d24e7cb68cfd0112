------------------------------- MODULE BetBook -------------------------------
(***************************************************************************)
(* What the house promises of every bet, with nothing of how it is done: a *)
(* bet is placed on fixed terms, and is later decided once and for all, at *)
(* the moment its owner gets exactly what that decision is worth.          *)
(***************************************************************************)
EXTENDS Integers

CONSTANTS
    Bets,       \* names of bets
    Tickets,    \* the terms on which a bet may be placed
    Worth(_, _) \* Worth(t, how): the amounts that a bet on terms t may return

VARIABLE book   \* [Bets -> [status, ticket, returned]]

\* A bet that nobody has placed.
Unplaced(entry) == entry.status = "none" /\ entry.returned = 0

Init == \A b \in Bets : Unplaced(book[b])

Placed(b) ==
    /\ Unplaced(book[b])
    /\ book'[b].status = "open"
    /\ book'[b].returned = 0
    /\ book'[b].ticket \in Tickets

Decided(b) ==
    /\ book[b].status = "open"
    /\ book'[b].status \in {"settled_win", "settled_loss", "voided"}
    /\ book'[b].ticket = book[b].ticket
    /\ book'[b].returned \in Worth(book[b].ticket, book'[b].status)

\* Any number of bets may be placed or decided in one step, the others stay.
Next == \A b \in Bets : book'[b] = book[b] \/ Placed(b) \/ Decided(b)

Spec == Init /\ [][Next]_book
=============================================================================

-------------------------------- MODULE Client --------------------------------
(***************************************************************************)
(* What adivento.js does to a page: the theme, the charts that follow it,  *)
(* tabs, a bottom sheet and a bet ticket.  One tab of a browser visits     *)
(* pages of layouts that were rendered with different themes.              *)
(*                                                                         *)
(* A script runs to its end, so a step is one event: a click, a timer, an  *)
(* animation frame.  An element that the script has made keeps its number. *)
(***************************************************************************)
EXTENDS Integers, FiniteSetsExt

CONSTANTS
    Rendered,     \* [Layouts -> Themes]: the data-theme that a layout was rendered with
    Tabs,         \* the tabs of one group; the panel of a tab has its name
    Prices,       \* the data-price of the ticket's boxes, in cents
    Amounts,      \* what may be typed as a stake
    MaxListeners, \* bound: chart listeners on a page
    MaxScrims     \* bound: scrims that a page makes

Themes == {"light", "dark"}
Layouts == DOMAIN Rendered
Scrims == 1 .. MaxScrims

ASSUME LayoutsAssumption == Rendered \in [Layouts -> Themes]
ASSUME TicketAssumption == Prices \subseteq 1 .. 100 /\ Amounts \subseteq Nat
ASSUME PageBoundsAssumption == MaxListeners \in Nat /\ MaxScrims \in Nat

VARIABLES
    saved,   \* localStorage["ds-theme"], or "none"
    theme,   \* the page's theme, in all the places that show it
    frames,  \* pending requestAnimationFrame callbacks: [outer, inner]
    tabs,    \* the active tab and the panels that are not hidden
    ticket,  \* the selected price, the stake, and the payout and profit on display
    sheet,   \* the bottom sheet and its scrims
    hasty    \* has the sheet been opened while a scrim of it was still on its way out?

clientVars == <<saved, theme, frames, tabs, ticket, sheet, hasty>>

Other(name) == IF name = "dark" THEN "light" ELSE "dark"

\* Math.round of a positive quotient.
Rounded(n, d) == (2 * n + d) \div (2 * d)

\* recalc: the payout of a stake at a price in cents, and the profit.
Calculated(price, stake) ==
    [price |-> price, stake |-> stake,
     payout |-> Rounded(100 * stake, price), profit |-> Rounded(100 * stake, price) - stake]

NoSheet == [shown |-> FALSE, scrim |-> 0, made |-> 0,
            visible |-> {}, leaving |-> [s \in Scrims |-> 0]]

\* theme.set on a page in state t: every place that shows the theme, the freeze of
\* transitions, and an event, on which each chart listener redraws and adds another.
Set(t, name) ==
    [shown |-> name, controls |-> name, colour |-> name, frozen |-> TRUE,
     drawn |-> IF t.listeners > 0 THEN name ELSE t.drawn, listeners |-> 2 * t.listeners]

\* Mutant: the controls are left as they were rendered, for a light page.
BootedUnsynced(layout) ==
    LET name == IF saved = "none" THEN Rendered[layout] ELSE saved
    IN  [shown |-> name, controls |-> IF saved = "none" THEN "light" ELSE name,
         colour |-> name, frozen |-> saved # "none", drawn |-> name, listeners |-> 1]

\* Adivento.init on a new page: a saved theme is set, or the rendered one shown on the
\* controls; then the charts are drawn and listen.
Booted(layout) ==
    LET name == IF saved = "none" THEN Rendered[layout] ELSE saved
    IN  [shown |-> name, controls |-> name, colour |-> name, frozen |-> saved # "none",
         drawn |-> name, listeners |-> 1]

FramesOf(t) == [outer |-> IF t.frozen THEN 1 ELSE 0, inner |-> 0]

ClientInit ==
    /\ saved = "none"
    /\ \E layout \in Layouts : theme = Booted(layout)
    /\ frames = [outer |-> 0, inner |-> 0]
    /\ tabs = [active |-> Min(Tabs), open |-> {Min(Tabs)}]
    /\ ticket = Calculated(Min(Prices), Max(Amounts))
    /\ sheet = NoSheet
    /\ hasty = FALSE

\* A click on a link, or a reload; what is saved is set again.
Visit(layout) ==
    /\ theme' = Booted(layout)
    /\ frames' = FramesOf(theme')
    /\ tabs' = [active |-> Min(Tabs), open |-> {Min(Tabs)}]
    /\ ticket' = Calculated(Min(Prices), Max(Amounts))
    /\ sheet' = NoSheet
    /\ hasty' = FALSE
    /\ UNCHANGED saved

\* A click on the toggle; localStorage may refuse the value.
Toggle ==
    LET name == Other(theme.shown)
    IN  /\ 2 * theme.listeners <= MaxListeners
        /\ theme' = Set(theme, name)
        /\ saved' \in {name, saved}
        /\ frames' = [frames EXCEPT !.outer = @ + 1]
        /\ UNCHANGED <<tabs, ticket, sheet, hasty>>

\* The browser paints a frame, before which the callbacks run; an outer one asks for an
\* inner one, which ends the freeze.
Frame ==
    /\ frames.outer + frames.inner > 0
    /\ frames' = [outer |-> 0, inner |-> frames.outer]
    /\ theme' = [theme EXCEPT !.frozen = @ /\ frames.inner = 0]
    /\ UNCHANGED <<saved, tabs, ticket, sheet, hasty>>

\* segments: a click on a tab.
ClickTab(tab) ==
    /\ tabs' = [active |-> tab, open |-> {tab}]
    /\ UNCHANGED <<saved, theme, frames, ticket, sheet, hasty>>

\* ticket: a price box is clicked; a stake is typed, or filled in by a button.
PickPrice(price) ==
    /\ ticket' = Calculated(price, ticket.stake)
    /\ UNCHANGED <<saved, theme, frames, tabs, sheet, hasty>>

EnterStake(amount) ==
    /\ ticket' = Calculated(ticket.price, amount)
    /\ UNCHANGED <<saved, theme, frames, tabs, sheet, hasty>>

\* sheet._toggle(id, true): a scrim is made unless the sheet has one.
Open ==
    /\ sheet.scrim = 0 => sheet.made < MaxScrims
    /\ sheet' = IF sheet.scrim # 0 THEN [sheet EXCEPT !.shown = TRUE]
                ELSE [sheet EXCEPT !.shown = TRUE, !.made = @ + 1, !.scrim = sheet.made + 1,
                                   !.visible = @ \cup {sheet.made + 1}]
    /\ hasty' = (hasty \/ \E s \in Scrims : sheet.leaving[s] > 0)
    /\ UNCHANGED <<saved, theme, frames, tabs, ticket>>

\* sheet._toggle(id, false), also by a click on a scrim: the scrim is hidden, and a timer
\* is started to remove it.
Close ==
    /\ sheet.shown \/ sheet.visible # {}
    /\ IF sheet.scrim = 0 THEN sheet' = [sheet EXCEPT !.shown = FALSE]
       ELSE /\ sheet.leaving[sheet.scrim] < 2
            /\ sheet' = [sheet EXCEPT !.shown = FALSE, !.visible = @ \ {sheet.scrim},
                                      !.leaving[sheet.scrim] = @ + 1]
    /\ UNCHANGED <<saved, theme, frames, tabs, ticket, hasty>>

\* Mutant: the sheet keeps its reference to the scrim.
RemoveScrimOnly(s) ==
    /\ sheet.leaving[s] > 0
    /\ sheet' = [sheet EXCEPT !.visible = @ \ {s}, !.leaving[s] = @ - 1]
    /\ UNCHANGED <<saved, theme, frames, tabs, ticket, hasty>>

\* The timer: its closure knows the scrim it removes, and forgets whatever the sheet has.
RemoveScrim(s) ==
    /\ sheet.leaving[s] > 0
    /\ sheet' = [sheet EXCEPT !.visible = @ \ {s}, !.leaving[s] = @ - 1, !.scrim = 0]
    /\ UNCHANGED <<saved, theme, frames, tabs, ticket, hasty>>

ClientNext ==
    \/ \E layout \in Layouts : Visit(layout)
    \/ Toggle
    \/ Frame
    \/ \E tab \in Tabs : ClickTab(tab)
    \/ \E price \in Prices : PickPrice(price)
    \/ \E amount \in Amounts : EnterStake(amount)
    \/ Open
    \/ Close
    \/ \E s \in Scrims : RemoveScrim(s)

----------------------------------------------------------------------------
(***************************************************************************)
(* Properties.                                                             *)
(***************************************************************************)

ClientTypeOK ==
    /\ saved \in Themes \cup {"none"}
    /\ theme \in [shown : Themes, controls : Themes, colour : Themes, drawn : Themes,
                  frozen : BOOLEAN, listeners : 1 .. MaxListeners]
    /\ frames \in [outer : Nat, inner : Nat]
    /\ tabs \in [active : Tabs, open : SUBSET Tabs]
    /\ ticket \in [price : Prices, stake : Amounts, payout : Nat, profit : Nat]
    /\ sheet \in [shown : BOOLEAN, scrim : Scrims \cup {0}, made : Scrims \cup {0},
                  visible : SUBSET Scrims, leaving : [Scrims -> 0 .. 2]]
    /\ hasty \in BOOLEAN

\* A page of any layout, after any clicks, reloads and refusals to save, shows one theme
\* everywhere, and its transitions are only frozen while a frame is due that ends this.
ThemeAgrees ==
    /\ {theme.controls, theme.colour, theme.drawn} = {theme.shown}
    /\ theme.frozen => frames.outer + frames.inner > 0

\* The scrim is there, and only one, exactly while the sheet is open: for those who do
\* not open the sheet again in the quarter of a second that a scrim takes to leave.
ScrimServesSheet ==
    ~hasty =>
        /\ sheet.visible = IF sheet.shown THEN {sheet.scrim} ELSE {}
        /\ sheet.shown => sheet.scrim # 0
=============================================================================

-------------------------------- MODULE MCEdge --------------------------------
(***************************************************************************)
(* Small instances of the parts at the edge for TLC.                       *)
(***************************************************************************)
EXTENDS Edge

\* One change of each kind.
OneOfEach ==
    [settlement |-> "settle", cancellation |-> "cancel", patch |-> "update",
     expiry |-> "close", bet |-> "place", void |-> "void", stake |-> "stake",
     trade |-> "trade", fill |-> "fill", order |-> "order", cashout |-> "silent"]

ChangeNames == DOMAIN OneOfEach

\* The application's two layouts.
TwoLayouts == [customer |-> "light", backoffice |-> "dark"]

TwoTabs == {1, 2}
TwoPrices == {46, 54}
TwoAmounts == {50, 100}

ThreeSections == <<"s", "t", "u">>

\* The second revision has another artboard in the place of one, and an order of its own.
TwoRevisions ==
    {[s |-> <<"a", "b">>, t |-> <<"c">>, u |-> <<"d">>],
     [s |-> <<"e", "a">>, t |-> <<"c">>, u |-> <<"d">>]}

ThreeSheets == 1 .. 3

\* Every document with three sheets that do not import themselves.
AllWebs ==
    [linked : SUBSET ThreeSheets \ {{}}, readable : SUBSET ThreeSheets,
     imports : {f \in [ThreeSheets -> SUBSET ThreeSheets] : \A s \in ThreeSheets : s \notin f[s]}]
=============================================================================

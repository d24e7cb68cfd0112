--------------------------------- MODULE Edge ---------------------------------
(***************************************************************************)
(* The parts at the edge of the system, which share no state: the market   *)
(* snapshots in Redis, the script of the pages, and the design canvas with *)
(* its view and its export.  A behaviour is one of one part; the others    *)
(* stay as they began.                                                     *)
(***************************************************************************)
EXTENDS HotStorage, Client, Canvas, Viewport, FontExport

VARIABLE part

edgeVars == <<part, hotVars, clientVars, canvasVars, viewVars, fontVars>>

Parts == {"hot", "client", "canvas", "view", "font"}

SomeRevision == CHOOSE revision \in Revisions : TRUE
SomeWeb == CHOOSE document \in Webs : TRUE

\* What a part may begin with is chosen for the part that runs only.
Init ==
    /\ part \in Parts
    /\ HotInit
    /\ ClientInit
    /\ CanvasInit
    /\ ViewInit
    /\ FontInit
    /\ part # "hot" => mechanism = "clob"
    /\ part # "client" => theme = Booted(CHOOSE layout \in Layouts : TRUE)
    /\ part # "canvas" => source = SomeRevision
    /\ part # "font" => web = SomeWeb

Next ==
    /\ UNCHANGED part
    /\ \/ part = "hot" /\ HotNext /\ UNCHANGED <<clientVars, canvasVars, viewVars, fontVars>>
       \/ part = "client" /\ ClientNext /\ UNCHANGED <<hotVars, canvasVars, viewVars, fontVars>>
       \/ part = "canvas" /\ CanvasNext /\ UNCHANGED <<hotVars, clientVars, viewVars, fontVars>>
       \/ part = "view" /\ ViewNext /\ UNCHANGED <<hotVars, clientVars, canvasVars, fontVars>>
       \/ part = "font" /\ FontNext /\ UNCHANGED <<hotVars, clientVars, canvasVars, viewVars>>

\* Only what happens to the snapshots has to go on for what is claimed of them.
Spec == Init /\ [][Next]_edgeVars /\ HotFairness

\* Every variable is of its type.
EdgeTypeOK ==
    /\ part \in Parts
    /\ HotTypeOK
    /\ ClientTypeOK
    /\ CanvasTypeOK
    /\ ViewTypeOK
    /\ FontTypeOK
=============================================================================

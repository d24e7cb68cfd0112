------------------------------- MODULE Viewport -------------------------------
(***************************************************************************)
(* DCViewport of the design canvas (design-canvas.jsx): the view that      *)
(* wheels, pinches and drags change, and the conversation with the host    *)
(* page about its scale.  The host is external: its toolbar shows the      *)
(* scale it was last told, is reset when the frame's load event fires, and *)
(* then asks whether there is a canvas.                                    *)
(***************************************************************************)
EXTENDS Integers, Sequences, FiniteSetsExt

CONSTANTS
    MinScale, MaxScale,  \* the limits of the scale, whose logarithm is counted here
    Unit,                \* the scale at which the world has its own size
    Pans,                \* where the view may be
    MaxPosts             \* bound: messages on their way, each way

ASSUME ScalesAssumption ==
    MinScale \in Nat \ {0} /\ MaxScale \in Nat /\ Unit \in MinScale .. MaxScale
ASSUME PansAssumption == 0 \in Pans /\ MaxPosts \in Nat

Scales == MinScale .. MaxScale

VARIABLES
    mounted,  \* is the canvas there?
    tf,       \* the transform: [pan, scale]
    posted,   \* lastPostedScale, 0 when undefined
    kept,     \* the view in localStorage, or NoView
    dirty,    \* is the timer running that will store the view?
    gesture,  \* gsBase while a pinch goes on, else 0
    dragging, \* is there a drag?
    loading,  \* is the frame's load event yet to come?
    readout,  \* the scale that the host shows
    toHost,   \* messages to the host, in order
    toCanvas  \* messages to the canvas, in order

viewVars == <<mounted, tf, posted, kept, dirty, gesture, dragging, loading, readout,
              toHost, toCanvas>>

NoView == [pan |-> 0, scale |-> 0]
Home == [pan |-> 0, scale |-> Unit]

\* Mutant: there is no least scale.
ClampedAbove(scale) == Min({MaxScale, scale})

Clamped(scale) == Min({MaxScale, Max({MinScale, scale})})

Zoom(scale) == [type |-> "__dc_zoom", scale |-> scale]
Present == [type |-> "__dc_present", scale |-> 0]
Probe == [type |-> "__dc_probe", scale |-> 0]
SetZoom(scale) == [type |-> "__dc_set_zoom", scale |-> scale]

ViewInit ==
    /\ mounted = FALSE
    /\ tf = Home
    /\ posted = 0
    /\ kept = NoView
    /\ dirty = FALSE
    /\ gesture = 0
    /\ dragging = FALSE
    /\ loading = TRUE
    /\ readout = Unit
    /\ toHost = <<>>
    /\ toCanvas = <<>>

\* apply: the host is told of a scale that it has not been told.
Apply(view, last) ==
    /\ tf' = view
    /\ posted' = view.scale
    /\ toHost' = IF last = view.scale THEN toHost ELSE Append(toHost, Zoom(view.scale))
    /\ dirty' = TRUE

Room == Len(toHost) < MaxPosts /\ Len(toCanvas) < MaxPosts

\* The view that the layout effect restores.
Restored == IF kept = NoView THEN Home ELSE [kept EXCEPT !.scale = Clamped(@)]

\* The layout effect restores the view; the effect announces the canvas and tells the
\* scale, again if it was restored.
Mount ==
    LET view == Restored
        restored == IF kept = NoView THEN <<>> ELSE <<Zoom(view.scale)>>
    IN  /\ ~mounted
        /\ Room
        /\ mounted' = TRUE
        /\ tf' = view
        /\ posted' = view.scale
        /\ toHost' = toHost \o restored \o <<Present, Zoom(view.scale)>>
        /\ dirty' = TRUE
        /\ gesture' = 0
        /\ dragging' = FALSE
        /\ UNCHANGED <<kept, loading, readout, toCanvas>>

\* pagehide flushes the view, which localStorage may refuse; a new document begins.
Unload ==
    /\ mounted
    /\ mounted' = FALSE
    /\ kept' \in {tf, kept}
    /\ dirty' = FALSE
    /\ loading' = TRUE
    /\ toCanvas' = <<>>
    /\ UNCHANGED <<tf, posted, gesture, dragging, readout, toHost>>

\* The 200 ms after the last apply are over.
Store ==
    /\ dirty
    /\ kept' \in {tf, kept}
    /\ dirty' = FALSE
    /\ UNCHANGED <<mounted, tf, posted, gesture, dragging, loading, readout, toHost, toCanvas>>

\* zoomAt: the point under the cursor stays, so a change of scale moves the view too.
ZoomTo(scale) ==
    \E pan \in Pans :
        /\ Clamped(scale) = tf.scale => pan = tf.pan
        /\ Apply([pan |-> pan, scale |-> Clamped(scale)], posted)

Elsewhere == <<mounted, kept, loading, readout, toCanvas>>

\* A wheel zooms or pans, but not during a pinch.
Wheel ==
    /\ mounted /\ Room /\ gesture = 0
    /\ \/ \E step \in {1, -1} : ZoomTo(tf.scale + step)
       \/ \E pan \in Pans : Apply([tf EXCEPT !.pan = pan], posted)
    /\ UNCHANGED <<Elsewhere, gesture, dragging>>

PinchStart ==
    /\ mounted
    /\ gesture' = tf.scale
    /\ UNCHANGED <<Elsewhere, tf, posted, dirty, dragging, toHost>>

PinchChange ==
    /\ mounted /\ Room /\ gesture # 0
    /\ \E step \in -MaxScale .. MaxScale : ZoomTo(gesture + step)
    /\ UNCHANGED <<Elsewhere, gesture, dragging>>

PinchEnd ==
    /\ mounted /\ gesture # 0
    /\ gesture' = 0
    /\ UNCHANGED <<Elsewhere, tf, posted, dirty, dragging, toHost>>

\* A pointer goes down on the background, moves, and goes up or is cancelled.
DragStart ==
    /\ mounted /\ ~dragging
    /\ dragging' = TRUE
    /\ UNCHANGED <<Elsewhere, tf, posted, dirty, gesture, toHost>>

DragMove ==
    /\ mounted /\ Room /\ dragging
    /\ \E pan \in Pans : Apply([tf EXCEPT !.pan = pan], posted)
    /\ UNCHANGED <<Elsewhere, gesture, dragging>>

DragEnd ==
    /\ mounted /\ dragging
    /\ dragging' = FALSE
    /\ UNCHANGED <<Elsewhere, tf, posted, dirty, gesture, toHost>>

\* Mutant: a probe is answered without forgetting what the host was told before.
AnswerBriefly(message) ==
    /\ message.type = "__dc_probe"
    /\ tf' = tf
    /\ posted' = tf.scale
    /\ toHost' = toHost \o (IF posted = tf.scale THEN <<Present>>
                            ELSE <<Present, Zoom(tf.scale)>>)
    /\ dirty' = TRUE

\* The canvas is there, and this is its scale, whatever the host was told before.
Answer(message) ==
    /\ message.type = "__dc_probe"
    /\ tf' = tf
    /\ posted' = tf.scale
    /\ toHost' = toHost \o <<Present, Zoom(tf.scale)>>
    /\ dirty' = TRUE

\* onHostMsg.
Hear ==
    /\ mounted /\ toCanvas # <<>>
    /\ toCanvas' = Tail(toCanvas)
    /\ LET message == Head(toCanvas)
       IN  \/ message.type = "__dc_set_zoom" /\ ZoomTo(message.scale)
           \/ Answer(message)
    /\ UNCHANGED <<mounted, kept, loading, readout, gesture, dragging>>

\* The host: its toolbar sends a scale, also one beyond the limits;
HostSetsZoom ==
    /\ mounted /\ Room
    /\ \E scale \in 0 .. MaxScale + 1 : toCanvas' = Append(toCanvas, SetZoom(scale))
    /\ UNCHANGED <<mounted, tf, posted, kept, dirty, gesture, dragging, loading, readout, toHost>>

\* the load event resets it, and it asks, maybe before anyone listens;
HostLoads ==
    /\ loading
    /\ loading' = FALSE
    /\ readout' = Unit
    /\ toCanvas' = IF mounted THEN Append(toCanvas, Probe) ELSE toCanvas
    /\ UNCHANGED <<mounted, tf, posted, kept, dirty, gesture, dragging, toHost>>

\* it takes in a message.
HostHears ==
    /\ toHost # <<>>
    /\ toHost' = Tail(toHost)
    /\ readout' = IF Head(toHost).type = "__dc_zoom" THEN Head(toHost).scale ELSE readout
    /\ UNCHANGED <<mounted, tf, posted, kept, dirty, gesture, dragging, loading, toCanvas>>

ViewNext ==
    \/ Mount \/ Unload \/ Store
    \/ Wheel
    \/ PinchStart \/ PinchChange \/ PinchEnd
    \/ DragStart \/ DragMove \/ DragEnd
    \/ Hear
    \/ HostSetsZoom \/ HostLoads \/ HostHears

----------------------------------------------------------------------------
(***************************************************************************)
(* Properties.                                                             *)
(***************************************************************************)

View == [pan : Pans, scale : Scales]
Message == [type : {"__dc_zoom", "__dc_present", "__dc_probe", "__dc_set_zoom"}, scale : Nat]

ViewTypeOK ==
    /\ mounted \in BOOLEAN
    /\ tf \in View
    /\ posted \in Scales \cup {0}
    /\ kept \in View \cup {NoView}
    /\ dirty \in BOOLEAN
    /\ gesture \in Scales \cup {0}
    /\ dragging \in BOOLEAN
    /\ loading \in BOOLEAN
    /\ readout \in Scales
    /\ toHost \in Seq(Message)
    /\ toCanvas \in Seq(Message)

\* Once the canvas and the host have nothing more to tell each other, the host's toolbar
\* shows the canvas's scale: whichever of a restored view, the load event with its reset,
\* a zoom by hand and a zoom from the toolbar came first.
HostAgrees ==
    mounted /\ ~loading /\ toHost = <<>> /\ toCanvas = <<>> => readout = tf.scale
=============================================================================

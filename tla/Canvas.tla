-------------------------------- MODULE Canvas --------------------------------
(***************************************************************************)
(* The design canvas of the wireframes (design-canvas.jsx): sections of    *)
(* artboards that a user reorders, deletes, renames and looks at one by    *)
(* one, and the file next to the page in which the arrangement is kept.    *)
(*                                                                         *)
(* A page shows one revision of the source; an agent may regenerate it     *)
(* between two visits.  A user's event, the render it causes and the       *)
(* effects of that render are one step, as React flushes them together.    *)
(***************************************************************************)
EXTENDS Integers, SequencesExt

CONSTANTS
    SectionOrder,   \* the sections, top to bottom
    Revisions,      \* what the source may be: [section -> the artboards, in order]
    MaxEdits        \* bound: edits in a run

Sections == Range(SectionOrder)
Artboards == UNION {Range(r[s]) : r \in Revisions, s \in Sections}

ASSUME RevisionsAssumption ==
    /\ IsInjective(SectionOrder)
    /\ \A r \in Revisions : DOMAIN r = Sections /\ \A s \in Sections : IsInjective(r[s])
ASSUME EditsAssumption == MaxEdits \in Nat

VARIABLES
    source,   \* the revision on the page
    visit,    \* the page: [up, ready, didRead]
    state,    \* [Sections -> what the user has changed], or what a read has brought
    focus,    \* the artboard in the overlay: <<section, artboard>>, or <<>>
    armed,    \* the artboard whose Delete has been clicked once, or <<>>
    moving,   \* the drag under way, or NoDrag
    settling, \* the drags dropped less than 180 ms ago
    timer,    \* what the pending write will write, or NoFile
    sidecar,  \* the contents of .design-canvas.state.json, or NoFile
    touched,  \* the sections changed since the page was loaded or has read the file
    lost,     \* has a read failed although there was a file?
    edits     \* how many edits there were

canvasVars == <<source, visit, state, focus, armed, moving, settling, timer, sidecar,
                touched, lost, edits>>

\* title stands for the renamed title and labels, key for the source's artboards when
\* artboards were last deleted.
Untouched == [order |-> <<>>, hidden |-> {}, key |-> <<>>, title |-> "given"]
NoFile == <<>>
NoDrag == [section |-> "", board |-> "", order |-> <<>>]

Empty == [s \in Sections |-> Untouched]

Dragging == moving.order # <<>>

\* sectionMeta: deletions apply to the source they were made in; a persisted order keeps
\* what is still there, and the rest follows in the source's order.
Hidden(kept, boards) == IF kept.key = boards THEN kept.hidden ELSE {}

\* Mutant: artboards of the persisted order are shown whether they are still there or not.
SlotsUnfiltered(kept, boards) ==
    kept.order \o SelectSeq(boards, LAMBDA k :
                                k \notin Hidden(kept, boards) /\ k \notin Range(kept.order))

Slots(kept, boards) ==
    LET there == SelectSeq(boards, LAMBDA k : k \notin Hidden(kept, boards))
        first == SelectSeq(kept.order, LAMBDA k : k \in Range(there))
    IN  first \o SelectSeq(there, LAMBDA k : k \notin Range(first))

Shown(s) == Slots(state[s], source[s])

Registry == {a \in Sections \X Artboards : a[2] \in Range(Shown(a[1]))}

CanvasInit ==
    /\ source \in Revisions
    /\ visit = [up |-> FALSE, ready |-> FALSE, didRead |-> FALSE]
    /\ state = Empty
    /\ focus = <<>>
    /\ armed = <<>>
    /\ moving = NoDrag
    /\ settling = {}
    /\ timer = NoFile
    /\ sidecar = NoFile
    /\ touched = {}
    /\ lost = FALSE
    /\ edits = 0

\* All that a page does not keep.
Clear ==
    /\ state' = Empty
    /\ focus' = <<>>
    /\ armed' = <<>>
    /\ moving' = NoDrag
    /\ settling' = {}
    /\ timer' = NoFile
    /\ touched' = {}

\* The page is loaded, with the source of the day.
Load ==
    /\ ~visit.up
    /\ source' \in Revisions
    /\ visit' = [up |-> TRUE, ready |-> FALSE, didRead |-> FALSE]
    /\ Clear
    /\ UNCHANGED <<sidecar, lost, edits>>

\* The page goes, and with it a write that is still waiting.
Leave ==
    /\ visit.up
    /\ visit' = [up |-> FALSE, ready |-> FALSE, didRead |-> FALSE]
    /\ Clear
    /\ UNCHANGED <<source, sidecar, lost, edits>>

\* 150 ms have passed and the read has not settled: the canvas is shown all the same.
ShowEarly ==
    /\ visit.up /\ ~visit.ready
    /\ visit' = [visit EXCEPT !.ready = TRUE]
    /\ UNCHANGED <<source, state, focus, armed, moving, settling, timer, sidecar, touched,
                   lost, edits>>

\* The read brings the file, which replaces what was changed so far; the write that
\* would follow this change is skipped.
ReadSaved ==
    /\ visit.up /\ ~visit.didRead
    /\ sidecar # NoFile
    /\ visit' = [visit EXCEPT !.ready = TRUE, !.didRead = TRUE]
    /\ state' = sidecar
    /\ touched' = {}
    /\ UNCHANGED <<source, focus, armed, moving, settling, timer, sidecar, lost, edits>>

\* There is no file, or it cannot be read: writing is allowed from now on.
ReadNothing ==
    /\ visit.up /\ ~visit.didRead
    /\ visit' = [visit EXCEPT !.ready = TRUE, !.didRead = TRUE]
    /\ lost' = (lost \/ sidecar # NoFile)
    /\ UNCHANGED <<source, state, focus, armed, moving, settling, timer, sidecar, touched,
                   edits>>

\* Mutant: writes do not wait for the read.
PatchUngated(s, kept) ==
    /\ edits < MaxEdits
    /\ edits' = edits + 1
    /\ state' = [state EXCEPT ![s] = kept]
    /\ touched' = touched \cup {s}
    /\ timer' = state'

\* patchSection, and the effect of the changed sections: a write in 250 ms that replaces
\* the one that is waiting.
Patch(s, kept) ==
    /\ edits < MaxEdits
    /\ edits' = edits + 1
    /\ state' = [state EXCEPT ![s] = kept]
    /\ touched' = touched \cup {s}
    /\ timer' = IF visit.didRead THEN state' ELSE timer

\* window.omelette.writeFile, which may fail or not be there.
Write ==
    /\ timer # NoFile
    /\ sidecar' \in {timer, sidecar}
    /\ timer' = NoFile
    /\ UNCHANGED <<source, visit, state, focus, armed, moving, settling, touched, lost, edits>>

\* Is the canvas in front of the user?
AtHand == visit.ready /\ focus \notin Registry

Rename(s) ==
    /\ AtHand /\ ~Dragging
    /\ Patch(s, [state[s] EXCEPT !.title = "edited"])
    /\ armed' = <<>>
    /\ UNCHANGED <<source, visit, focus, moving, settling, sidecar, lost>>

\* Delete in an artboard's menu: the first click arms it, the second deletes.
Arm(s, k) ==
    /\ AtHand /\ ~Dragging
    /\ <<s, k>> \in Registry /\ armed # <<s, k>>
    /\ armed' = <<s, k>>
    /\ UNCHANGED <<source, visit, state, focus, moving, settling, timer, sidecar, touched,
                   lost, edits>>

Delete(s, k) ==
    /\ AtHand /\ ~Dragging
    /\ <<s, k>> \in Registry /\ armed = <<s, k>>
    /\ Patch(s, [state[s] EXCEPT !.hidden = Hidden(state[s], source[s]) \cup {k},
                                 !.key = source[s]])
    /\ armed' = <<>>
    /\ UNCHANGED <<source, visit, focus, moving, settling, sidecar, lost>>

\* onGripDown: the drag works with the order at this moment.
Grip(s, k) ==
    /\ AtHand /\ ~Dragging
    /\ <<s, k>> \in Registry
    /\ moving' = [section |-> s, board |-> k, order |-> Shown(s)]
    /\ armed' = <<>>
    /\ UNCHANGED <<source, visit, state, focus, settling, timer, sidecar, touched, lost, edits>>

\* move and up: the artboard is dropped at a slot of that order.
Drop(slot) ==
    LET others == SelectSeq(moving.order, LAMBDA k : k # moving.board)
        dropped == InsertAt(others, slot, moving.board)
    IN  /\ Dragging
        /\ settling' = IF dropped = moving.order THEN settling
                       ELSE settling \cup {[section |-> moving.section, order |-> dropped]}
        /\ moving' = NoDrag
        /\ UNCHANGED <<source, visit, state, focus, armed, timer, sidecar, touched, lost, edits>>

\* The 180 ms are over: the order that was dropped is committed, whatever there is by now.
Reorder(drag) ==
    /\ settling' = settling \ {drag}
    /\ Patch(drag.section, [state[drag.section] EXCEPT !.order = drag.order])
    /\ UNCHANGED <<source, visit, focus, armed, moving, sidecar, lost>>

Focus(s, k) ==
    /\ AtHand /\ ~Dragging
    /\ <<s, k>> \in Registry
    /\ focus' = <<s, k>>
    /\ armed' = <<>>
    /\ UNCHANGED <<source, visit, state, moving, settling, timer, sidecar, touched, lost, edits>>

\* The left and right arrows: the neighbour in the section, round and round.
Neighbour(f, d) ==
    LET peers == Shown(f[1])
        idx == CHOOSE i \in 1 .. Len(peers) : peers[i] = f[2]
    IN  <<f[1], peers[((idx - 1 + d + Len(peers)) % Len(peers)) + 1]>>

\* The up and down arrows: the first artboard of the next section that has one.
SectionBy(f, d) ==
    LET n == Len(SectionOrder)
        at == CHOOSE i \in 1 .. n : SectionOrder[i] = f[1]
        Nth(i) == SectionOrder[((((at - 1 + d * i) % n) + n) % n) + 1]
        full == {i \in 1 .. n - 1 : Shown(Nth(i)) # <<>>}
        next == Nth(Min(full))
    IN  IF full = {} THEN f ELSE <<next, Head(Shown(next))>>

Arrow ==
    /\ visit.ready /\ focus \in Registry
    /\ \E d \in {1, -1} : focus' \in {Neighbour(focus, d), SectionBy(focus, d)}
    /\ UNCHANGED <<source, visit, state, armed, moving, settling, timer, sidecar, touched,
                   lost, edits>>

\* Escape, or a click beside the artboard.
Unfocus ==
    /\ visit.ready /\ focus # <<>>
    /\ focus' = <<>>
    /\ UNCHANGED <<source, visit, state, armed, moving, settling, timer, sidecar, touched,
                   lost, edits>>

CanvasNext ==
    \/ Load \/ Leave
    \/ ShowEarly \/ ReadSaved \/ ReadNothing
    \/ Write
    \/ \E s \in Sections :
           \/ Rename(s)
           \/ \E k \in Artboards : Arm(s, k) \/ Delete(s, k) \/ Grip(s, k) \/ Focus(s, k)
    \/ \E slot \in 1 .. Len(moving.order) : Drop(slot)
    \/ \E drag \in settling : Reorder(drag)
    \/ Arrow
    \/ Unfocus

----------------------------------------------------------------------------
(***************************************************************************)
(* Properties.                                                             *)
(***************************************************************************)

Arrangement == [Sections -> [order : Seq(Artboards), hidden : SUBSET Artboards,
                             key : Seq(Artboards), title : {"given", "edited"}]]

CanvasTypeOK ==
    /\ source \in Revisions
    /\ visit \in [up : BOOLEAN, ready : BOOLEAN, didRead : BOOLEAN]
    /\ state \in Arrangement
    /\ focus \in {<<>>} \cup (Sections \X Artboards)
    /\ armed \in {<<>>} \cup (Sections \X Artboards)
    /\ ~Dragging \/ moving \in [section : Sections, board : Artboards,
                                      order : Seq(Artboards)]
    /\ \A drag \in settling : drag \in [section : Sections, order : Seq(Artboards)]
    /\ timer = NoFile \/ timer \in Arrangement
    /\ sidecar = NoFile \/ sidecar \in Arrangement
    /\ touched \subseteq Sections
    /\ lost \in BOOLEAN
    /\ edits \in 0 .. MaxEdits

\* Whatever the order of a slow read, the early view, edits and writes, what is kept of a
\* section is only replaced on a visit that changed the section: as long as no read fails
\* with a file there.
UntouchedKept ==
    [][~lost /\ sidecar # NoFile =>
           \A s \in Sections : s \notin touched => sidecar'[s] = sidecar[s]]_canvasVars

\* Where the arrows lead from f, in any number of steps.
Around(f) ==
    LET step[n \in Nat] ==
            IF n = 0 THEN {f}
            ELSE LET before == step[n - 1]
                 IN  before \cup {Neighbour(g, d) : g \in before, d \in {1, -1}}
                            \cup {SectionBy(g, d) : g \in before, d \in {1, -1}}
    IN  step[Cardinality(Sections \X Artboards)]

\* Each artboard of the source that was not deleted from it is shown exactly once, also
\* when an order is committed that was dragged before a deletion or kept from another
\* source; and from any of them the arrows lead to all the others.
ArtboardsReachable ==
    /\ \A s \in Sections :
           /\ IsInjective(Shown(s))
           /\ Range(Shown(s)) = Range(source[s]) \ Hidden(state[s], source[s])
    /\ focus \in Registry => Around(focus) = Registry
=============================================================================

----------------------------- MODULE EdgeProofs -----------------------------
(***************************************************************************)
(* What holds of the parts at the edge for any values of their constants:  *)
(* the market snapshots in Redis, the script of the pages, the design      *)
(* canvas and its conversation with the host page.                         *)
(***************************************************************************)
EXTENDS Edge, FiniteSetTheorems, SequenceTheorems, TLAPS

----------------------------------------------------------------------------
(***************************************************************************)
(* Each part on its own.                                                   *)
(***************************************************************************)

HotSpec == HotInit /\ [][HotNext]_hotVars
ClientSpec == ClientInit /\ [][ClientNext]_clientVars
CanvasSpec == CanvasInit /\ [][CanvasNext]_canvasVars
ViewSpec == ViewInit /\ [][ViewNext]_viewVars
FontSpec == FontInit /\ [][FontNext]_fontVars

\* A behaviour of the edge is one of each of its parts.
LEMMA EachPart == Spec => HotSpec /\ ClientSpec /\ CanvasSpec /\ ViewSpec /\ FontSpec
<1>1. Init => HotInit /\ ClientInit /\ CanvasInit /\ ViewInit /\ FontInit
  BY DEF Init
<1>2. [Next]_edgeVars => [HotNext]_hotVars
  BY DEF Next, edgeVars
<1>3. [Next]_edgeVars => [ClientNext]_clientVars
  BY DEF Next, edgeVars
<1>4. [Next]_edgeVars => [CanvasNext]_canvasVars
  BY DEF Next, edgeVars
<1>5. [Next]_edgeVars => [ViewNext]_viewVars
  BY DEF Next, edgeVars
<1>6. [Next]_edgeVars => [FontNext]_fontVars
  BY DEF Next, edgeVars
<1>. QED
  BY <1>1, <1>2, <1>3, <1>4, <1>5, <1>6, PTL
     DEF Spec, HotSpec, ClientSpec, CanvasSpec, ViewSpec, FontSpec

----------------------------------------------------------------------------
(***************************************************************************)
(* The snapshots.                                                          *)
(*                                                                         *)
(* The claim about the snapshot and the rows is not inductive: a copy that *)
(* an actor holds becomes the snapshot later, and an open change becomes   *)
(* the rows.  What is: versions are drawn from the clock, by changes that  *)
(* hold the market's row, so there is one at a time; the snapshot agrees   *)
(* with the rows of its version, committed or about to be; and so does     *)
(* each copy under way, as far as it has been made.                        *)
(***************************************************************************)

SameColumns(x, r) == mechanism # "clob" => Promised(x.columns) = Promised(r.columns)

SameSums(x, r) == Promised(x.sums) = Promised(r.sums)

\* An open change that has drawn a version.
Drawing(c) == Pending(c) /\ Touches(c)

VersionsDrawn ==
    /\ row.version <= clock
    /\ \A a \in Actors : seen[a].version <= clock
    /\ snapshot # Nothing => snapshot.version <= clock

RowHeld == \A c \in Changes : Pending(c) /\ LocksRow(c) => keeper = c

\* The version that is drawn is later than the rows' and than any other actor's.
Ahead ==
    \A c \in Changes : Drawing(c) =>
        /\ row.version < seen[c].version
        /\ \A a \in Actors \ {c} : seen[a].version < seen[c].version

\* The copy of an open change has what the change will commit,
OwnCopies ==
    \A c \in Changes : Drawing(c) =>
        /\ at[c] \in {"sum", "write"} => SameColumns(seen[c], With(c))
        /\ at[c] = "write" => SameSums(seen[c], With(c))

\* any other copy what is committed,
CopiesFit ==
    \A a \in Actors : seen[a].version = row.version =>
        /\ at[a] \in {"compare", "sum", "write"} => SameColumns(seen[a], row)
        /\ at[a] = "write" => SameSums(seen[a], row)

\* and the snapshot the one or the other.
SnapshotFits ==
    snapshot # Nothing =>
        /\ snapshot.version = row.version =>
               SameColumns(snapshot, row) /\ SameSums(snapshot, row)
        /\ \A c \in Changes : Drawing(c) /\ snapshot.version = seen[c].version =>
               SameColumns(snapshot, With(c)) /\ SameSums(snapshot, With(c))

\* Who comes to a step.
Stages ==
    \A c \in Changes :
        /\ at[c] = "loaded" => mechanism = "clob"
        /\ at[c] = "load" => Afterwards(c)
        /\ at[c] \in {"sum", "write"} => Inside(c) \/ Afterwards(c)

HotInv ==
    /\ HotTypeOK
    /\ VersionsDrawn
    /\ RowHeld
    /\ Ahead
    /\ OwnCopies
    /\ CopiesFit
    /\ SnapshotFits
    /\ Stages

----------------------------------------------------------------------------

\* The kinds, one by one.
LEMMA EveryKind ==
    \A c \in Changes :
        KindOf[c] \in {"settle", "cancel", "update", "close", "place", "void", "silent",
                       "stake", "trade", "fill", "order"}
<1>1. Kinds = {"settle", "cancel", "update", "close", "place", "void", "silent", "stake",
               "trade", "fill", "order"}
  BY DEF Kinds, Common, Own, Mechanisms
<1> QED
  BY <1>1, KindsAssumption

\* A change that leaves updated_at alone adds nothing that a version promises.
LEMMA UntouchedAddNothing ==
    ASSUME NEW c \in Changes, ~Touches(c), NEW S
    PROVE  /\ Promised(S \cup InRow(c)) = Promised(S)
           /\ Promised(S \cup InTables(c)) = Promised(S)
<1>1. KindOf[c] \in {"stake", "close", "place", "order", "silent"}
  BY EveryKind DEF Touches
<1> QED
  BY <1>1 DEF Promised, InRow, InTables

\* One change at a time has drawn a version.
LEMMA OneDraws ==
    ASSUME RowHeld, NEW c \in Changes, NEW d \in Changes, Drawing(c), Pending(d), LocksRow(d)
    PROVE  c = d
  BY DEF RowHeld, Drawing, LocksRow

\* What c brings to the rows, as long as these stay and it keeps its version.
LEMMA WithKept ==
    ASSUME NEW c \in Changes, row' = row, seen'[c].version = seen[c].version
    PROVE  With(c)' = With(c)
  BY DEF With, InRow, InTables, Touches

\* At the beginning there are no copies.
LEMMA HotInitHolds == HotInit => HotInv
<1> SUFFICES ASSUME HotInit PROVE HotInv
  OBVIOUS
<1> USE DEF HotInit
<1>1. HotTypeOK
  BY DEF HotTypeOK, Copy, Blank, Actors
<1>2. VersionsDrawn
  BY DEF VersionsDrawn, Blank
<1>3. \A a \in Actors : at[a] = "start"
  OBVIOUS
<1>4. \A c \in Changes : ~Pending(c) /\ at[c] = "start"
  BY <1>3 DEF Pending, Actors
<1>5. RowHeld /\ Ahead /\ OwnCopies /\ Stages
  BY <1>4 DEF RowHeld, Ahead, OwnCopies, Stages, Drawing
<1>6. CopiesFit /\ SnapshotFits
  BY <1>3 DEF CopiesFit, SnapshotFits
<1> QED
  BY <1>1, <1>2, <1>5, <1>6 DEF HotInv

\* A step of one actor that leaves the rows alone: it goes on with its copy or with one of
\* the rows, or forgets it; and it may write it into the snapshot once it is made.
LEMMA ActorStepKeeps ==
    ASSUME NEW a \in Actors, NEW s \in Copy, NEW next, HotInv,
           next \in {"start", "loaded", "append", "commit", "load", "compare", "sum",
                     "write", "done"},
           UNCHANGED <<mechanism, row, clock>>,
           keeper' \in Changes \cup {Nothing},
           \A d \in Changes \ {a} : keeper = d => keeper' = d,
           seen' = [seen EXCEPT ![a] = s], at' = [at EXCEPT ![a] = next],
           snapshot' = snapshot \/ snapshot' = Nothing
               \/ (snapshot' = seen[a] /\ at[a] = "write"),
           s.version <= row.version \/ s.version = seen[a].version,
           Pending(a)' => Pending(a) /\ s.version = seen[a].version /\ keeper' = keeper,
           s.version = row.version =>
               /\ next \in {"compare", "sum", "write"} => SameColumns(s, row)
               /\ next = "write" => SameSums(s, row),
           a \in Changes /\ Drawing(a)' =>
               /\ next \in {"sum", "write"} => SameColumns(s, With(a))
               /\ next = "write" => SameSums(s, With(a)),
           a \in Changes /\ next = "loaded" => mechanism = "clob",
           a \in Changes /\ next = "load" => Afterwards(a),
           a \in Changes /\ next \in {"sum", "write"} => Inside(a) \/ Afterwards(a)
    PROVE  HotInv'
<1> USE DEF HotInv
<1>t. /\ row \in Copy /\ clock \in Nat /\ row.version \in Nat /\ s.version \in Nat
      /\ \A b \in Actors : seen[b] \in Copy /\ seen[b].version \in Nat
      /\ Changes \subseteq Actors
  BY DEF HotTypeOK, Copy, Actors
<1>a. seen'[a] = s /\ at'[a] = next
  BY DEF HotTypeOK
<1>b. \A b \in Actors \ {a} : seen'[b] = seen[b] /\ at'[b] = at[b]
  BY DEF HotTypeOK
<1>o. \A d \in Changes \ {a} : Pending(d)' <=> Pending(d)
  BY <1>b, <1>t DEF Pending, Inside
<1>d. \A d \in Changes : Drawing(d)' =>
          Drawing(d) /\ seen'[d].version = seen[d].version /\ With(d)' = With(d)
  <2> SUFFICES ASSUME NEW d \in Changes, Drawing(d)'
               PROVE  Drawing(d) /\ seen'[d].version = seen[d].version /\ With(d)' = With(d)
    OBVIOUS
  <2>1. Pending(d)' /\ Touches(d)
    BY DEF Drawing, Touches
  <2>2. Drawing(d) /\ seen'[d].version = seen[d].version
    BY <2>1, <1>a, <1>b, <1>o, <1>t DEF Drawing
  <2> QED
    BY <2>2, WithKept
<1>1. HotTypeOK'
  BY <1>t DEF HotTypeOK
<1>2. VersionsDrawn'
  BY <1>t, <1>a, <1>b DEF VersionsDrawn
<1>3. RowHeld'
  <2> SUFFICES ASSUME NEW d \in Changes, Pending(d)', LocksRow(d)
               PROVE  keeper' = d
    BY DEF RowHeld, LocksRow, Touches
  <2>1. Pending(d)
    BY <1>o
  <2> QED
    BY <2>1 DEF RowHeld
<1>4. Ahead'
  <2> SUFFICES ASSUME NEW d \in Changes, Drawing(d)'
               PROVE  /\ row.version < seen'[d].version
                      /\ \A b \in Actors \ {d} : seen'[b].version < seen'[d].version
    BY DEF Ahead
  <2>1. /\ row.version < seen[d].version
        /\ \A b \in Actors \ {d} : seen[b].version < seen[d].version
        /\ seen'[d].version = seen[d].version
    BY <1>d DEF Ahead
  <2>2. a # d => seen'[a].version < seen[d].version
    BY <2>1, <1>a, <1>t
  <2> QED
    BY <2>1, <2>2, <1>b
<1>5. OwnCopies'
  <2> SUFFICES ASSUME NEW d \in Changes, Drawing(d)'
               PROVE  /\ at'[d] \in {"sum", "write"} => SameColumns(seen'[d], With(d))
                      /\ at'[d] = "write" => SameSums(seen'[d], With(d))
    BY <1>d DEF OwnCopies, SameColumns, SameSums, Promised
  <2>1. CASE d = a
    BY <2>1, <1>a
  <2>2. CASE d # a
    BY <2>2, <1>b, <1>d, <1>t DEF OwnCopies
  <2> QED
    BY <2>1, <2>2
<1>6. CopiesFit'
  <2> SUFFICES ASSUME NEW b \in Actors, seen'[b].version = row.version
               PROVE  /\ at'[b] \in {"compare", "sum", "write"} => SameColumns(seen'[b], row)
                      /\ at'[b] = "write" => SameSums(seen'[b], row)
    BY DEF CopiesFit, SameColumns, SameSums, Promised
  <2>1. CASE b = a
    BY <2>1, <1>a
  <2>2. CASE b # a
    BY <2>2, <1>b DEF CopiesFit
  <2> QED
    BY <2>1, <2>2
<1>7. SnapshotFits'
  <2> SUFFICES ASSUME snapshot' # Nothing
               PROVE  /\ snapshot'.version = row.version =>
                             SameColumns(snapshot', row) /\ SameSums(snapshot', row)
                      /\ \A d \in Changes :
                             Drawing(d)' /\ snapshot'.version = seen'[d].version =>
                                 /\ SameColumns(snapshot', With(d))
                                 /\ SameSums(snapshot', With(d))
    BY <1>d DEF SnapshotFits, SameColumns, SameSums, Promised
  <2>1. CASE snapshot' = snapshot
    BY <2>1, <1>d DEF SnapshotFits
  <2>2. CASE snapshot' = seen[a] /\ at[a] = "write"
    <3>1. snapshot'.version = row.version =>
              SameColumns(snapshot', row) /\ SameSums(snapshot', row)
      BY <2>2 DEF CopiesFit
    <3> SUFFICES ASSUME NEW d \in Changes, Drawing(d)', snapshot'.version = seen'[d].version
                 PROVE  SameColumns(snapshot', With(d)) /\ SameSums(snapshot', With(d))
      BY <3>1
    <3>2. Drawing(d) /\ seen[a].version = seen[d].version
      BY <2>2, <1>d
    <3>3. d = a
      BY <3>2, <1>t DEF Ahead
    <3> QED
      BY <3>2, <3>3, <2>2 DEF OwnCopies
  <2> QED
    BY <2>1, <2>2
<1>8. Stages'
  <2> SUFFICES ASSUME NEW d \in Changes
               PROVE  /\ at'[d] = "loaded" => mechanism = "clob"
                      /\ at'[d] = "load" => Afterwards(d)
                      /\ at'[d] \in {"sum", "write"} => Inside(d) \/ Afterwards(d)
    BY DEF Stages, Inside, Afterwards
  <2> QED
    BY <1>a, <1>b, <1>t DEF Stages
<1> QED
  BY <1>1, <1>2, <1>3, <1>4, <1>5, <1>6, <1>7, <1>8

\* What is known of the actors and of their copies.
LEMMA ActorsTyped ==
    ASSUME HotInv
    PROVE  /\ Changes \subseteq Actors /\ Reconciler \in Actors \ Changes
           /\ \A a \in Actors : seen[a] \in Copy
           /\ Loaded \in Copy /\ Blank \in Copy
           /\ row \in Copy /\ clock \in Nat
  BY ActorsAssumption DEF HotInv, HotTypeOK, Copy, Actors, Loaded, Blank

\* An actor outside its transaction forgets its copy, if it has one, and has written it or
\* has not.
LEMMA ForgettingKeeps ==
    ASSUME NEW a \in Actors, NEW next \in {"start", "done"}, HotInv,
           UNCHANGED <<mechanism, row, clock>>,
           keeper' \in {keeper, Nothing}, keeper' # keeper => keeper = a,
           Forget(a), Step(a, next),
           snapshot' = snapshot \/ (snapshot' = seen[a] /\ at[a] = "write")
    PROVE  HotInv'
<1>1. Blank \in Copy /\ Blank.version <= row.version
  BY ActorsTyped DEF Blank, Copy
<1>2. at' = [at EXCEPT ![a] = next] /\ seen' = [seen EXCEPT ![a] = Blank]
  BY DEF Forget, Step
<1>3. at'[a] = next
  BY <1>2 DEF HotInv, HotTypeOK
<1>4. ~Pending(a)' /\ (a \in Changes => ~Drawing(a)')
  BY <1>3 DEF Pending, Drawing
<1>5. keeper' \in Changes \cup {Nothing} /\ \A d \in Changes \ {a} : keeper = d => keeper' = d
  BY DEF HotInv, HotTypeOK
<1> QED
  BY <1>1, <1>2, <1>4, <1>5, ActorStepKeeps

\* The market of a request, of the job, or of a projection is loaded: its columns are the
\* rows'.
LEMMA LoadingKeeps ==
    ASSUME NEW a \in Actors, NEW next \in {"loaded", "compare", "sum"}, HotInv,
           UNCHANGED <<mechanism, row, keeper, clock, snapshot>>,
           seen' = [seen EXCEPT ![a] = Loaded], Step(a, next),
           ~Pending(a)',
           a \in Changes /\ next = "loaded" => mechanism = "clob",
           a \in Changes /\ next = "sum" => Afterwards(a)
    PROVE  HotInv'
<1>1. Loaded \in Copy /\ Loaded.version = row.version /\ Loaded.columns = row.columns
  BY ActorsTyped DEF Loaded, Copy
<1>2. row.version \in Nat
  BY ActorsTyped DEF Copy
<1>3. at' = [at EXCEPT ![a] = next]
  BY DEF Step
<1>4. SameColumns(Loaded, row)
  BY <1>1 DEF SameColumns
<1>5. a \in Changes => ~Drawing(a)'
  BY DEF Drawing
<1>6. keeper' \in Changes \cup {Nothing} /\ \A d \in Changes \ {a} : keeper = d => keeper' = d
  BY DEF HotInv, HotTypeOK
<1>7. Loaded.version <= row.version
  BY <1>1, <1>2
<1> QED
  BY <1>1, <1>3, <1>4, <1>5, <1>6, <1>7, ActorStepKeeps

LEMMA LoadRequestKeeps ==
    ASSUME NEW c \in Changes, HotInv, LoadRequest(c)
    PROVE  HotInv'
<1>1. c \in Actors /\ at'[c] = "loaded"
  BY ActorsTyped DEF LoadRequest, Step, HotInv, HotTypeOK
<1>2. ~Pending(c)'
  BY <1>1 DEF Pending
<1> QED
  BY <1>1, <1>2, LoadingKeeps DEF LoadRequest

LEMMA ReconcileKeeps ==
    ASSUME HotInv, Reconcile
    PROVE  HotInv'
<1>1. Reconciler \in Actors \ Changes /\ at'[Reconciler] = "compare"
  BY ActorsTyped DEF Reconcile, Step, HotInv, HotTypeOK
<1>2. ~Pending(Reconciler)'
  BY <1>1 DEF Pending
<1> QED
  BY <1>1, <1>2, LoadingKeeps DEF Reconcile

LEMMA LoadMarketKeeps ==
    ASSUME NEW a \in Actors, HotInv, LoadMarket(a)
    PROVE  HotInv'
<1>1. at'[a] = "sum" /\ at[a] = "load"
  BY DEF LoadMarket, Step, HotInv, HotTypeOK
<1>2. a \in Changes => Afterwards(a)
  BY <1>1 DEF HotInv, Stages
<1>3. ~Inside(a)
  BY <1>2 DEF Inside, Afterwards
<1>4. ~Pending(a)'
  BY <1>1, <1>3 DEF Pending, Inside
<1> QED
  BY <1>1, <1>2, <1>4, LoadingKeeps DEF LoadMarket

\* A reader finds no snapshot.
LEMMA ReadKeeps ==
    ASSUME NEW a \in Actors, HotInv, Read(a)
    PROVE  HotInv'
<1>1. a \notin Changes /\ at' = [at EXCEPT ![a] = "load"] /\ at'[a] = "load"
  BY ActorsAssumption DEF Read, Step, HotInv, HotTypeOK
<1>2. seen' = [seen EXCEPT ![a] = seen[a]] /\ seen[a] \in Copy
  BY DEF Read, HotInv, HotTypeOK
<1>3. ~Pending(a)'
  BY <1>1 DEF Pending
<1>4. keeper' \in Changes \cup {Nothing} /\ UNCHANGED <<mechanism, row, keeper, clock, snapshot>>
  BY DEF Read, HotInv, HotTypeOK
<1> QED
  BY <1>1, <1>2, <1>3, <1>4, ActorStepKeeps

\* The job lets the snapshot be, or goes on with the copy it has.
LEMMA CompareKeeps ==
    ASSUME HotInv, Compare
    PROVE  HotInv'
<1>1. Reconciler \in Actors \ Changes /\ at[Reconciler] = "compare"
  BY ActorsTyped DEF Compare
<1>2. UNCHANGED <<mechanism, row, keeper, clock, snapshot>>
  BY DEF Compare
<1>3. CASE Step(Reconciler, "start") /\ Forget(Reconciler)
  BY <1>1, <1>2, <1>3, ForgettingKeeps
<1>4. CASE Step(Reconciler, "sum") /\ UNCHANGED seen
  <2>1. at' = [at EXCEPT ![Reconciler] = "sum"] /\ at'[Reconciler] = "sum"
    BY <1>1, <1>4 DEF Step, HotInv, HotTypeOK
  <2>2. seen' = [seen EXCEPT ![Reconciler] = seen[Reconciler]] /\ seen[Reconciler] \in Copy
    BY <1>1, <1>4 DEF HotInv, HotTypeOK
  <2>3. ~Pending(Reconciler)'
    BY <1>1, <2>1 DEF Pending, Inside
  <2>4. keeper' \in Changes \cup {Nothing}
    BY <1>2 DEF HotInv, HotTypeOK
  <2>5. seen[Reconciler].version = row.version => SameColumns(seen[Reconciler], row)
    BY <1>1 DEF HotInv, CopiesFit
  <2> QED
    BY <1>1, <1>2, <2>1, <2>2, <2>3, <2>4, <2>5, ActorStepKeeps
<1> QED
  BY <1>3, <1>4 DEF Compare

\* The sums are those of the rows, and what the open change of the actor adds.
LEMMA SumUpKeeps ==
    ASSUME NEW a \in Actors, HotInv, SumUp(a)
    PROVE  HotInv'
<1> DEFINE s == [seen[a] EXCEPT !.sums = row.sums \cup InTables(a)]
<1>1. at[a] = "sum" /\ at' = [at EXCEPT ![a] = "write"] /\ at'[a] = "write"
  BY DEF SumUp, Step, HotInv, HotTypeOK
<1>2. seen' = [seen EXCEPT ![a] = s]
  BY DEF SumUp, HotInv, HotTypeOK
<1>3. seen[a] \in Copy /\ row \in Copy
  BY ActorsTyped
<1>4. InTables(a) \subseteq Changes
  BY DEF InTables
<1>5. /\ s \in Copy /\ s.version = seen[a].version
      /\ s.columns = seen[a].columns /\ s.sums = row.sums \cup InTables(a)
  BY <1>3, <1>4 DEF Copy
<1> HIDE DEF s
<1>6. Pending(a)' => Pending(a)
  BY <1>1 DEF Pending, Inside
<1>7. s.version = row.version => SameColumns(s, row) /\ SameSums(s, row)
  <2> SUFFICES ASSUME s.version = row.version
               PROVE  SameColumns(s, row) /\ SameSums(s, row)
    OBVIOUS
  <2>1. SameColumns(s, row)
    BY <1>1, <1>5 DEF HotInv, CopiesFit, SameColumns
  <2>2. CASE a \notin Changes
    <3>1. InTables(a) = {}
      BY <2>2 DEF InTables
    <3>2. s.sums = row.sums
      BY <3>1, <1>5
    <3> QED
      BY <2>1, <3>2 DEF SameSums
  <2>3. CASE a \in Changes /\ ~Touches(a)
    <3>1. Promised(row.sums \cup InTables(a)) = Promised(row.sums)
      BY <2>3, UntouchedAddNothing
    <3> QED
      BY <2>1, <3>1, <1>5 DEF SameSums
  <2>4. CASE a \in Changes /\ Touches(a)
    <3>1. ~Inside(a)
      BY <2>4, <1>1, <1>3, <1>5 DEF HotInv, Ahead, Drawing, Pending, Copy
    <3>2. Afterwards(a)
      BY <2>4, <3>1, <1>1 DEF HotInv, Stages
    <3>3. InTables(a) = {}
      BY <2>4, <3>2 DEF Afterwards, Touches, InTables
    <3>4. s.sums = row.sums
      BY <3>3, <1>5
    <3> QED
      BY <2>1, <3>4 DEF SameSums
  <2> QED
    BY <2>2, <2>3, <2>4
<1>8. a \in Changes /\ Drawing(a)' => SameColumns(s, With(a)) /\ SameSums(s, With(a))
  <2> SUFFICES ASSUME a \in Changes, Drawing(a)'
               PROVE  SameColumns(s, With(a)) /\ SameSums(s, With(a))
    OBVIOUS
  <2>1. Drawing(a)
    BY <1>6 DEF Drawing, Touches
  <2>2. SameColumns(s, With(a))
    BY <2>1, <1>1, <1>5 DEF HotInv, OwnCopies, SameColumns
  <2> QED
    BY <2>2, <1>5 DEF SameSums, With
<1>9. /\ UNCHANGED <<mechanism, row, clock, keeper, snapshot>>
      /\ keeper' \in Changes \cup {Nothing}
  BY DEF SumUp, HotInv, HotTypeOK
<1>10. a \in Changes => Inside(a) \/ Afterwards(a)
  BY <1>1 DEF HotInv, Stages
<1> QED
  BY <1>1, <1>2, <1>5, <1>6, <1>7, <1>8, <1>9, <1>10, ActorStepKeeps

\* A snapshot is written within a transaction, or not at all,
LEMMA ProjectInsideKeeps ==
    ASSUME NEW c \in Changes, HotInv, ProjectInside(c)
    PROVE  HotInv'
<1>1. PICK next \in {"append", "commit"} : at' = [at EXCEPT ![c] = next]
  BY DEF ProjectInside, Step
<1>2. c \in Actors /\ seen[c] \in Copy /\ at[c] = "write" /\ Inside(c)
  BY ActorsTyped DEF ProjectInside
<1>3. seen' = [seen EXCEPT ![c] = seen[c]] /\ at'[c] = next
  BY <1>1, <1>2 DEF ProjectInside, HotInv, HotTypeOK
<1>4. Pending(c)
  BY <1>2 DEF Pending
<1>5. /\ UNCHANGED <<mechanism, row, clock, keeper>> /\ snapshot' \in {seen[c], snapshot}
      /\ keeper' \in Changes \cup {Nothing}
  BY DEF ProjectInside, HotInv, HotTypeOK
<1> QED
  BY <1>1, <1>2, <1>3, <1>4, <1>5, ActorStepKeeps

\* or outside of one; the copy is forgotten.
LEMMA WriteSnapshotKeeps ==
    ASSUME NEW a \in Actors, HotInv, WriteSnapshot(a)
    PROVE  HotInv'
<1>1. PICK next \in {"start", "done"} : Step(a, next)
  BY DEF WriteSnapshot
<1>2. at[a] = "write" /\ ~Inside(a) /\ Forget(a) /\ snapshot' \in {seen[a], snapshot}
      /\ UNCHANGED <<mechanism, row, clock, keeper>>
  BY DEF WriteSnapshot
<1> QED
  BY <1>1, <1>2, ForgettingKeeps

LEMMA AppendKeeps ==
    ASSUME NEW c \in Changes, HotInv, AppendEvent(c)
    PROVE  HotInv'
<1>1. c \in Actors /\ seen[c] \in Copy /\ at[c] = "append"
  BY ActorsTyped DEF AppendEvent
<1>2. /\ at' = [at EXCEPT ![c] = "commit"] /\ at'[c] = "commit"
      /\ seen' = [seen EXCEPT ![c] = seen[c]]
  BY <1>1 DEF AppendEvent, Step, HotInv, HotTypeOK
<1>3. Pending(c)
  BY <1>1 DEF Pending
<1>4. /\ UNCHANGED <<mechanism, row, clock, keeper, snapshot>>
      /\ keeper' \in Changes \cup {Nothing}
  BY DEF AppendEvent, HotInv, HotTypeOK
<1> QED
  BY <1>1, <1>2, <1>3, <1>4, ActorStepKeeps

\* An undone change leaves at most a snapshot of a version that no rows will have.
LEMMA UndoKeeps ==
    ASSUME NEW c \in Changes, HotInv, Undo(c)
    PROVE  HotInv'
<1>1. c \in Actors
  BY ActorsTyped
<1> QED
  BY <1>1, ForgettingKeeps DEF Undo

\* A snapshot that is gone says nothing.
LEMMA EvictKeeps ==
    ASSUME HotInv, Evict
    PROVE  HotInv'
<1>1. UNCHANGED <<mechanism, row, keeper, clock, at, seen>> /\ snapshot' = Nothing
  BY DEF Evict
<1>2. Reconciler \in Actors /\ seen[Reconciler] \in Copy
  BY ActorsTyped
<1> QED
  BY <1>1, <1>2 DEF HotInv, HotTypeOK, VersionsDrawn, RowHeld, Ahead, OwnCopies, CopiesFit,
     SnapshotFits, Stages, Drawing, Pending, With, SameColumns, SameSums, Promised, Inside,
     InRow, InTables, Afterwards, Touches, LocksRow

\* A committed change becomes the rows: with its version, the one that its copy and its
\* snapshot were made for; without, all that versions promise stays.
LEMMA CommitChangeKeeps ==
    ASSUME NEW c \in Changes, HotInv, CommitChange(c)
    PROVE  HotInv'
<1> USE DEF HotInv
<1>1. /\ Changes \subseteq Actors /\ Blank \in Copy /\ Blank.version = 0
      /\ \A a \in Actors : seen[a] \in Copy /\ seen[a].version \in Nat
      /\ row \in Copy /\ row.version \in Nat /\ clock \in Nat
  BY ActorsTyped DEF Blank, Copy
<1>2. PICK next \in {"load", "done"} :
          /\ next = "load" => Afterwards(c)
          /\ at' = [at EXCEPT ![c] = next] /\ at'[c] = next
  BY <1>1 DEF CommitChange, Step, HotTypeOK
<1>3. /\ at[c] = "commit" /\ Pending(c) /\ row' = With(c) /\ UNCHANGED <<mechanism, clock, snapshot>>
      /\ seen' = [seen EXCEPT ![c] = Blank] /\ seen'[c] = Blank
  BY <1>1 DEF CommitChange, Forget, Pending, HotTypeOK
<1>4. \A a \in Actors \ {c} : at'[a] = at[a] /\ seen'[a] = seen[a]
  BY <1>1, <1>2, <1>3 DEF HotTypeOK
<1>5. keeper' \in Changes \cup {Nothing} /\ \A d \in Changes \ {c} : keeper = d => keeper' = d
  BY DEF CommitChange, HotTypeOK
<1>6. ~Pending(c)' /\ \A d \in Changes \ {c} : Pending(d)' <=> Pending(d)
  BY <1>1, <1>2, <1>4 DEF Pending, Inside
<1>7. /\ row' \in Copy /\ row'.columns = row.columns \cup InRow(c)
      /\ row'.sums = row.sums \cup InTables(c)
      /\ row'.version = IF Touches(c) THEN seen[c].version ELSE row.version
  <2>1. InRow(c) \subseteq Changes /\ InTables(c) \subseteq Changes
    BY DEF InRow, InTables
  <2> QED
    BY <1>1, <1>3, <2>1 DEF With, Copy
<1>8. HotTypeOK'
  BY <1>1, <1>2, <1>3, <1>5, <1>7 DEF HotTypeOK
<1>9. VersionsDrawn'
  BY <1>1, <1>3, <1>4, <1>7 DEF VersionsDrawn
<1>10. RowHeld'
  BY <1>5, <1>6 DEF RowHeld, LocksRow, Touches
<1>11. Stages'
  BY <1>1, <1>2, <1>3, <1>4 DEF Stages, Inside, Afterwards
<1>12. CASE Touches(c)
  <2>1. Drawing(c) /\ row'.version = seen[c].version
    BY <1>3, <1>7, <1>12 DEF Drawing
  <2>2. \A d \in Changes : ~Drawing(d)'
    <3> SUFFICES ASSUME NEW d \in Changes, Drawing(d)' PROVE FALSE
      OBVIOUS
    <3>1. Touches(d) /\ Pending(d)'
      BY DEF Drawing, Touches
    <3>2. d # c /\ Pending(d)
      BY <3>1, <1>6
    <3> QED
      BY <2>1, <3>1, <3>2, OneDraws DEF LocksRow
  <2>3. Ahead' /\ OwnCopies'
    BY <2>2 DEF Ahead, OwnCopies
  <2>4. \A a \in Actors : at'[a] \in {"compare", "sum", "write"} => seen'[a].version # row'.version
    <3> SUFFICES ASSUME NEW a \in Actors, at'[a] \in {"compare", "sum", "write"}
                 PROVE  seen'[a].version # row'.version
      OBVIOUS
    <3>1. a # c
      BY <1>2
    <3>2. seen'[a].version < seen[c].version
      BY <3>1, <1>4, <2>1 DEF Ahead
    <3> QED
      BY <3>1, <3>2, <2>1, <1>1, <1>4
  <2>5. CopiesFit'
    BY <2>4 DEF CopiesFit
  <2>6. SnapshotFits'
    BY <2>1, <2>2, <1>3 DEF SnapshotFits, SameColumns, SameSums, Promised
  <2> QED
    BY <2>3, <2>5, <2>6, <1>8, <1>9, <1>10, <1>11
<1>13. CASE ~Touches(c)
  <2>1. /\ row'.version = row.version /\ Promised(row'.columns) = Promised(row.columns)
        /\ Promised(row'.sums) = Promised(row.sums)
    BY <1>7, <1>13, UntouchedAddNothing
  <2>2. \A d \in Changes :
            Drawing(d)' => d # c /\ Drawing(d) /\ seen'[d] = seen[d] /\ at'[d] = at[d]
    <3> SUFFICES ASSUME NEW d \in Changes, Drawing(d)'
                 PROVE  d # c /\ Drawing(d) /\ seen'[d] = seen[d] /\ at'[d] = at[d]
      OBVIOUS
    <3>1. Touches(d) /\ Pending(d)'
      BY DEF Drawing, Touches
    <3> QED
      BY <3>1, <1>1, <1>4, <1>6 DEF Drawing
  <2>3. \A d \in Changes :
            Drawing(d)' => /\ Promised(With(d)'.columns) = Promised(With(d).columns)
                           /\ Promised(With(d)'.sums) = Promised(With(d).sums)
    <3> SUFFICES ASSUME NEW d \in Changes
                 PROVE  /\ Promised(With(d)'.columns) = Promised(With(d).columns)
                        /\ Promised(With(d)'.sums) = Promised(With(d).sums)
      OBVIOUS
    <3>1. /\ With(d)'.columns = row'.columns \cup InRow(d)
          /\ With(d)'.sums = row'.sums \cup InTables(d)
          /\ With(d).columns = row.columns \cup InRow(d)
          /\ With(d).sums = row.sums \cup InTables(d)
      BY DEF With, InRow, InTables
    <3>2. \A S, T : Promised(S \cup T) = Promised(S) \cup Promised(T)
      BY DEF Promised
    <3>3. /\ Promised(With(d)'.columns) = Promised(row'.columns) \cup Promised(InRow(d))
          /\ Promised(With(d).columns) = Promised(row.columns) \cup Promised(InRow(d))
      BY <3>1, <3>2
    <3>4. /\ Promised(With(d)'.sums) = Promised(row'.sums) \cup Promised(InTables(d))
          /\ Promised(With(d).sums) = Promised(row.sums) \cup Promised(InTables(d))
      BY <3>1, <3>2
    <3> QED
      BY <2>1, <3>3, <3>4
  <2>4. Ahead'
    <3> SUFFICES ASSUME NEW d \in Changes, Drawing(d)'
                 PROVE  /\ row'.version < seen'[d].version
                        /\ \A a \in Actors \ {d} : seen'[a].version < seen'[d].version
      BY DEF Ahead
    <3>1. /\ row.version < seen[d].version /\ d # c /\ seen'[d] = seen[d]
          /\ \A a \in Actors \ {d} : seen[a].version < seen[d].version
      BY <2>2 DEF Ahead
    <3>2. seen'[c].version < seen[d].version
      BY <3>1, <1>1, <1>3
    <3> QED
      BY <3>1, <3>2, <2>1, <1>4
  <2>5. OwnCopies'
    <3> SUFFICES ASSUME NEW d \in Changes, Drawing(d)'
                 PROVE  /\ at'[d] \in {"sum", "write"} =>
                               (mechanism # "clob" =>
                                    Promised(seen'[d].columns) = Promised(With(d)'.columns))
                        /\ at'[d] = "write" => Promised(seen'[d].sums) = Promised(With(d)'.sums)
      BY <1>3 DEF OwnCopies, SameColumns, SameSums, Promised
    <3> QED
      BY <2>2, <2>3 DEF OwnCopies, SameColumns, SameSums
  <2>6. CopiesFit'
    <3> SUFFICES ASSUME NEW a \in Actors, seen'[a].version = row'.version
                 PROVE  /\ at'[a] \in {"compare", "sum", "write"} =>
                               (mechanism # "clob" =>
                                    Promised(seen'[a].columns) = Promised(row'.columns))
                        /\ at'[a] = "write" => Promised(seen'[a].sums) = Promised(row'.sums)
      BY <1>3 DEF CopiesFit, SameColumns, SameSums, Promised
    <3>1. CASE a = c
      BY <3>1, <1>2
    <3>2. CASE a # c
      BY <3>2, <1>4, <2>1 DEF CopiesFit, SameColumns, SameSums
    <3> QED
      BY <3>1, <3>2
  <2>7. SnapshotFits'
    <3> SUFFICES ASSUME snapshot # Nothing
                 PROVE  /\ snapshot.version = row'.version =>
                               /\ mechanism # "clob" =>
                                      Promised(snapshot.columns) = Promised(row'.columns)
                               /\ Promised(snapshot.sums) = Promised(row'.sums)
                        /\ \A d \in Changes :
                               Drawing(d)' /\ snapshot.version = seen'[d].version =>
                                   /\ mechanism # "clob" =>
                                          Promised(snapshot.columns) = Promised(With(d)'.columns)
                                   /\ Promised(snapshot.sums) = Promised(With(d)'.sums)
      BY <1>3 DEF SnapshotFits, SameColumns, SameSums, Promised
    <3>1. snapshot.version = row'.version =>
              /\ mechanism # "clob" => Promised(snapshot.columns) = Promised(row'.columns)
              /\ Promised(snapshot.sums) = Promised(row'.sums)
      BY <2>1 DEF SnapshotFits, SameColumns, SameSums
    <3> SUFFICES ASSUME NEW d \in Changes, Drawing(d)', snapshot.version = seen'[d].version
                 PROVE  /\ mechanism # "clob" =>
                               Promised(snapshot.columns) = Promised(With(d)'.columns)
                        /\ Promised(snapshot.sums) = Promised(With(d)'.sums)
      BY <3>1
    <3> QED
      BY <2>2, <2>3 DEF SnapshotFits, SameColumns, SameSums
  <2> QED
    BY <2>4, <2>5, <2>6, <2>7, <1>8, <1>9, <1>10, <1>11
<1> QED
  BY <1>12, <1>13

\* A begun change holds the rows and draws a version later than any, or changes nothing
\* that versions promise.
LEMMA BeginKeeps ==
    ASSUME NEW c \in Changes, HotInv, Begin(c)
    PROVE  HotInv'
<1> DEFINE base == IF Placement(c) THEN seen[c] ELSE Loaded
           s == [columns |-> base.columns \cup InRow(c), sums |-> {},
                 version |-> IF Touches(c) THEN clock' ELSE base.version]
           next == IF Inside(c) THEN "sum" ELSE "commit"
<1> USE DEF HotInv
<1>1. /\ Changes \subseteq Actors /\ Loaded \in Copy
      /\ Loaded.version = row.version /\ Loaded.columns = row.columns
      /\ \A a \in Actors : seen[a] \in Copy /\ seen[a].version \in Nat
      /\ row \in Copy /\ row.version \in Nat /\ clock \in Nat
  BY ActorsTyped DEF Loaded, Copy
<1>2. /\ clock' = (IF Touches(c) THEN clock + 1 ELSE clock) /\ clock' \in Nat /\ clock <= clock'
      /\ UNCHANGED <<mechanism, row, snapshot>>
  BY <1>1 DEF Begin
<1>3. seen' = [seen EXCEPT ![c] = s] /\ seen'[c] = s
  BY <1>1 DEF Begin, HotTypeOK
<1>4. at' = [at EXCEPT ![c] = next] /\ at'[c] = next
  BY <1>1 DEF Begin, Step, HotTypeOK
<1>5. \A a \in Actors \ {c} : at'[a] = at[a] /\ seen'[a] = seen[a]
  BY <1>1, <1>3, <1>4 DEF HotTypeOK
<1>6. /\ base \in Copy /\ base.version \in Nat
      /\ base.version = row.version \/ base.version = seen[c].version
      /\ Placement(c) => mechanism = "clob"
      /\ ~Placement(c) => base.columns = row.columns /\ base.version = row.version
  <2>1. Placement(c) => at[c] = "loaded"
    BY DEF Begin
  <2> QED
    BY <2>1, <1>1 DEF Stages
<1>7. /\ s \in Copy /\ s.version = (IF Touches(c) THEN clock' ELSE base.version)
      /\ s.columns = base.columns \cup InRow(c)
  BY <1>1, <1>2, <1>6 DEF Copy, InRow
<1> HIDE DEF s, base
<1>8. /\ LocksRow(c) => keeper = Nothing /\ keeper' = c
      /\ ~LocksRow(c) => keeper' = keeper
      /\ keeper' \in Changes \cup {Nothing}
  BY DEF Begin, HotTypeOK
<1>9. \A d \in Changes \ {c} : Pending(d)' <=> Pending(d)
  BY <1>1, <1>5 DEF Pending, Inside
<1>10. HotTypeOK'
  BY <1>1, <1>2, <1>3, <1>4, <1>7, <1>8 DEF HotTypeOK
<1>11. VersionsDrawn'
  <2>1. s.version <= clock'
    BY <1>1, <1>2, <1>6, <1>7 DEF VersionsDrawn
  <2>2. \A a \in Actors : seen'[a].version <= clock'
    BY <2>1, <1>1, <1>2, <1>3, <1>5 DEF VersionsDrawn
  <2>3. row'.version <= clock'
    BY <1>1, <1>2 DEF VersionsDrawn
  <2>4. snapshot # Nothing => snapshot.version <= clock'
    <3>1. snapshot # Nothing => snapshot.version \in Nat /\ snapshot.version <= clock
      BY DEF VersionsDrawn, HotTypeOK, Copy
    <3> QED
      BY <3>1, <1>1, <1>2
  <2> QED
    BY <2>2, <2>3, <2>4, <1>2 DEF VersionsDrawn
<1>12. RowHeld'
  <2> SUFFICES ASSUME NEW d \in Changes, Pending(d)', LocksRow(d)
               PROVE  keeper' = d
    BY DEF RowHeld, LocksRow, Touches
  <2>1. CASE d = c
    BY <2>1, <1>8
  <2>2. CASE d # c
    <3>1. keeper = d
      BY <2>2, <1>9 DEF RowHeld
    <3>2. ~LocksRow(c)
      BY <3>1, <1>8, ActorsAssumption
    <3> QED
      BY <3>1, <3>2, <1>8
  <2> QED
    BY <2>1, <2>2
<1>13. Stages'
  <2> SUFFICES ASSUME NEW d \in Changes
               PROVE  /\ at'[d] = "loaded" => mechanism = "clob"
                      /\ at'[d] = "load" => Afterwards(d)
                      /\ at'[d] \in {"sum", "write"} => Inside(d) \/ Afterwards(d)
    BY <1>2 DEF Stages, Inside, Afterwards
  <2> QED
    BY <1>1, <1>4, <1>5 DEF Stages
<1>14. CASE Touches(c)
  <2>1. /\ s.version = clock + 1
        /\ \A a \in Actors \ {c} : seen[a].version < s.version
        /\ row.version < s.version
    BY <1>1, <1>2, <1>7, <1>14 DEF VersionsDrawn
  <2>2. \A d \in Changes : Drawing(d)' => d = c
    <3> SUFFICES ASSUME NEW d \in Changes, Drawing(d)', d # c PROVE FALSE
      OBVIOUS
    <3>1. Touches(d) /\ Pending(d)
      BY <1>9 DEF Drawing, Touches
    <3> QED
      BY <3>1, <1>8, <1>14, ActorsAssumption DEF RowHeld, LocksRow
  <2>3. Ahead'
    BY <2>1, <2>2, <1>2, <1>3, <1>5 DEF Ahead
  <2>4. OwnCopies'
    <3>1. at'[c] # "write"
      BY <1>4
    <3>2. mechanism # "clob" => s.columns = row.columns \cup InRow(c)
      BY <1>6, <1>7
    <3>3. With(c)'.columns = row.columns \cup InRow(c)
      BY <1>2 DEF With, InRow
    <3>4. mechanism # "clob" => seen'[c].columns = With(c)'.columns
      BY <3>2, <3>3, <1>3
    <3>5. mechanism # "clob" => Promised(seen'[c].columns) = Promised(With(c)'.columns)
      BY <3>4
    <3> QED
      BY <2>2, <3>1, <3>5, <1>2 DEF OwnCopies, SameColumns, Promised
  <2>5. CopiesFit'
    <3> SUFFICES ASSUME NEW a \in Actors, seen'[a].version = row.version
                 PROVE  /\ at'[a] \in {"compare", "sum", "write"} => SameColumns(seen'[a], row)
                        /\ at'[a] = "write" => SameSums(seen'[a], row)
      BY <1>2 DEF CopiesFit, SameColumns, SameSums, Promised
    <3>1. a # c
      BY <2>1, <1>1, <1>3, <1>7
    <3> QED
      BY <3>1, <1>5 DEF CopiesFit
  <2>6. SnapshotFits'
    <3> SUFFICES ASSUME snapshot # Nothing
                 PROVE  /\ snapshot.version = row.version =>
                               SameColumns(snapshot, row) /\ SameSums(snapshot, row)
                        /\ \A d \in Changes :
                               ~(Drawing(d)' /\ snapshot.version = seen'[d].version)
      BY <1>2 DEF SnapshotFits, SameColumns, SameSums, Promised
    <3>1. snapshot.version \in Nat /\ snapshot.version <= clock
      BY DEF VersionsDrawn, HotTypeOK, Copy
    <3>2. snapshot.version # seen'[c].version
      BY <3>1, <2>1, <1>1, <1>3
    <3> QED
      BY <2>2, <3>2 DEF SnapshotFits
  <2> QED
    BY <2>3, <2>4, <2>5, <2>6, <1>10, <1>11, <1>12, <1>13
<1>15. CASE ~Touches(c)
  <2>1. s.version = base.version
    BY <1>7, <1>15
  <2>2. \A d \in Changes : Drawing(d)' =>
            d # c /\ Drawing(d) /\ seen'[d] = seen[d] /\ at'[d] = at[d] /\ With(d)' = With(d)
    <3> SUFFICES ASSUME NEW d \in Changes, Drawing(d)'
                 PROVE  /\ d # c /\ Drawing(d) /\ seen'[d] = seen[d] /\ at'[d] = at[d]
                        /\ With(d)' = With(d)
      OBVIOUS
    <3>1. Touches(d) /\ Pending(d)'
      BY DEF Drawing, Touches
    <3>2. d # c /\ seen'[d] = seen[d] /\ at'[d] = at[d]
      BY <3>1, <1>1, <1>5, <1>15
    <3> QED
      BY <3>1, <3>2, <1>2, <1>9, WithKept DEF Drawing
  <2>3. Ahead'
    <3> SUFFICES ASSUME NEW d \in Changes, Drawing(d)'
                 PROVE  /\ row.version < seen'[d].version
                        /\ \A a \in Actors \ {d} : seen'[a].version < seen'[d].version
      BY <1>2 DEF Ahead
    <3>1. /\ row.version < seen[d].version /\ d # c /\ seen'[d] = seen[d]
          /\ \A a \in Actors \ {d} : seen[a].version < seen[d].version
      BY <2>2 DEF Ahead
    <3>2. seen'[c].version < seen[d].version
      BY <3>1, <2>1, <1>1, <1>3, <1>6
    <3> QED
      BY <3>1, <3>2, <1>5
  <2>4. OwnCopies'
    <3> SUFFICES ASSUME NEW d \in Changes, Drawing(d)'
                 PROVE  /\ at'[d] \in {"sum", "write"} => SameColumns(seen'[d], With(d)')
                        /\ at'[d] = "write" => SameSums(seen'[d], With(d)')
      BY <1>2 DEF OwnCopies, SameColumns, SameSums, Promised
    <3> QED
      BY <2>2 DEF OwnCopies
  <2>5. CopiesFit'
    <3> SUFFICES ASSUME NEW a \in Actors, seen'[a].version = row.version
                 PROVE  /\ at'[a] \in {"compare", "sum", "write"} => SameColumns(seen'[a], row)
                        /\ at'[a] = "write" => SameSums(seen'[a], row)
      BY <1>2 DEF CopiesFit, SameColumns, SameSums, Promised
    <3>1. CASE a # c
      BY <3>1, <1>5 DEF CopiesFit
    <3>2. CASE a = c
      <4>1. at'[a] # "write"
        BY <3>2, <1>4
      <4>2. mechanism # "clob" => s.columns = row.columns \cup InRow(c)
        BY <1>6, <1>7
      <4>3. SameColumns(s, row)
        BY <4>2, <1>15, UntouchedAddNothing DEF SameColumns
      <4> QED
        BY <3>2, <4>1, <4>3, <1>3
    <3> QED
      BY <3>1, <3>2
  <2>6. SnapshotFits'
    <3> SUFFICES ASSUME snapshot # Nothing
                 PROVE  /\ snapshot.version = row.version =>
                               SameColumns(snapshot, row) /\ SameSums(snapshot, row)
                        /\ \A d \in Changes :
                               Drawing(d)' /\ snapshot.version = seen'[d].version =>
                                   SameColumns(snapshot, With(d)') /\ SameSums(snapshot, With(d)')
      BY <1>2 DEF SnapshotFits, SameColumns, SameSums, Promised
    <3> QED
      BY <2>2 DEF SnapshotFits
  <2> QED
    BY <2>3, <2>4, <2>5, <2>6, <1>10, <1>11, <1>12, <1>13
<1> QED
  BY <1>14, <1>15

LEMMA HotStepKeeps ==
    ASSUME HotInv, [HotNext]_hotVars
    PROVE  HotInv'
<1>1. CASE \E c \in Changes :
               \/ LoadRequest(c) \/ Begin(c) \/ ProjectInside(c) \/ AppendEvent(c)
               \/ CommitChange(c) \/ Undo(c)
  BY <1>1, LoadRequestKeeps, BeginKeeps, ProjectInsideKeeps, AppendKeeps, CommitChangeKeeps,
     UndoKeeps
<1>2. CASE \E a \in Actors : Read(a) \/ LoadMarket(a) \/ SumUp(a) \/ WriteSnapshot(a)
  BY <1>2, ReadKeeps, LoadMarketKeeps, SumUpKeeps, WriteSnapshotKeeps
<1>3. CASE Reconcile \/ Compare \/ Evict
  BY <1>3, ReconcileKeeps, CompareKeeps, EvictKeeps
<1>4. CASE UNCHANGED hotVars
  BY <1>4 DEF hotVars, HotInv, HotTypeOK, VersionsDrawn, RowHeld, Ahead, OwnCopies,
     CopiesFit, SnapshotFits, Stages, Drawing, Pending, With, SameColumns, SameSums, Promised,
     Inside, InRow, InTables, Afterwards, Touches, LocksRow
<1> QED
  BY <1>1, <1>2, <1>3, <1>4 DEF HotNext

\* The types of the rows, the snapshot and the copies in between, for any number of
\* services, readers and changes (MarketSnapshotProjector, MarketSnapshotReader).
THEOREM HotTyped == Spec => []HotTypeOK
<1>1. HotInv => HotTypeOK
  BY DEF HotInv
<1> QED
  BY <1>1, HotInitHolds, HotStepKeeps, EachPart, PTL DEF HotSpec

\* The reconciliation job may skip a snapshot whose version is that of the market
\* (reconcile_market_hot_state_job.rb:28) without missing a void, a settlement, a
\* cancellation, an update, a trade or a fill, however late, torn or abandoned the writes to
\* Redis were; in an order book this is said of what the projector queries, for a placement
\* projects the columns that its request loaded.  What leaves updated_at alone, such as a
\* stake, it may miss.
THEOREM VersionsAlwaysIdentify == Spec => []VersionsIdentify
<1>1. HotInv => VersionsIdentify
  BY DEF HotInv, SnapshotFits, VersionsIdentify, SameColumns, SameSums
<1> QED
  BY <1>1, HotInitHolds, HotStepKeeps, EachPart, PTL DEF HotSpec

----------------------------------------------------------------------------
(***************************************************************************)
(* The theme of a page.                                                    *)
(***************************************************************************)

PageTheme == [shown : Themes, controls : Themes, colour : Themes, drawn : Themes,
              frozen : BOOLEAN, listeners : Nat \ {0}]

ThemeInv ==
    /\ saved \in Themes \cup {"none"}
    /\ theme \in PageTheme
    /\ frames \in [outer : Nat, inner : Nat]
    /\ ThemeAgrees

LEMMA BootedAgrees ==
    ASSUME saved \in Themes \cup {"none"}, NEW layout \in Layouts,
           NEW t, t = Booted(layout), NEW f, f = FramesOf(t)
    PROVE  /\ t \in PageTheme
           /\ t.controls = t.shown /\ t.colour = t.shown /\ t.drawn = t.shown
           /\ f \in [outer : Nat, inner : Nat]
           /\ t.frozen => f.outer + f.inner > 0
<1>1. PICK name \in Themes : name = IF saved = "none" THEN Rendered[layout] ELSE saved
  BY LayoutsAssumption DEF Layouts
<1>2. PICK still \in BOOLEAN : still <=> saved # "none"
  OBVIOUS
<1>3. t = [shown |-> name, controls |-> name, colour |-> name, frozen |-> still,
           drawn |-> name, listeners |-> 1]
  BY <1>1, <1>2 DEF Booted
<1>4. t \in PageTheme
  BY <1>3 DEF PageTheme
<1>5. /\ f = [outer |-> IF t.frozen THEN 1 ELSE 0, inner |-> 0]
      /\ f \in [outer : Nat, inner : Nat]
  BY DEF FramesOf
<1>. QED
  BY <1>3, <1>4, <1>5

LEMMA ThemeInit == ClientInit => ThemeInv
<1> SUFFICES ASSUME ClientInit PROVE ThemeInv
  OBVIOUS
<1>1. saved = "none" /\ frames = [outer |-> 0, inner |-> 0]
  BY DEF ClientInit
<1>2. PICK layout \in Layouts : theme = Booted(layout)
  BY DEF ClientInit
<1>3. /\ theme \in PageTheme
      /\ theme.controls = theme.shown /\ theme.colour = theme.shown
      /\ theme.drawn = theme.shown
  BY <1>1, <1>2, BootedAgrees
<1>4. ~theme.frozen
  BY <1>1, <1>2 DEF Booted
<1>. QED
  BY <1>1, <1>3, <1>4 DEF ThemeInv, ThemeAgrees

LEMMA ThemeNext == ThemeInv /\ [ClientNext]_clientVars => ThemeInv'
<1> SUFFICES ASSUME ThemeInv, [ClientNext]_clientVars PROVE ThemeInv'
  OBVIOUS
<1>1. CASE UNCHANGED <<saved, theme, frames>>
  BY <1>1 DEF ThemeInv, ThemeAgrees
<1>2. ASSUME NEW layout \in Layouts, Visit(layout) PROVE ThemeInv'
  <2>1. saved' = saved /\ theme' = Booted(layout) /\ frames' = FramesOf(theme')
    BY <1>2 DEF Visit
  <2>2. PICK t, f : t = theme' /\ f = frames'
    OBVIOUS
  <2>3. saved \in Themes \cup {"none"}
    BY DEF ThemeInv
  <2>4. /\ t \in PageTheme
        /\ t.controls = t.shown /\ t.colour = t.shown /\ t.drawn = t.shown
        /\ f \in [outer : Nat, inner : Nat]
        /\ t.frozen => f.outer + f.inner > 0
    BY <2>1, <2>2, <2>3, BootedAgrees
  <2>. QED
    BY <2>1, <2>2, <2>3, <2>4 DEF ThemeInv, ThemeAgrees
<1>3. CASE Toggle
  <2>1. PICK name \in Themes : name = Other(theme.shown)
    BY DEF Other, Themes
  <2>2. /\ theme' = Set(theme, name) /\ saved' \in {name, saved}
        /\ frames' = [frames EXCEPT !.outer = @ + 1]
    BY <1>3, <2>1 DEF Toggle
  <2>3. saved' \in Themes \cup {"none"}
    BY <2>1, <2>2 DEF ThemeInv
  <2>4. PICK n \in Nat \ {0} : n = theme.listeners
    BY DEF ThemeInv, PageTheme
  <2>5. theme' = [shown |-> name, controls |-> name, colour |-> name, frozen |-> TRUE,
                  drawn |-> name, listeners |-> 2 * n]
    <3>1. PICK t : t = theme
      OBVIOUS
    <3>2. t.listeners > 0 /\ t.listeners = n
      BY <2>4, <3>1
    <3>3. Set(t, name) = [shown |-> name, controls |-> name, colour |-> name, frozen |-> TRUE,
                          drawn |-> name, listeners |-> 2 * n]
      BY <3>2 DEF Set
    <3>. QED
      BY <2>2, <3>1, <3>3
  <2>6. theme' \in PageTheme
    BY <2>5 DEF PageTheme
  <2>7. frames' \in [outer : Nat, inner : Nat] /\ frames'.outer + frames'.inner > 0
    BY <2>2 DEF ThemeInv
  <2>. QED
    BY <2>3, <2>5, <2>6, <2>7 DEF ThemeInv, ThemeAgrees
<1>4. CASE Frame
  <2>1. PICK m \in Nat, n \in Nat : m = frames.outer /\ n = frames.inner
    BY DEF ThemeInv
  <2>2. PICK still \in BOOLEAN : still <=> theme.frozen /\ n = 0
    OBVIOUS
  <2>3. /\ m + n > 0 /\ frames' = [outer |-> 0, inner |-> m] /\ saved' = saved
        /\ theme' = [theme EXCEPT !.frozen = still]
    BY <1>4, <2>1, <2>2 DEF Frame
  <2>4. /\ theme' \in PageTheme
        /\ theme'.shown = theme.shown /\ theme'.controls = theme.controls
        /\ theme'.colour = theme.colour /\ theme'.drawn = theme.drawn
        /\ theme'.frozen <=> still
    BY <2>3 DEF ThemeInv, PageTheme
  <2>5. frames' \in [outer : Nat, inner : Nat]
    BY <2>3
  <2>6. theme'.frozen => frames'.outer + frames'.inner > 0
    BY <2>2, <2>3, <2>4
  <2>7. {theme'.controls, theme'.colour, theme'.drawn} = {theme'.shown}
    BY <2>4 DEF ThemeInv, ThemeAgrees
  <2>. QED
    BY <2>3, <2>4, <2>5, <2>6, <2>7 DEF ThemeInv, ThemeAgrees
<1>. QED
  BY <1>1, <1>2, <1>3, <1>4
     DEF ClientNext, clientVars, ClickTab, PickPrice, EnterStake, Open, Close, RemoveScrim

\* Whatever layouts are visited, however often the theme is toggled and whether or not
\* the browser keeps it, a page shows one theme everywhere, and its transitions are only
\* frozen while a frame is due that ends this (adivento.js).
THEOREM PagesShowOneTheme == Spec => []ThemeAgrees
<1>1. ThemeInv => ThemeAgrees
  BY DEF ThemeInv
<1>. QED
  BY <1>1, ThemeInit, ThemeNext, EachPart, PTL DEF ClientSpec

----------------------------------------------------------------------------
(***************************************************************************)
(* The bottom sheet.                                                       *)
(***************************************************************************)

\* While nobody is hasty an open sheet has a scrim and none on its way out, and a closed
\* one at most the scrim that it will forget.
SheetInv ==
    /\ hasty \in BOOLEAN
    /\ sheet \in [shown : BOOLEAN, scrim : Scrims \cup {0}, made : Scrims \cup {0},
                  visible : SUBSET Scrims, leaving : [Scrims -> Nat]]
    /\ ~hasty =>
          /\ sheet.shown => /\ sheet.scrim # 0 /\ sheet.visible = {sheet.scrim}
                            /\ \A s \in Scrims : sheet.leaving[s] = 0
          /\ ~sheet.shown => /\ sheet.visible = {}
                             /\ sheet.scrim # 0 => sheet.leaving[sheet.scrim] > 0

LEMMA NoSheetInv ==
    ASSUME sheet' = NoSheet, hasty' = FALSE
    PROVE  SheetInv'
  BY DEF SheetInv, NoSheet

LEMMA SheetInit == ClientInit => SheetInv
<1> SUFFICES ASSUME ClientInit PROVE SheetInv
  OBVIOUS
<1>1. sheet = NoSheet /\ hasty = FALSE
  BY DEF ClientInit
<1>2. [s \in Scrims |-> 0] \in [Scrims -> Nat]
  OBVIOUS
<1>. QED
  BY <1>1, <1>2 DEF SheetInv, NoSheet

LEMMA NotHasty ==
    ASSUME SheetInv, Open
    PROVE  ~hasty' => ~hasty /\ \A s \in Scrims : sheet.leaving[s] = 0
<1>1. hasty' = (hasty \/ \E s \in Scrims : sheet.leaving[s] > 0)
  BY DEF Open
<1>2. ~hasty' => ~hasty /\ ~\E s \in Scrims : sheet.leaving[s] > 0
  BY <1>1, Zenon
<1>3. \A s \in Scrims : sheet.leaving[s] \in Nat
  BY DEF SheetInv
<1>. QED
  BY <1>2, <1>3

LEMMA SheetNext == SheetInv /\ [ClientNext]_clientVars => SheetInv'
<1> SUFFICES ASSUME SheetInv, [ClientNext]_clientVars PROVE SheetInv'
  OBVIOUS
<1> DEFINE Sheet == [shown : BOOLEAN, scrim : Scrims \cup {0}, made : Scrims \cup {0},
                     visible : SUBSET Scrims, leaving : [Scrims -> Nat]]
<1>1. CASE UNCHANGED <<sheet, hasty>>
  BY <1>1 DEF SheetInv
<1>2. ASSUME NEW layout \in Layouts, Visit(layout) PROVE SheetInv'
  BY <1>2, NoSheetInv DEF Visit
<1>3. CASE Open
  <2>1. hasty' \in BOOLEAN
    BY <1>3 DEF Open
  <2>2. CASE sheet.scrim # 0
    <3>1. sheet' = [sheet EXCEPT !.shown = TRUE]
      BY <1>3, <2>2 DEF Open
    <3>2. sheet' \in Sheet
      BY <3>1 DEF SheetInv
    <3>3. ~hasty' => ~hasty /\ \A s \in Scrims : sheet.leaving[s] = 0
      BY <1>3, NotHasty
    <3>. QED
      BY <2>1, <2>2, <3>1, <3>2, <3>3 DEF SheetInv
  <2>3. CASE sheet.scrim = 0
    <3>1. PICK n \in Scrims : n = sheet.made + 1
      BY <1>3, <2>3, PageBoundsAssumption DEF Open, SheetInv, Scrims
    <3>2. sheet' = [sheet EXCEPT !.shown = TRUE, !.made = n, !.scrim = n,
                                 !.visible = sheet.visible \cup {n}]
      BY <1>3, <2>3, <3>1 DEF Open, SheetInv
    <3>3. /\ sheet' \in Sheet /\ sheet'.shown /\ sheet'.scrim = n
          /\ sheet'.visible = sheet.visible \cup {n} /\ sheet'.leaving = sheet.leaving
      BY <3>2 DEF SheetInv
    <3>4. ~hasty' => ~hasty /\ \A s \in Scrims : sheet.leaving[s] = 0
      BY <1>3, NotHasty
    <3>5. ~hasty' => sheet.visible = {}
      BY <2>3, <3>4 DEF SheetInv
    <3>6. n # 0
      BY <3>1 DEF Scrims
    <3>. QED
      BY <2>1, <3>3, <3>4, <3>5, <3>6 DEF SheetInv
  <2>. QED
    BY <2>2, <2>3
<1>4. CASE Close
  <2>1. hasty' = hasty /\ (sheet.shown \/ sheet.visible # {})
    BY <1>4 DEF Close
  <2>2. CASE sheet.scrim = 0
    <3>1. sheet' = [sheet EXCEPT !.shown = FALSE]
      BY <1>4, <2>2 DEF Close
    <3>2. sheet' \in Sheet
      BY <3>1 DEF SheetInv
    <3>. QED
      BY <2>1, <2>2, <3>1, <3>2 DEF SheetInv
  <2>3. CASE sheet.scrim # 0
    <3>1. PICK n \in Scrims : n = sheet.scrim
      BY <2>3 DEF SheetInv
    <3>2. PICK k \in Nat : k = sheet.leaving[n]
      BY DEF SheetInv
    <3>3. PICK left \in [Scrims -> Nat] : left = [sheet.leaving EXCEPT ![n] = k + 1]
      <4>1. PICK f \in [Scrims -> Nat] : f = sheet.leaving
        BY DEF SheetInv
      <4>2. [f EXCEPT ![n] = k + 1] \in [Scrims -> Nat]
        BY <4>1
      <4>. QED
        BY <4>1, <4>2
    <3>4. sheet' = [sheet EXCEPT !.shown = FALSE, !.visible = sheet.visible \ {n},
                                 !.leaving = left]
      BY <1>4, <2>3, <3>1, <3>2, <3>3 DEF Close, SheetInv
    <3>5. /\ sheet' \in Sheet /\ ~sheet'.shown /\ sheet'.scrim = n
          /\ sheet'.visible = sheet.visible \ {n} /\ sheet'.leaving = left
      BY <3>1, <3>4 DEF SheetInv
    <3>6. left[n] > 0
      BY <3>3 DEF SheetInv
    <3>7. ~hasty => sheet.visible \ {n} = {}
      BY <2>1, <3>1 DEF SheetInv
    <3>. QED
      BY <2>1, <3>5, <3>6, <3>7 DEF SheetInv
  <2>. QED
    BY <2>2, <2>3
<1>5. ASSUME NEW n \in Scrims, RemoveScrim(n) PROVE SheetInv'
  <2>1. hasty' = hasty /\ sheet.leaving[n] > 0
    BY <1>5 DEF RemoveScrim
  <2>2. PICK k \in Nat : k = sheet.leaving[n]
    BY DEF SheetInv
  <2>3. PICK left \in [Scrims -> Nat] : left = [sheet.leaving EXCEPT ![n] = k - 1]
    <3>1. k - 1 \in Nat
      BY <2>1, <2>2
    <3>. QED
      BY <3>1 DEF SheetInv
  <2>4. sheet' = [sheet EXCEPT !.visible = sheet.visible \ {n}, !.leaving = left, !.scrim = 0]
    BY <1>5, <2>2, <2>3 DEF RemoveScrim, SheetInv
  <2>5. /\ sheet' \in Sheet /\ sheet'.shown = sheet.shown /\ sheet'.scrim = 0
        /\ sheet'.visible = sheet.visible \ {n}
    BY <2>4 DEF SheetInv
  <2>6. ~hasty => ~sheet.shown /\ sheet.visible = {}
    BY <2>1 DEF SheetInv
  <2>. QED
    BY <2>1, <2>5, <2>6 DEF SheetInv
<1>. QED
  BY <1>1, <1>2, <1>3, <1>4, <1>5
     DEF ClientNext, clientVars, Toggle, Frame, ClickTab, PickPrice, EnterStake

\* Whoever does not open a sheet while a scrim of it is still on its way out sees exactly
\* one scrim while the sheet is open, and none when it is not: for any number of scrims
\* and timers (adivento.js).
THEOREM ScrimsServeSheets == Spec => []ScrimServesSheet
<1>1. SheetInv => ScrimServesSheet
  BY DEF SheetInv, ScrimServesSheet
<1>. QED
  BY <1>1, SheetInit, SheetNext, EachPart, PTL DEF ClientSpec

----------------------------------------------------------------------------
(***************************************************************************)
(* The arrangement of the design canvas.                                   *)
(***************************************************************************)

\* What waits to be written is what is on the page, and only a page that has read the
\* file writes; such a page differs from the file in the sections it has changed.
KeepInv ==
    /\ visit \in [up : BOOLEAN, ready : BOOLEAN, didRead : BOOLEAN]
    /\ DOMAIN state = Sections
    /\ timer # NoFile => visit.didRead /\ timer = state
    /\ sidecar # NoFile => DOMAIN sidecar = Sections
    /\ visit.didRead /\ ~lost /\ sidecar # NoFile =>
           \A s \in Sections \ touched : state[s] = sidecar[s]
    /\ Dragging => moving.section \in Sections
    /\ \A drag \in settling : drag.section \in Sections

LEMMA EmptyPage == NoDrag.order = <<>> /\ DOMAIN Empty = Sections
  BY DEF NoDrag, Empty

LEMMA KeepInit == CanvasInit => KeepInv
<1> SUFFICES ASSUME CanvasInit PROVE KeepInv
  OBVIOUS
<1>1. /\ visit = [up |-> FALSE, ready |-> FALSE, didRead |-> FALSE] /\ state = Empty
      /\ timer = NoFile /\ sidecar = NoFile /\ moving = NoDrag /\ settling = {}
  BY DEF CanvasInit
<1>. QED
  BY <1>1, EmptyPage DEF KeepInv, Dragging

\* A change of a section, whoever makes it.
LEMMA PatchKeeps ==
    ASSUME KeepInv, NEW s \in Sections, NEW now, Patch(s, now),
           UNCHANGED <<visit, sidecar, lost, moving>>, settling' \subseteq settling
    PROVE  KeepInv'
<1>1. /\ state' = [state EXCEPT ![s] = now] /\ touched' = touched \cup {s}
      /\ timer' = IF visit.didRead THEN state' ELSE timer
  BY DEF Patch
<1>2. DOMAIN state' = Sections /\ \A t \in Sections \ touched' : state'[t] = state[t]
  BY <1>1 DEF KeepInv
<1>3. timer' # NoFile => visit'.didRead /\ timer' = state'
  BY <1>1 DEF KeepInv
<1>. QED
  BY <1>1, <1>2, <1>3 DEF KeepInv, Dragging

LEMMA KeepNext == KeepInv /\ [CanvasNext]_canvasVars => KeepInv'
<1> SUFFICES ASSUME KeepInv, [CanvasNext]_canvasVars PROVE KeepInv'
  OBVIOUS
<1>1. CASE UNCHANGED <<visit, state, timer, sidecar, touched, lost, moving, settling>>
  BY <1>1 DEF KeepInv, Dragging
<1>2. CASE Load \/ Leave
  <2>1. /\ visit' \in [up : BOOLEAN, ready : BOOLEAN, didRead : BOOLEAN]
        /\ ~visit'.didRead /\ UNCHANGED <<sidecar, lost>>
    <3>1. PICK up \in BOOLEAN : visit' = [up |-> up, ready |-> FALSE, didRead |-> FALSE]
      BY <1>2 DEF Load, Leave
    <3>. QED
      BY <1>2, <3>1 DEF Load, Leave
  <2>2. state' = Empty /\ timer' = NoFile /\ moving' = NoDrag /\ settling' = {}
    BY <1>2 DEF Load, Leave, Clear
  <2>. QED
    BY <2>1, <2>2, EmptyPage DEF KeepInv, Dragging
<1>3. CASE ShowEarly
  BY <1>3 DEF ShowEarly, KeepInv, Dragging
<1>4. CASE ReadSaved
  BY <1>4 DEF ReadSaved, KeepInv, Dragging
<1>5. CASE ReadNothing
  <2>1. lost' = (lost \/ sidecar # NoFile)
    BY <1>5 DEF ReadNothing
  <2>2. ~lost' => sidecar = NoFile
    BY <2>1, Zenon
  <2>3. /\ visit' \in [up : BOOLEAN, ready : BOOLEAN, didRead : BOOLEAN]
        /\ visit'.didRead /\ ~visit.didRead
        /\ UNCHANGED <<state, timer, sidecar, touched, moving, settling>>
    BY <1>5 DEF ReadNothing, KeepInv
  <2>. QED
    BY <2>2, <2>3 DEF KeepInv, Dragging
<1>6. CASE Write
  BY <1>6 DEF Write, KeepInv, Dragging
<1>7. ASSUME NEW s \in Sections, Rename(s) \/ \E k \in Artboards : Delete(s, k)
      PROVE  KeepInv'
  <2>1. UNCHANGED <<visit, sidecar, lost, moving, settling>> /\ \E now : Patch(s, now)
    BY <1>7 DEF Rename, Delete
  <2>. QED
    BY <2>1, PatchKeeps
<1>8. ASSUME NEW drag \in settling, Reorder(drag) PROVE KeepInv'
  <2>1. UNCHANGED <<visit, sidecar, lost, moving>> /\ settling' \subseteq settling
        /\ \E now : Patch(drag.section, now)
    BY <1>8 DEF Reorder
  <2>2. drag.section \in Sections
    BY <1>8 DEF KeepInv
  <2>. QED
    BY <2>1, <2>2, PatchKeeps
<1>9. ASSUME NEW s \in Sections, NEW k \in Artboards, Arm(s, k) \/ Grip(s, k) \/ Focus(s, k)
      PROVE  KeepInv'
  <2>1. CASE Arm(s, k) \/ Focus(s, k)
    BY <1>1, <2>1 DEF Arm, Focus
  <2>2. CASE Grip(s, k)
    <3>1. /\ UNCHANGED <<visit, state, timer, sidecar, touched, lost, settling>>
          /\ moving'.section \in Sections
      BY <2>2 DEF Grip
    <3>. QED
      BY <3>1 DEF KeepInv, Dragging
  <2>. QED
    BY <1>9, <2>1, <2>2
<1>10. ASSUME NEW slot, Drop(slot) PROVE KeepInv'
  <2>1. /\ UNCHANGED <<visit, state, timer, sidecar, touched, lost>>
        /\ moving' = NoDrag /\ moving.section \in Sections
        /\ \A drag \in settling' : drag \in settling \/ drag.section = moving.section
    <3>1. PICK dropped :
             /\ Dragging /\ UNCHANGED <<visit, state, timer, sidecar, touched, lost>>
             /\ moving' = NoDrag
             /\ settling' = IF dropped = moving.order THEN settling
                            ELSE settling \cup {[section |-> moving.section, order |-> dropped]}
      BY <1>10 DEF Drop
    <3>. QED
      BY <3>1 DEF KeepInv
  <2>. QED
    BY <2>1, EmptyPage DEF KeepInv, Dragging
<1>11. CASE Arrow \/ Unfocus
  BY <1>1, <1>11 DEF Arrow, Unfocus
<1>. QED
  BY <1>1, <1>2, <1>3, <1>4, <1>5, <1>6, <1>7, <1>8, <1>9, <1>10, <1>11
     DEF CanvasNext, canvasVars

\* Whatever the order in which the file is read, the page is shown early, sections are
\* changed and the file is written, a section of the file is only replaced on a visit that
\* changed the section, as long as no read fails with a file there (design-canvas.jsx).
THEOREM UntouchedSectionsKept == Spec => UntouchedKept
<1>1. KeepInv /\ [CanvasNext]_canvasVars =>
          [~lost /\ sidecar # NoFile =>
               \A s \in Sections : s \notin touched => sidecar'[s] = sidecar[s]]_canvasVars
  <2> SUFFICES ASSUME KeepInv, CanvasNext, ~lost, sidecar # NoFile,
                      NEW s \in Sections, s \notin touched
               PROVE  sidecar'[s] = sidecar[s]
    OBVIOUS
  <2>1. CASE Write
    BY <2>1 DEF Write, KeepInv
  <2>2. CASE sidecar' = sidecar
    BY <2>2
  <2>. QED
    BY <2>1, <2>2 DEF CanvasNext, Load, Leave, ShowEarly, ReadSaved, ReadNothing, Rename, Arm,
                      Delete, Grip, Focus, Drop, Reorder, Arrow, Unfocus
<1>. QED
  BY <1>1, KeepInit, KeepNext, EachPart, PTL DEF CanvasSpec, UntouchedKept

----------------------------------------------------------------------------
(***************************************************************************)
(* The canvas and the host page.                                           *)
(*                                                                         *)
(* That the two agree once they are silent is not inductive: it has to be  *)
(* known what the messages on their way will make of the host's readout.   *)
(***************************************************************************)

Outgoing == {Present} \cup {Zoom(scale) : scale \in Scales}
Incoming == {Probe} \cup {SetZoom(scale) : scale \in Nat}

\* A host that shows r and hears all of q will show scale.
Tells(q, r, scale) ==
    \/ /\ \A i \in 1 .. Len(q) : q[i].type # "__dc_zoom"
       /\ r = scale
    \/ \E i \in 1 .. Len(q) : /\ q[i] = Zoom(scale)
                              /\ \A j \in i + 1 .. Len(q) : q[j].type # "__dc_zoom"

Probed == \E i \in 1 .. Len(toCanvas) : toCanvas[i] = Probe

\* The host has been told the scale, or will ask for it.
ViewInv ==
    /\ mounted \in BOOLEAN /\ dirty \in BOOLEAN /\ dragging \in BOOLEAN /\ loading \in BOOLEAN
    /\ tf \in View /\ kept \in View \cup {NoView}
    /\ posted \in Scales \cup {0} /\ gesture \in Scales \cup {0} /\ readout \in Scales
    /\ toHost \in Seq(Outgoing) /\ toCanvas \in Seq(Incoming)
    /\ mounted => /\ posted = tf.scale
                  /\ loading \/ Probed \/ Tells(toHost, readout, tf.scale)

LEMMA ClampedType == ASSUME NEW scale \in Int PROVE Clamped(scale) \in Scales
<1>1. MinScale \in Nat /\ MaxScale \in Nat /\ MinScale <= MaxScale
  BY ScalesAssumption
<1>2. PICK low \in Int : low = Max({MinScale, scale}) /\ low >= MinScale
  <2>1. PICK x \in {MinScale, scale} : \A y \in {MinScale, scale} : x >= y
    BY <1>1
  <2>2. \E u \in {MinScale, scale} : \A y \in {MinScale, scale} : u >= y
    BY <2>1
  <2>. QED
    BY <1>1, <2>2 DEF Max
<1>3. Min({MaxScale, low}) \in {MaxScale, low} /\ Min({MaxScale, low}) <= MaxScale
  <2>1. \E x \in {MaxScale, low} : \A y \in {MaxScale, low} : x <= y
    BY <1>1
  <2>. QED
    BY <1>1, <2>1 DEF Min
<1>. QED
  BY <1>1, <1>2, <1>3 DEF Clamped, Scales

\* A zoom that is told last is what the host will show.
LEMMA ToldLast ==
    ASSUME NEW q \in Seq(Outgoing), NEW scale \in Scales, NEW r
    PROVE  /\ Append(q, Zoom(scale)) \in Seq(Outgoing)
           /\ Tells(Append(q, Zoom(scale)), r, scale)
<1>1. PICK m \in Outgoing : m = Zoom(scale)
  BY DEF Outgoing
<1>2. PICK p \in Seq(Outgoing) : p = Append(q, m) /\ Len(p) = Len(q) + 1 /\ p[Len(q) + 1] = m
  BY AppendProperties
<1>3. Len(p) \in Nat /\ Len(q) \in Nat /\ Len(p) = Len(q) + 1 /\ p[Len(p)] = m
  BY <1>2, LenProperties
<1>4. Len(p) \in 1 .. Len(p) /\ \A j \in Len(p) + 1 .. Len(p) : p[j].type # "__dc_zoom"
  BY <1>3
<1>. QED
  BY <1>1, <1>2, <1>3, <1>4 DEF Tells

\* A message that the host hears was one of those that it was to hear.
LEMMA HeardFirst ==
    ASSUME NEW q \in Seq(Outgoing), q # <<>>, NEW scale, NEW r, Tells(q, r, scale),
           NEW s, s = IF Head(q).type = "__dc_zoom" THEN Head(q).scale ELSE r
    PROVE  Tells(Tail(q), s, scale)
<1>1. PICK p \in Seq(Outgoing) : /\ p = Tail(q) /\ Len(p) = Len(q) - 1
                                 /\ \A i \in 1 .. Len(p) : p[i] = q[i + 1]
  BY HeadTailProperties
<1>2. /\ Len(p) = Len(q) - 1 /\ Len(q) \in Nat \ {0}
      /\ \A i \in 1 .. Len(p) : p[i] = q[i + 1]
      /\ Head(q) = q[1]
  BY <1>1, EmptySeq
<1>3. CASE \A i \in 1 .. Len(q) : q[i].type # "__dc_zoom"
  <2>1. r = scale
    BY <1>3, <1>2 DEF Tells, Zoom
  <2>2. \A i \in 1 .. Len(p) : p[i].type # "__dc_zoom"
    BY <1>2, <1>3
  <2>3. s = scale
    BY <1>2, <1>3, <2>1
  <2>. QED
    BY <1>1, <2>2, <2>3 DEF Tells
<1>4. CASE ~\A i \in 1 .. Len(q) : q[i].type # "__dc_zoom"
  <2>1. PICK i \in 1 .. Len(q) : /\ q[i] = Zoom(scale)
                                 /\ \A j \in i + 1 .. Len(q) : q[j].type # "__dc_zoom"
    BY <1>4 DEF Tells
  <2>2. CASE i = 1
    <3>1. s = scale
      BY <1>2, <2>1, <2>2 DEF Zoom
    <3>2. \A j \in 1 .. Len(p) : p[j].type # "__dc_zoom"
      BY <1>2, <2>1, <2>2
    <3>. QED
      BY <1>1, <3>1, <3>2 DEF Tells
  <2>3. CASE i # 1
    <3>1. PICK k \in 1 .. Len(p) : k = i - 1
      BY <1>2, <2>3
    <3>2. p[k] = Zoom(scale) /\ \A j \in k + 1 .. Len(p) : p[j].type # "__dc_zoom"
      BY <1>2, <2>1, <3>1
    <3>. QED
      BY <1>1, <3>2 DEF Tells
  <2>. QED
    BY <2>2, <2>3
<1>. QED
  BY <1>3, <1>4

\* What a canvas that applies a view of a scale has told the host.
LEMMA ApplyTells ==
    ASSUME ViewInv, mounted, NEW view \in View, Apply(view, posted), readout' = readout
    PROVE  /\ tf' \in View /\ posted' \in Scales /\ posted' = tf'.scale /\ dirty' \in BOOLEAN
           /\ toHost' \in Seq(Outgoing)
           /\ Tells(toHost, readout, tf.scale) => Tells(toHost', readout', tf'.scale)
<1>1. view.scale \in Scales /\ posted = tf.scale
  BY DEF View, ViewInv
<1>2. PICK scale \in Scales : scale = view.scale
  BY <1>1
<1>3. /\ tf' = view /\ posted' = scale /\ dirty'
      /\ toHost' = IF posted = scale THEN toHost ELSE Append(toHost, Zoom(scale))
  BY <1>2 DEF Apply
<1>4. CASE posted = scale
  BY <1>1, <1>2, <1>3, <1>4 DEF ViewInv
<1>5. CASE posted # scale
  <2>1. toHost \in Seq(Outgoing)
    BY DEF ViewInv
  <2>. QED
    BY <1>2, <1>3, <1>5, <2>1, ToldLast
<1>. QED
  BY <1>4, <1>5

LEMMA PairOf ==
    ASSUME NEW S, NEW a \in S, NEW b \in S
    PROVE  <<a, b>> \in Seq(S) /\ Len(<<a, b>>) = 2 /\ <<a, b>>[2] = b
  OBVIOUS

\* The canvas announces itself and tells its scale.
LEMMA ToldPair ==
    ASSUME NEW q \in Seq(Outgoing), NEW scale \in Scales, NEW r
    PROVE  /\ q \o <<Present, Zoom(scale)>> \in Seq(Outgoing)
           /\ Tells(q \o <<Present, Zoom(scale)>>, r, scale)
<1>1. PICK m \in Outgoing, n \in Outgoing : m = Zoom(scale) /\ n = Present
  BY DEF Outgoing
<1>2. PICK pair \in Seq(Outgoing) : pair = <<n, m>> /\ Len(pair) = 2 /\ pair[2] = m
  BY PairOf
<1>3. PICK p : p = q \o pair
  OBVIOUS
<1>4. /\ p \in Seq(Outgoing) /\ Len(p) = Len(q) + Len(pair)
      /\ \A i \in 1 .. Len(q) + Len(pair) :
            p[i] = IF i <= Len(q) THEN q[i] ELSE pair[i - Len(q)]
  BY <1>3, ConcatProperties
<1>5. Len(p) \in Nat /\ Len(q) \in Nat /\ Len(p) = Len(q) + 2
  BY <1>2, <1>4, LenProperties
<1>6. p[Len(p)] = m
  BY <1>2, <1>4, <1>5
<1>7. Len(p) \in 1 .. Len(p) /\ \A j \in Len(p) + 1 .. Len(p) : p[j].type # "__dc_zoom"
  BY <1>5
<1>. QED
  BY <1>1, <1>2, <1>3, <1>6, <1>7, <1>4 DEF Tells

\* A view that is applied by hand, or because the toolbar said so.
LEMMA ApplyKeeps ==
    ASSUME ViewInv, mounted, NEW view \in View, Apply(view, posted),
           UNCHANGED <<mounted, kept, loading, readout>>,
           gesture' \in Scales \cup {0}, dragging' \in BOOLEAN,
           toCanvas' \in Seq(Incoming), Probed => Probed'
    PROVE  ViewInv'
<1>1. /\ tf' \in View /\ posted' \in Scales /\ posted' = tf'.scale /\ dirty' \in BOOLEAN
      /\ toHost' \in Seq(Outgoing)
      /\ Tells(toHost, readout, tf.scale) => Tells(toHost', readout', tf'.scale)
  BY ApplyTells
<1>. QED
  BY <1>1 DEF ViewInv

LEMMA ZoomKeeps ==
    ASSUME ViewInv, mounted, NEW scale \in Int, ZoomTo(scale),
           UNCHANGED <<mounted, kept, loading, readout>>,
           gesture' \in Scales \cup {0}, dragging' \in BOOLEAN,
           toCanvas' \in Seq(Incoming), Probed => Probed'
    PROVE  ViewInv'
<1>1. PICK view \in View : Apply(view, posted)
  BY ClampedType DEF ZoomTo, View
<1>. QED
  BY <1>1, ApplyKeeps

LEMMA PanKeeps ==
    ASSUME ViewInv, mounted, NEW pan \in Pans, Apply([tf EXCEPT !.pan = pan], posted),
           UNCHANGED <<mounted, kept, loading, readout, gesture, dragging, toCanvas>>
    PROVE  ViewInv'
<1>1. PICK view \in View : Apply(view, posted)
  BY DEF ViewInv, View
<1>2. Probed => Probed'
  BY DEF Probed
<1>. QED
  BY <1>1, <1>2, ApplyKeeps DEF ViewInv

\* What the layout effect restores is a view.
LEMMA RestoredType == ViewInv => Restored \in View
<1> SUFFICES ASSUME ViewInv PROVE Restored \in View
  OBVIOUS
<1>1. CASE kept = NoView
  <2>1. Home \in View
    BY ScalesAssumption, PansAssumption DEF Home, View, Scales
  <2>. QED
    BY <1>1, <2>1 DEF Restored
<1>2. CASE kept # NoView
  <2>1. kept \in View
    BY <1>2 DEF ViewInv
  <2>2. kept.scale \in Int
    BY <2>1, ScalesAssumption DEF View, Scales
  <2>3. Clamped(kept.scale) \in Scales
    BY <2>2, ClampedType
  <2>4. [kept EXCEPT !.scale = Clamped(kept.scale)] \in View
    BY <2>1, <2>3 DEF View
  <2>. QED
    BY <1>2, <2>4 DEF Restored
<1>. QED
  BY <1>1, <1>2

LEMMA MountKeeps == ASSUME ViewInv, Mount PROVE ViewInv'
<1>1. PICK view \in View : view = Restored
  BY RestoredType
<1>2. PICK scale \in Scales : scale = view.scale
  BY DEF View
<1>3. PICK restored \in Seq(Outgoing) :
         restored = IF kept = NoView THEN <<>> ELSE <<Zoom(scale)>>
  <2>1. <<>> \in Seq(Outgoing) /\ <<Zoom(scale)>> \in Seq(Outgoing)
    BY DEF Outgoing
  <2>. QED
    BY <2>1
<1>4. PICK q \in Seq(Outgoing) : q = toHost \o restored
  BY ConcatProperties DEF ViewInv
<1>5. /\ mounted' = TRUE /\ tf' = view /\ posted' = scale
      /\ toHost' = toHost \o restored \o <<Present, Zoom(scale)>>
      /\ dirty' = TRUE /\ gesture' = 0 /\ dragging' = FALSE
      /\ UNCHANGED <<kept, loading, readout, toCanvas>>
  BY <1>1, <1>2, <1>3 DEF Mount
<1>6. toHost' = q \o <<Present, Zoom(scale)>>
  BY <1>4, <1>5
<1>7. toHost' \in Seq(Outgoing) /\ Tells(toHost', readout', scale)
  BY <1>6, ToldPair
<1>. QED
  BY <1>2, <1>5, <1>7 DEF ViewInv

LEMMA HearKeeps == ASSUME ViewInv, Hear PROVE ViewInv'
<1>1. /\ mounted /\ toCanvas # <<>> /\ toCanvas \in Seq(Incoming)
      /\ toCanvas' = Tail(toCanvas)
      /\ UNCHANGED <<mounted, kept, loading, readout, gesture, dragging>>
  BY DEF Hear, ViewInv
<1>2. PICK message \in Incoming : message = Head(toCanvas)
  BY <1>1, HeadTailProperties
<1>3. /\ toCanvas' \in Seq(Incoming) /\ Len(toCanvas') = Len(toCanvas) - 1
      /\ \A i \in 1 .. Len(toCanvas') : toCanvas'[i] = toCanvas[i + 1]
  BY <1>1, HeadTailProperties
<1>4. CASE message.type = "__dc_set_zoom" /\ ZoomTo(message.scale)
  <2>1. message # Probe
    BY <1>4 DEF Probe
  <2>2. message.scale \in Int
    BY <1>2, <2>1 DEF Incoming, SetZoom
  <2>3. Probed => Probed'
    <3>1. SUFFICES ASSUME NEW i \in 1 .. Len(toCanvas), toCanvas[i] = Probe PROVE Probed'
      BY DEF Probed
    <3>2. i # 1
      BY <1>1, <1>2, <2>1, <3>1
    <3>3. Len(toCanvas) \in Nat
      BY <1>1, LenProperties
    <3>4. PICK k \in 1 .. Len(toCanvas') : k = i - 1
      BY <1>3, <3>2, <3>3
    <3>5. toCanvas'[k] = Probe
      BY <1>3, <3>1, <3>3, <3>4
    <3>. QED
      BY <3>5 DEF Probed
  <2>. QED
    BY <1>1, <1>3, <1>4, <2>2, <2>3, ZoomKeeps DEF ViewInv
<1>5. CASE Answer(message)
  <2>1. PICK scale \in Scales : scale = tf.scale
    BY DEF ViewInv, View
  <2>2. /\ tf' = tf /\ posted' = scale /\ dirty' = TRUE
        /\ toHost' = toHost \o <<Present, Zoom(scale)>>
    BY <1>5, <2>1 DEF Answer
  <2>3. toHost' \in Seq(Outgoing) /\ Tells(toHost', readout', scale)
    BY <2>2, ToldPair DEF ViewInv
  <2>. QED
    BY <1>1, <1>3, <2>1, <2>2, <2>3 DEF ViewInv
<1>. QED
  BY <1>2, <1>4, <1>5 DEF Hear

LEMMA HostKeeps == ASSUME ViewInv, HostSetsZoom \/ HostLoads \/ HostHears PROVE ViewInv'
<1>1. CASE HostSetsZoom
  <2>1. PICK scale \in 0 .. MaxScale + 1 : toCanvas' = Append(toCanvas, SetZoom(scale))
    BY <1>1 DEF HostSetsZoom
  <2>2. PICK message \in Incoming : message = SetZoom(scale)
    BY ScalesAssumption DEF Incoming
  <2>3. /\ toCanvas' \in Seq(Incoming) /\ Len(toCanvas') = Len(toCanvas) + 1
        /\ \A i \in 1 .. Len(toCanvas) : toCanvas'[i] = toCanvas[i]
        /\ Len(toCanvas) \in Nat
    BY <2>1, <2>2, AppendProperties, LenProperties DEF ViewInv
  <2>4. Probed => Probed'
    BY <2>3 DEF Probed
  <2>. QED
    BY <1>1, <2>3, <2>4 DEF HostSetsZoom, ViewInv
<1>2. CASE HostLoads
  <2>1. /\ loading' = FALSE /\ readout' = Unit
        /\ toCanvas' = IF mounted THEN Append(toCanvas, Probe) ELSE toCanvas
        /\ UNCHANGED <<mounted, tf, posted, kept, dirty, gesture, dragging, toHost>>
    BY <1>2 DEF HostLoads
  <2>2. Unit \in Scales
    BY ScalesAssumption DEF Scales
  <2>3. CASE mounted
    <3>1. Probe \in Incoming
      BY DEF Incoming
    <3>2. /\ toCanvas' \in Seq(Incoming) /\ Len(toCanvas') = Len(toCanvas) + 1
          /\ toCanvas'[Len(toCanvas) + 1] = Probe
          /\ Len(toCanvas) \in Nat
      BY <2>1, <2>3, <3>1, AppendProperties, LenProperties DEF ViewInv
    <3>3. Probed'
      BY <3>2 DEF Probed
    <3>. QED
      BY <2>1, <2>2, <3>2, <3>3 DEF ViewInv
  <2>4. CASE ~mounted
    BY <2>1, <2>2, <2>4 DEF ViewInv
  <2>. QED
    BY <2>3, <2>4
<1>3. CASE HostHears
  <2>1. /\ toHost # <<>> /\ toHost \in Seq(Outgoing)
        /\ toHost' = Tail(toHost)
        /\ readout' = IF Head(toHost).type = "__dc_zoom" THEN Head(toHost).scale ELSE readout
        /\ UNCHANGED <<mounted, tf, posted, kept, dirty, gesture, dragging, loading, toCanvas>>
    BY <1>3 DEF HostHears, ViewInv
  <2>2. toHost' \in Seq(Outgoing) /\ Head(toHost) \in Outgoing
    BY <2>1, HeadTailProperties
  <2>3. readout' \in Scales
    BY <2>1, <2>2 DEF Outgoing, Zoom, Present, ViewInv
  <2>4. Tells(toHost, readout, tf.scale) => Tells(toHost', readout', tf'.scale)
    <3>1. PICK s : s = IF Head(toHost).type = "__dc_zoom" THEN Head(toHost).scale ELSE readout
      OBVIOUS
    <3>2. Tells(toHost, readout, tf.scale) => Tells(Tail(toHost), s, tf.scale)
      BY <2>1, <3>1, HeardFirst
    <3>. QED
      BY <2>1, <3>1, <3>2
  <2>5. Probed => Probed'
    BY <2>1 DEF Probed
  <2>. QED
    BY <2>1, <2>2, <2>3, <2>4, <2>5 DEF ViewInv
<1>. QED
  BY <1>1, <1>2, <1>3

LEMMA ViewInitHolds == ViewInit => ViewInv
<1> SUFFICES ASSUME ViewInit PROVE ViewInv
  OBVIOUS
<1>1. Home \in View /\ Unit \in Scales
  BY ScalesAssumption, PansAssumption DEF Home, View, Scales
<1>2. <<>> \in Seq(Outgoing) /\ <<>> \in Seq(Incoming)
  BY EmptySeq
<1>. QED
  BY <1>1, <1>2 DEF ViewInit, ViewInv

LEMMA ViewStepKeeps == ViewInv /\ [ViewNext]_viewVars => ViewInv'
<1> SUFFICES ASSUME ViewInv, [ViewNext]_viewVars PROVE ViewInv'
  OBVIOUS
<1>1. Scales \subseteq Int /\ MaxScale \in Nat
  BY ScalesAssumption DEF Scales
<1>2. CASE Unload \/ Store
  <2>1. kept' \in View \cup {NoView}
    BY <1>2 DEF Unload, Store, ViewInv
  <2>2. CASE Unload
    <3>1. <<>> \in Seq(Incoming)
      BY EmptySeq
    <3>2. mounted' = FALSE /\ dirty' = FALSE /\ loading' = TRUE /\ toCanvas' = <<>>
          /\ UNCHANGED <<tf, posted, gesture, dragging, readout, toHost>>
      BY <2>2 DEF Unload
    <3>. QED
      BY <2>1, <3>1, <3>2 DEF ViewInv
  <2>3. CASE Store
    <3>1. dirty' = FALSE
          /\ UNCHANGED <<mounted, tf, posted, gesture, dragging, loading, readout, toHost,
                         toCanvas>>
      BY <2>3 DEF Store
    <3>2. Probed => Probed'
      BY <3>1 DEF Probed
    <3>. QED
      BY <2>1, <3>1, <3>2 DEF ViewInv
  <2>. QED
    BY <1>2, <2>2, <2>3
<1>3. CASE Wheel
  <2>1. /\ mounted /\ UNCHANGED <<mounted, kept, loading, readout, toCanvas, gesture, dragging>>
    BY <1>3 DEF Wheel, Elsewhere
  <2>2. Probed => Probed'
    BY <2>1 DEF Probed
  <2>3. ASSUME NEW step \in {1, -1}, ZoomTo(tf.scale + step) PROVE ViewInv'
    <3>1. tf.scale + step \in Int
      <4>1. PICK scale \in Int : scale = tf.scale
        BY <1>1 DEF ViewInv, View
      <4>. QED
        BY <2>3, <4>1
    <3>. QED
      BY <2>1, <2>2, <2>3, <3>1, ZoomKeeps DEF ViewInv
  <2>4. ASSUME NEW pan \in Pans, Apply([tf EXCEPT !.pan = pan], posted) PROVE ViewInv'
    BY <2>1, <2>4, PanKeeps
  <2>. QED
    BY <1>3, <2>3, <2>4 DEF Wheel
<1>4. CASE PinchChange
  <2>1. /\ mounted /\ UNCHANGED <<mounted, kept, loading, readout, toCanvas, gesture, dragging>>
    BY <1>4 DEF PinchChange, Elsewhere
  <2>2. Probed => Probed'
    BY <2>1 DEF Probed
  <2>3. PICK step \in -MaxScale .. MaxScale : ZoomTo(gesture + step)
    BY <1>4 DEF PinchChange
  <2>4. gesture + step \in Int
    BY <1>1 DEF ViewInv
  <2>. QED
    BY <2>1, <2>2, <2>3, <2>4, ZoomKeeps DEF ViewInv
<1>5. CASE DragMove
  <2>1. /\ mounted /\ UNCHANGED <<mounted, kept, loading, readout, toCanvas, gesture, dragging>>
        /\ \E pan \in Pans : Apply([tf EXCEPT !.pan = pan], posted)
    BY <1>5 DEF DragMove, Elsewhere
  <2>. QED
    BY <2>1, PanKeeps
<1>6. CASE PinchStart \/ PinchEnd \/ DragStart \/ DragEnd
  <2>1. /\ UNCHANGED <<mounted, kept, loading, readout, toCanvas, tf, posted, dirty, toHost>>
        /\ gesture' \in Scales \cup {0} /\ dragging' \in BOOLEAN
    BY <1>6 DEF PinchStart, PinchEnd, DragStart, DragEnd, Elsewhere, ViewInv, View
  <2>2. Probed => Probed'
    BY <2>1 DEF Probed
  <2>. QED
    BY <2>1, <2>2 DEF ViewInv
<1>7. CASE UNCHANGED viewVars
  BY <1>7 DEF viewVars, ViewInv, Probed
<1>. QED
  BY <1>2, <1>3, <1>4, <1>5, <1>6, <1>7, MountKeeps, HearKeeps, HostKeeps DEF ViewNext

\* Once neither the canvas nor the host has anything more to say, the toolbar of the host
\* shows the scale of the canvas, whatever came first: a restored view, the load event, a
\* zoom by hand or one from the toolbar; for any limits of the scale and any number of
\* messages on their way (DCViewport in design-canvas.jsx).
THEOREM HostAlwaysAgrees == Spec => []HostAgrees
<1>1. ViewInv => HostAgrees
  BY DEF ViewInv, HostAgrees, Tells, Probed
<1>. QED
  BY <1>1, ViewInitHolds, ViewStepKeeps, EachPart, PTL DEF ViewSpec

----------------------------------------------------------------------------
(***************************************************************************)
(* The fonts of an export.                                                 *)
(***************************************************************************)

\* The sheets that are reached in a document.
Linked(doc, from, through) ==
    {s \in Sheets : \A set \in SUBSET Sheets :
        from \subseteq set /\ (\A t \in set \cap through : doc.imports[t] \subseteq set)
            => s \in set}

Opened(doc) == Linked(doc, doc.linked, doc.readable) \cap doc.readable
Fetchable(doc) == Linked(doc, doc.linked, doc.readable) \ doc.readable

LEMMA LinkedIsReached ==
    /\ \A from, through : Reached(from, through) = Linked(web, from, through)
    /\ Walked = Linked(web, web.linked, web.readable)
  BY DEF Reached, Linked, Closed, Walked

\* The least closed set is closed, and least.
LEMMA LinkedLeast ==
    ASSUME NEW doc \in Webs, NEW from \in SUBSET Sheets, NEW through
    PROVE  /\ Linked(doc, from, through) \in SUBSET Sheets
           /\ from \subseteq Linked(doc, from, through)
           /\ \A s \in Linked(doc, from, through) \cap through :
                 doc.imports[s] \subseteq Linked(doc, from, through)
           /\ \A set \in SUBSET Sheets :
                 from \subseteq set /\ (\A t \in set \cap through : doc.imports[t] \subseteq set)
                    => Linked(doc, from, through) \subseteq set
<1>1. doc.imports \in [Sheets -> SUBSET Sheets]
  BY WebsAssumption
<1>2. Linked(doc, from, through) \in SUBSET Sheets
  BY DEF Linked
<1>3. from \subseteq Linked(doc, from, through)
  BY DEF Linked
<1>4. ASSUME NEW s \in Linked(doc, from, through), s \in through, NEW t \in doc.imports[s]
      PROVE  t \in Linked(doc, from, through)
  <2>1. s \in Sheets
    BY <1>2, <1>4
  <2>2. t \in Sheets
    BY <1>1, <1>4, <2>1
  <2>3. ASSUME NEW set \in SUBSET Sheets, from \subseteq set,
               \A u \in set \cap through : doc.imports[u] \subseteq set
        PROVE  t \in set
    <3>1. s \in set
      BY <1>4, <2>3 DEF Linked
    <3>. QED
      BY <1>4, <2>3, <3>1
  <2>. QED
    BY <2>2, <2>3 DEF Linked
<1>5. \A set \in SUBSET Sheets :
         from \subseteq set /\ (\A t \in set \cap through : doc.imports[t] \subseteq set)
            => Linked(doc, from, through) \subseteq set
  BY DEF Linked
<1>. QED
  BY <1>2, <1>3, <1>4, <1>5

\* More of a kind reach more.
LEMMA LinkedMore ==
    ASSUME NEW doc \in Webs, NEW from \in SUBSET Sheets, NEW through, NEW more,
           through \subseteq more
    PROVE  Linked(doc, from, through) \subseteq Linked(doc, from, more)
<1>1. PICK set \in SUBSET Sheets : set = Linked(doc, from, more)
  BY LinkedLeast
<1>2. from \subseteq set /\ \A s \in set \cap more : doc.imports[s] \subseteq set
  BY <1>1, LinkedLeast
<1>3. \A s \in set \cap through : doc.imports[s] \subseteq set
  BY <1>2
<1>. QED
  BY <1>1, <1>2, <1>3, LinkedLeast

\* What is walked is also reached by way of what is walked and can be read.
LEMMA WalkedByItself ==
    ASSUME NEW doc \in Webs
    PROVE  /\ Linked(doc, doc.linked, doc.readable) \subseteq Linked(doc, doc.linked, Opened(doc))
           /\ Linked(doc, doc.linked, doc.readable) \in SUBSET Sheets
<1>1. doc.linked \in SUBSET Sheets
  BY WebsAssumption
<1>2. PICK walked \in SUBSET Sheets :
         walked = Linked(doc, doc.linked, doc.readable)
  BY <1>1, LinkedLeast
<1>3. /\ doc.linked \subseteq walked
      /\ \A s \in walked \cap doc.readable : doc.imports[s] \subseteq walked
  BY <1>1, <1>2, LinkedLeast
<1>4. PICK through : through = walked \cap doc.readable
  OBVIOUS
<1>5. PICK found \in SUBSET Sheets : found = Linked(doc, doc.linked, through)
  BY <1>1, LinkedLeast
<1>6. /\ doc.linked \subseteq found
      /\ \A s \in found \cap through : doc.imports[s] \subseteq found
  BY <1>1, <1>5, LinkedLeast
<1>7. PICK both \in SUBSET Sheets : both = found \cap walked
  OBVIOUS
<1>8. doc.linked \subseteq both
  BY <1>3, <1>6, <1>7
<1>9. \A s \in both \cap doc.readable : doc.imports[s] \subseteq both
  BY <1>3, <1>4, <1>6, <1>7
<1>10. walked \subseteq both
  BY <1>1, <1>2, <1>8, <1>9, LinkedLeast
<1>. QED
  BY <1>2, <1>4, <1>5, <1>7, <1>10 DEF Opened

Imported(doc, sheets) == UNION {doc.imports[t] : t \in sheets}

LEMMA ImportedMore ==
    ASSUME NEW doc, NEW sheets
    PROVE  /\ \A s : Imported(doc, sheets \cup {s}) = Imported(doc, sheets) \cup doc.imports[s]
           /\ \A t \in sheets : doc.imports[t] \subseteq Imported(doc, sheets)
           /\ sheets = {} => Imported(doc, sheets) = {}
  BY DEF Imported

Awaited == {pending[i] : i \in 1 .. Len(pending)}

\* What has been found when, and why all of it leads to the sheets that were asked for.
FontInv ==
    /\ web \in Webs
    /\ fonts \subseteq Sheets /\ scraped \subseteq Sheets
    /\ pending \in Seq(Sheets)
    /\ failed \subseteq settled /\ settled \subseteq scraped
    /\ stage \in {"start", "await", "embed"}
    /\ stage = "start" => scraped = {}
    /\ stage # "start" =>
          /\ fonts = Opened(web) \cup (settled \ failed)
          /\ scraped = Fetchable(web) \cup Imported(web, settled \ failed)
          /\ scraped \subseteq settled \cup Awaited
          /\ scraped \subseteq Linked(web, web.linked, fonts)
    /\ stage = "embed" => pending = <<>>

LEMMA FontInitHolds == FontInit => FontInv
<1> SUFFICES ASSUME FontInit PROVE FontInv
  OBVIOUS
<1>1. <<>> \in Seq(Sheets)
  BY EmptySeq
<1>. QED
  BY <1>1 DEF FontInit, FontInv

\* The promises of what is scraped are awaited.
LEMMA ScrapeAwaits ==
    ASSUME pending \in Seq(Sheets), scraped \subseteq Sheets, NEW sheets \in SUBSET Sheets,
           Scrape(sheets)
    PROVE  /\ scraped' = scraped \cup sheets
           /\ pending' \in Seq(Sheets)
           /\ Awaited' = Awaited \cup (sheets \ scraped)
<1>1. PICK todo \in SUBSET Sheets : todo = sheets \ scraped
  OBVIOUS
<1>2. PICK n \in Nat : n = Cardinality(todo)
  <2>1. IsFiniteSet(todo)
    BY SheetsAssumption, FS_Subset
  <2>. QED
    BY <2>1, FS_CardinalityType
<1>3. PICK order \in [1 .. n -> todo] :
         /\ \A s \in todo : \E i \in DOMAIN order : order[i] = s
         /\ scraped' = scraped \cup sheets
         /\ pending' = pending \o order
  BY <1>1, <1>2 DEF Scrape
<1>4. order \in Seq(Sheets) /\ Len(order) = n
  <2>1. order \in [1 .. n -> Sheets]
    BY <1>3
  <2>2. order \in Seq(Sheets)
    BY <2>1, SeqDef
  <2>3. Len(order) \in Nat /\ 1 .. Len(order) = 1 .. n
    BY <2>2, LenProperties
  <2>4. \A i \in Int : i \in 1 .. Len(order) <=> i \in 1 .. n
    BY <2>3
  <2>. QED
    BY <2>2, <2>3, <2>4
<1>5. /\ pending' \in Seq(Sheets) /\ Len(pending') = Len(pending) + n
      /\ \A i \in 1 .. Len(pending) + n :
            pending'[i] = IF i <= Len(pending) THEN pending[i] ELSE order[i - Len(pending)]
      /\ Len(pending) \in Nat
  BY <1>3, <1>4, ConcatProperties, LenProperties
<1>6. Awaited' \subseteq Awaited \cup todo
  <2>1. SUFFICES ASSUME NEW i \in 1 .. Len(pending')
                 PROVE  pending'[i] \in Awaited \cup todo
    BY DEF Awaited
  <2>2. CASE i <= Len(pending)
    <3>1. i \in 1 .. Len(pending) /\ pending'[i] = pending[i]
      BY <1>5, <2>2
    <3>. QED
      BY <3>1 DEF Awaited
  <2>3. CASE ~(i <= Len(pending))
    <3>1. PICK k \in 1 .. n : k = i - Len(pending)
      BY <1>2, <1>5, <2>3
    <3>2. order[k] \in todo
      BY <3>1
    <3>. QED
      BY <1>5, <2>3, <3>1, <3>2
  <2>. QED
    BY <2>2, <2>3
<1>7. Awaited \subseteq Awaited'
  BY <1>5 DEF Awaited
<1>8. ASSUME NEW s \in todo PROVE s \in Awaited'
  <2>1. PICK k \in 1 .. n : order[k] = s
    BY <1>3
  <2>2. PICK i \in 1 .. Len(pending') : i = Len(pending) + k
    BY <1>5
  <2>3. i \in 1 .. Len(pending) + n /\ ~(i <= Len(pending)) /\ i - Len(pending) = k
    BY <1>5, <2>2
  <2>4. pending'[i] = s
    BY <1>5, <2>1, <2>3
  <2>. QED
    BY <2>4 DEF Awaited
<1>. QED
  BY <1>1, <1>3, <1>5, <1>6, <1>7, <1>8

\* The sheets that scripts may read are walked at once.
LEMMA WalkKeeps == ASSUME FontInv, WalkAll PROVE FontInv'
<1>1. PICK doc \in Webs : doc = web /\ doc = web'
  BY DEF FontInv, WalkAll
<1>2. PICK walked \in SUBSET Sheets :
         /\ walked = Linked(doc, doc.linked, doc.readable)
         /\ walked \subseteq Linked(doc, doc.linked, Opened(doc))
  BY WalkedByItself
<1>3. /\ fonts' = walked \cap doc.readable /\ Scrape(walked \ doc.readable)
      /\ stage' = "await" /\ settled' = settled /\ failed' = failed
  BY <1>1, <1>2, LinkedIsReached DEF WalkAll
<1>4. scraped = {} /\ settled = {} /\ failed = {} /\ pending \in Seq(Sheets)
  BY DEF FontInv, WalkAll
<1>5. /\ scraped' = walked \ doc.readable /\ pending' \in Seq(Sheets)
      /\ walked \ doc.readable \subseteq Awaited'
  <2>1. PICK rest \in SUBSET Sheets : rest = walked \ doc.readable
    OBVIOUS
  <2>2. /\ scraped' = scraped \cup rest /\ pending' \in Seq(Sheets)
        /\ Awaited' = Awaited \cup (rest \ scraped)
    BY <1>3, <1>4, <2>1, ScrapeAwaits
  <2>. QED
    BY <1>4, <2>1, <2>2
<1>6. fonts' = Opened(doc) /\ scraped' = Fetchable(doc)
  BY <1>2, <1>3, <1>5 DEF Opened, Fetchable
<1>7. scraped' \subseteq Linked(doc, doc.linked, fonts')
  BY <1>2, <1>5, <1>6
<1>8. fonts' \subseteq Sheets /\ scraped' \subseteq Sheets
  BY <1>2, <1>3, <1>5
<1>9. settled' \ failed' = {} /\ settled' = {} /\ failed' = {}
  BY <1>3, <1>4
<1>10. Imported(doc, settled' \ failed') = {}
  BY <1>9, ImportedMore
<1>11. /\ fonts' = Opened(doc) \cup (settled' \ failed')
       /\ scraped' = Fetchable(doc) \cup Imported(doc, settled' \ failed')
       /\ scraped' \subseteq settled' \cup Awaited'
  BY <1>5, <1>6, <1>9, <1>10
<1>. QED
  BY <1>1, <1>3, <1>5, <1>7, <1>8, <1>9, <1>11 DEF FontInv

\* An answer brings fonts, and imports that are then under way.
LEMMA FetchedKeeps == ASSUME FontInv, NEW s \in Sheets, Fetched(s) PROVE FontInv'
<1>1. PICK doc \in Webs : doc = web /\ doc = web'
  BY DEF FontInv, Fetched
<1>2. PICK found \in SUBSET Sheets : found = doc.imports[s]
  BY WebsAssumption
<1>3. /\ s \in scraped \ settled /\ fonts' = fonts \cup {s} /\ Scrape(found)
      /\ settled' = settled \cup {s} /\ failed' = failed /\ stage' = stage
  BY <1>1, <1>2 DEF Fetched
<1>4. /\ scraped' = scraped \cup found /\ pending' \in Seq(Sheets)
      /\ Awaited' = Awaited \cup (found \ scraped)
  BY <1>3, ScrapeAwaits DEF FontInv
<1>5. stage = "await"
  <2>1. stage # "start"
    BY <1>3 DEF FontInv
  <2>2. stage # "embed"
    <3>1. pending = <<>> => Awaited = {}
      BY EmptySeq DEF Awaited
    <3>. QED
      BY <1>3, <2>1, <3>1 DEF FontInv
  <2>. QED
    BY <2>1, <2>2 DEF FontInv
<1>6. settled' \ failed' = (settled \ failed) \cup {s}
  BY <1>3 DEF FontInv
<1>7. fonts' = Opened(doc) \cup (settled' \ failed')
  BY <1>1, <1>3, <1>5, <1>6 DEF FontInv
<1>8. scraped' = Fetchable(doc) \cup Imported(doc, settled' \ failed')
  <2>1. PICK got : got = settled \ failed
    OBVIOUS
  <2>2. Imported(doc, got \cup {s}) = Imported(doc, got) \cup found
    BY <1>2, ImportedMore
  <2>3. settled' \ failed' = got \cup {s}
    BY <1>6, <2>1
  <2>4. scraped = Fetchable(doc) \cup Imported(doc, got)
    BY <1>1, <1>5, <2>1 DEF FontInv
  <2>5. Imported(doc, settled' \ failed') = Imported(doc, got) \cup found
    BY <2>2, <2>3
  <2>. QED
    BY <1>4, <2>4, <2>5
<1>9. scraped' \subseteq settled' \cup Awaited'
  <2>1. scraped \subseteq settled \cup Awaited
    BY <1>5 DEF FontInv
  <2>. QED
    BY <1>3, <1>4, <2>1
<1>10. scraped' \subseteq Linked(doc, doc.linked, fonts')
  <2>1. doc.linked \in SUBSET Sheets
    BY WebsAssumption
  <2>2. PICK more : more = fonts'
    OBVIOUS
  <2>3. PICK less : less = fonts
    OBVIOUS
  <2>4. Linked(doc, doc.linked, less) \subseteq Linked(doc, doc.linked, more)
    BY <1>3, <2>1, <2>2, <2>3, LinkedMore
  <2>5. scraped \subseteq Linked(doc, doc.linked, more)
    BY <1>1, <1>5, <2>3, <2>4 DEF FontInv
  <2>6. s \in Linked(doc, doc.linked, more) \cap more
    BY <1>3, <2>2, <2>5
  <2>7. found \subseteq Linked(doc, doc.linked, more)
    BY <1>2, <2>1, <2>6, LinkedLeast
  <2>. QED
    BY <1>4, <2>2, <2>5, <2>7
<1>11. /\ fonts' \subseteq Sheets /\ scraped' \subseteq Sheets
       /\ failed' \subseteq settled' /\ settled' \subseteq scraped'
  BY <1>3, <1>4 DEF FontInv
<1>. QED
  BY <1>1, <1>3, <1>4, <1>5, <1>7, <1>8, <1>9, <1>10, <1>11 DEF FontInv

LEMMA FetchFailsKeeps == ASSUME FontInv, NEW s \in Sheets, FetchFails(s) PROVE FontInv'
<1>1. /\ s \in scraped \ settled /\ settled' = settled \cup {s} /\ failed' = failed \cup {s}
      /\ UNCHANGED <<web, fonts, scraped, pending, stage>>
  BY DEF FetchFails
<1>2. settled' \ failed' = settled \ failed
  BY <1>1 DEF FontInv
<1>3. Awaited' = Awaited
  BY <1>1 DEF Awaited
<1>. QED
  BY <1>1, <1>2, <1>3 DEF FontInv

LEMMA AwaitKeeps == ASSUME FontInv, Await PROVE FontInv'
<1>1. /\ pending # <<>> /\ pending \in Seq(Sheets) /\ Head(pending) \in settled
      /\ pending' = Tail(pending) /\ stage = "await"
      /\ UNCHANGED <<web, fonts, scraped, settled, failed, stage>>
  BY DEF Await, FontInv
<1>2. /\ pending' \in Seq(Sheets) /\ Len(pending') = Len(pending) - 1
      /\ \A i \in 1 .. Len(pending') : pending'[i] = pending[i + 1]
      /\ Len(pending) \in Nat
  BY <1>1, HeadTailProperties, LenProperties
<1>3. Awaited \subseteq Awaited' \cup settled
  <2>1. SUFFICES ASSUME NEW i \in 1 .. Len(pending) PROVE pending[i] \in Awaited' \cup settled
    BY DEF Awaited
  <2>2. CASE i = 1
    BY <1>1, <2>2
  <2>3. CASE i # 1
    <3>1. PICK k \in 1 .. Len(pending') : k = i - 1
      BY <1>2, <2>3
    <3>2. pending'[k] = pending[i]
      BY <1>2, <3>1
    <3>. QED
      BY <3>2 DEF Awaited
  <2>. QED
    BY <2>2, <2>3
<1>. QED
  BY <1>1, <1>2, <1>3 DEF FontInv

LEMMA FontNextHolds == FontInv /\ [FontNext]_fontVars => FontInv'
<1> SUFFICES ASSUME FontInv, [FontNext]_fontVars PROVE FontInv'
  OBVIOUS
<1>1. CASE Embed
  <2>1. UNCHANGED <<web, fonts, scraped, pending, settled, failed>> /\ pending = <<>>
        /\ stage = "await" /\ stage' = "embed"
    BY <1>1 DEF Embed
  <2>2. Awaited' = Awaited
    BY <2>1 DEF Awaited
  <2>. QED
    BY <2>1, <2>2 DEF FontInv
<1>2. CASE UNCHANGED fontVars
  BY <1>2 DEF fontVars, FontInv, Awaited
<1>. QED
  BY <1>1, <1>2, WalkKeeps, FetchedKeeps, FetchFailsKeeps, AwaitKeeps DEF FontNext

\* When the fonts of a page are embedded, those of every sheet are there that imports lead
\* to, past sheets whose fetch failed, and no fetch is under way: for any number of sheets
\* that import each other in any way, in circles too, and answers in any order (dcExport
\* in design-canvas.jsx).
THEOREM FontsAreComplete == Spec => []FontsComplete
<1>1. FontInv => FontsComplete
  <2> SUFFICES ASSUME FontInv, stage = "embed",
                      NEW got, got = Sheets \ (failed \ (Walked \cap web.readable))
               PROVE  scraped = settled /\ fonts = Reached(web.linked, got) \cap got
    BY DEF FontsComplete
  <2>1. PICK doc \in Webs : doc = web
    BY DEF FontInv
  <2>2. PICK walked \in SUBSET Sheets :
           /\ walked = Linked(doc, doc.linked, doc.readable)
           /\ walked \subseteq Linked(doc, doc.linked, Opened(doc))
    BY WalkedByItself
  <2>3. doc.linked \in SUBSET Sheets
    BY WebsAssumption
  <2>4. scraped = settled
    <3>1. Awaited = {}
      BY EmptySeq DEF FontInv, Awaited
    <3>. QED
      BY <3>1 DEF FontInv
  <2>5. /\ fonts = (walked \cap doc.readable) \cup (settled \ failed)
        /\ scraped = (walked \ doc.readable) \cup Imported(doc, settled \ failed)
        /\ scraped \subseteq Linked(doc, doc.linked, fonts)
        /\ failed \subseteq settled /\ scraped \subseteq Sheets
        /\ Opened(doc) \subseteq fonts
    BY <2>1, <2>2 DEF FontInv, Opened, Fetchable
  <2>6. got = Sheets \ (failed \ (walked \cap doc.readable))
    BY <2>1, <2>2, LinkedIsReached
  <2>7. PICK all \in SUBSET Sheets : all = walked \cup scraped
    BY <2>5
  <2>8. fonts = all \cap got
    BY <2>4, <2>5, <2>6, <2>7
  <2>9. doc.linked \subseteq all
    BY <2>2, <2>3, <2>7, LinkedLeast
  <2>10. \A t \in all \cap got : doc.imports[t] \subseteq all
    <3>1. SUFFICES ASSUME NEW t \in fonts PROVE doc.imports[t] \subseteq all
      BY <2>8
    <3>2. CASE t \in walked \cap doc.readable
      BY <2>2, <2>3, <2>7, <3>2, LinkedLeast
    <3>3. CASE t \in settled \ failed
      BY <2>5, <2>7, <3>3, ImportedMore
    <3>. QED
      BY <2>5, <3>2, <3>3
  <2>11. Linked(doc, doc.linked, got) \subseteq all
    BY <2>3, <2>9, <2>10, LinkedLeast
  <2>12. PICK less : less = fonts
    OBVIOUS
  <2>13. Linked(doc, doc.linked, less) \subseteq Linked(doc, doc.linked, got)
    BY <2>3, <2>8, <2>12, LinkedMore
  <2>14. Linked(doc, doc.linked, Opened(doc)) \subseteq Linked(doc, doc.linked, less)
    BY <2>3, <2>5, <2>12, LinkedMore
  <2>15. all = Linked(doc, doc.linked, got)
    BY <2>2, <2>5, <2>7, <2>11, <2>12, <2>13, <2>14
  <2>16. Reached(web.linked, got) = all
    BY <2>1, <2>15, LinkedIsReached
  <2>. QED
    BY <2>4, <2>8, <2>16
<1>. QED
  BY <1>1, FontInitHolds, FontNextHolds, EachPart, PTL DEF FontSpec

=============================================================================

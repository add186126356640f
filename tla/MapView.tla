------------------------------- MODULE MapView -------------------------------
(***************************************************************************)
(* The operational map in one browser: MapView, which owns the drawing, the *)
(* selection and the loads, with the pointer events of OperationalMap, the  *)
(* guards of DrawingToolbar and the submission of DrawingModal.  Beside it  *)
(* are the server with one cable segment and another user who reshapes it.  *)
(*                                                                         *)
(* Every await and timer is a step of its own: the user goes on meanwhile.  *)
(* A coordinate is a model value; where a click snaps, which structure is   *)
(* near and which stretch is nearest is a choice.  What the modal reviews   *)
(* and passes on to the creation, presetOrigin with it, filters, the        *)
(* legend, the list view and what the panels say are left out; the effect   *)
(* that selects the feature named in the URL is a Select nobody asked for.  *)
(***************************************************************************)
EXTENDS Naturals, Sequences, SequencesExt, FiniteSets

CONSTANTS
  Start, Finish,  \* coordinates of the two structures that the segment joins
  Way,            \* other coordinates
  Centre,         \* the middle of the straight line between the structures
  None,
  MaxVertices, MaxHistory,  \* bounds on a drawing and on its history
  MaxRequests     \* bound on the requests that are under way at once

ASSUME CoordinateAssumption == /\ Start # Finish /\ Start \notin Way /\ Finish \notin Way
                               /\ Centre \in Way
ASSUME BoundAssumption == {MaxVertices, MaxHistory, MaxRequests} \subseteq Nat
ASSUME NoneAssumption == None \notin Way \cup {Start, Finish} \cup Nat

VARIABLES
  mode,      \* interactionMode
  selected,  \* selectedFeature: a structure, a version of the segment, or None
  draft,     \* draftCoordinates
  hist, idx, \* history, and historyIndex + 1
  modal,     \* modalOpen
  drag,      \* the vertex the pointer holds; a local of the event effect
  base,      \* history: the version the edited geometry was copied from
  requests,  \* the save, deletion and creation on their way
  lines,     \* the geometries the segment has had; the last is current
  gone,      \* the segment has been deleted
  timer,     \* the debounce timer runs
  flights,   \* the loads in flight: Asked, then with what was read
  data,      \* the features shown
  failed     \* the last load failed

drawing == <<draft, hist, idx>>
view == <<mode, selected, drawing, modal, drag, base>>
segment == <<lines, gone>>
loads == <<timer, flights, data, failed>>
vars == <<view, requests, segment, loads>>

End == {Start, Finish}
Point == End \cup Way
Request == {"save", "delete", "create"}
Asked == [read |-> FALSE, version |-> 0, fresh |-> TRUE]
Stale(f) == [f EXCEPT !.fresh = FALSE]
Quiet == [stage |-> "none", version |-> 0, coords |-> <<>>, base |-> 0]
Version == Len(lines)

Init ==
  /\ mode = "view" /\ selected = None
  /\ draft = <<>> /\ hist = <<>> /\ idx = 0
  /\ modal = FALSE /\ drag = None /\ base = 0
  /\ requests = [k \in Request |-> Quiet]
  /\ lines = <<<<Start, Finish>>>> /\ gone = FALSE
  /\ timer = TRUE
  /\ flights = {} /\ data = Stale(Asked) /\ failed = FALSE
-----------------------------------------------------------------------------
(***************************************************************************)
(* Drawing                                                                 *)
(***************************************************************************)
Uncovered == ~modal   \* the modal's overlay takes clicks, not keys

\* The event effect is set up again, and the drag forgotten, when the mode or the
\* number of vertices changes (or the features, see LoadArrives).
SetUpEvents == drag' = IF mode' = mode /\ Len(draft') = Len(draft) THEN drag ELSE None

Draw(coords, history, at) == draft' = coords /\ hist' = history /\ idx' = at
Push(coords) == Draw(coords, Append(SubSeq(hist, 1, idx), coords), idx + 1)
Wipe == Draw(<<>>, <<>>, 0) /\ base' = 0
Elsewhere == UNCHANGED <<requests, segment, loads>>

\* handleSelectFeature; features are those of the last load.
Select(feature) ==
  /\ Uncovered /\ mode = "view"
  /\ feature \in End \cup {None} \/ (feature = data.version /\ feature # 0)
  /\ selected' = feature
  /\ UNCHANGED <<mode, drawing, modal, drag, base>> /\ Elsewhere

\* A straight segment gets a vertex in the middle that can be dragged.
Editable(line) == IF Len(line) = 2 THEN <<line[1], Centre, line[2]>> ELSE line

\* handleSetMode("edit_geometry")
BeginEdit ==
  /\ Uncovered
  /\ selected \in 1 .. Version
  /\ LET coords == Editable(lines[selected]) IN Draw(coords, <<coords>>, 1)
  /\ mode' = "edit_geometry"
  /\ base' = selected
  /\ UNCHANGED <<selected, modal>> /\ SetUpEvents /\ Elsewhere

\* handleSetMode of another mode
SetMode(m) ==
  /\ Uncovered
  /\ mode' = m
  /\ Wipe /\ selected' = None
  /\ UNCHANGED modal /\ SetUpEvents /\ Elsewhere

\* handleStartCable, handleContinueCable: from the panel of a selected feature.
BeginCable(p) ==
  /\ Uncovered /\ mode = "view"
  /\ selected = p \/ (selected \in 1 .. Version /\ p \in End)
  /\ mode' = "draw_cable"
  /\ Draw(<<p>>, <<<<p>>>>, 1) /\ selected' = None
  /\ UNCHANGED <<modal, base>> /\ SetUpEvents /\ Elsewhere

\* A vertex at the end of a cable, unless it repeats the last one.
ClickCable(p) ==
  /\ Uncovered /\ mode = "draw_cable"
  /\ Len(draft) < MaxVertices /\ idx < MaxHistory
  /\ draft # <<>> => Last(draft) # p
  /\ Push(Append(draft, p))
  /\ UNCHANGED <<mode, selected, modal, base>> /\ SetUpEvents /\ Elsewhere

\* A point is placed by one click, which opens the modal.
ClickPoint(p) ==
  /\ Uncovered /\ mode = "draw_point"
  /\ draft' = <<p>>
  /\ modal' = TRUE
  /\ UNCHANGED <<mode, selected, hist, idx, base>> /\ SetUpEvents /\ Elsewhere

\* insertVertexAtNearestSegment: between two vertices of the line clicked on.
ClickLine(i, p) ==
  /\ Uncovered /\ mode = "edit_geometry" /\ drag = None
  /\ i \in 1 .. Len(draft) - 1 /\ Len(draft) < MaxVertices /\ idx < MaxHistory
  /\ Push(InsertAt(draft, i + 1, p))
  /\ UNCHANGED <<mode, selected, modal, base>> /\ SetUpEvents /\ Elsewhere

\* Only vertices between the ends can be held.
AnyVertex == DOMAIN draft   \* fault: the ends can be held too
Movable == 2 .. Len(draft) - 1

Grab(i) ==
  /\ Uncovered /\ mode = "edit_geometry" /\ drag = None
  /\ i \in Movable
  /\ drag' = i
  /\ UNCHANGED <<mode, selected, drawing, modal, base>> /\ Elsewhere

Move(p) ==
  /\ drag # None
  /\ draft' = [draft EXCEPT ![drag] = p]
  /\ UNCHANGED <<mode, selected, hist, idx, modal, drag, base>> /\ Elsewhere

\* handleVertexMoveEnd
Release ==
  /\ drag # None
  /\ IF hist[idx] # draft THEN idx < MaxHistory /\ Push(draft) ELSE UNCHANGED drawing
  /\ drag' = None
  /\ UNCHANGED <<mode, selected, modal, base>> /\ Elsewhere

\* The first snapshot of an edited geometry stays; the first vertex of a cable
\* goes.
AtFirst == idx = 1   \* fault: the mode is not looked at
AtFirstOfCable == idx = 1 /\ mode # "edit_geometry"

Undo ==
  /\ \/ idx > 1 /\ draft' = hist[idx - 1]
     \/ AtFirstOfCable /\ draft' = <<>>
  /\ idx' = idx - 1
  /\ UNCHANGED <<mode, selected, hist, modal, base>> /\ SetUpEvents /\ Elsewhere

Redo ==
  /\ idx < Len(hist)
  /\ draft' = hist[idx + 1] /\ idx' = idx + 1
  /\ UNCHANGED <<mode, selected, hist, modal, base>> /\ SetUpEvents /\ Elsewhere

\* handleCancelDrawing
Forget == mode' = "view" /\ Wipe /\ modal' = FALSE /\ SetUpEvents

\* Escape, the toolbar's button or closing the modal.
Cancel ==
  /\ mode # "view" \/ modal
  /\ Forget
  /\ UNCHANGED selected /\ Elsewhere

\* handleFinishDrawing of a point or a cable: the modal reviews it.
FinishDrawing ==
  /\ Uncovered
  /\ \/ mode = "draw_point" /\ draft # <<>>
     \/ mode = "draw_cable" /\ Len(draft) >= 2
  /\ modal' = TRUE
  /\ UNCHANGED <<mode, selected, drawing, drag, base>> /\ Elsewhere
-----------------------------------------------------------------------------
(***************************************************************************)
(* Requests                                                                *)
(***************************************************************************)
UnderWay == {k \in Request : requests[k].stage # "none"}

Send(k, request) ==
  /\ k \notin UnderWay /\ Cardinality(UnderWay) < MaxRequests
  /\ requests' = [requests EXCEPT ![k] = request]
  /\ UNCHANGED <<view, segment, loads>>

\* handleFinishDrawing of an edited geometry, with If-Match.
Save ==
  /\ Uncovered /\ mode = "edit_geometry" /\ selected \in 1 .. Version /\ Len(draft) >= 3
  /\ Send("save", [stage |-> "sent", version |-> selected, coords |-> draft, base |-> base])

\* handleDeleteFeature, from the panel of the selected segment.
Delete ==
  /\ Uncovered /\ mode = "view" /\ selected \in 1 .. Version
  /\ Send("delete", [Quiet EXCEPT !.stage = "sent", !.version = selected])

\* The submission of the modal.  What it creates does not concern the segment.
Create == modal /\ Send("create", [Quiet EXCEPT !.stage = "done"])

\* The server grants it: a change of the segment needs its current version.
Existing(k) == ~gone   \* fault: If-Match is not sent
Matching(k) == ~gone /\ requests[k].version = Version

Serve(k) ==
  /\ requests[k].stage = "sent"
  /\ Matching(k)
  /\ lines' = IF k = "save" THEN Append(lines, requests[k].coords) ELSE lines
  /\ gone' = (gone \/ k = "delete")
  /\ requests' = [requests EXCEPT ![k] =
                    [Quiet EXCEPT !.stage = "done", !.version = Len(lines')]]
  /\ UNCHANGED <<view, loads>>

OtherUser(p) ==
  /\ ~gone
  /\ lines' = Append(lines, <<Start, p, Finish>>)
  /\ UNCHANGED <<view, requests, gone, loads>>

\* loadFeatures: every load begun before is of another viewport, or from before a
\* change; the timer starts again.
LoadFeatures(shown) ==
  /\ data' = [Stale(data) EXCEPT !.version = shown]
  /\ flights' = {Stale(f) : f \in flights}
  /\ timer' = TRUE
  /\ UNCHANGED failed

Acknowledge(k, shown) ==
  /\ requests[k].stage = "done"
  /\ requests' = [requests EXCEPT ![k] = Quiet]
  /\ LoadFeatures(shown)
  /\ UNCHANGED segment

\* The user may have cancelled, selected or begun something else: it is wiped.
SaveDone ==
  /\ Acknowledge("save", data.version)
  /\ selected' = requests["save"].version
  /\ mode' = "view" /\ Wipe
  /\ UNCHANGED modal /\ SetUpEvents

\* The selection is cleared, whatever the mode has become; the row disappears.
DeleteDone ==
  /\ Acknowledge("delete", 0)
  /\ selected' = None /\ drag' = None
  /\ UNCHANGED <<mode, drawing, modal, base>>

CreateDone ==
  /\ Acknowledge("create", data.version)
  /\ Forget
  /\ UNCHANGED selected

\* The server refuses it, or the answer is lost after the change.
RequestFails(k) ==
  /\ requests[k].stage # "none"
  /\ requests' = [requests EXCEPT ![k] = Quiet]
  /\ UNCHANGED <<view, segment, loads>>
-----------------------------------------------------------------------------
(***************************************************************************)
(* Loads                                                                   *)
(***************************************************************************)
\* The map was moved, "Recarregar" or "Tentar novamente" was pressed.
Ask == LoadFeatures(data.version) /\ UNCHANGED <<view, requests, segment>>

\* 350 ms later: the load in flight is aborted.
Overtaking == flights \cup {Asked}   \* fault: it is not
Replaced == {Asked}

FireTimer ==
  /\ timer
  /\ flights' = Replaced
  /\ timer' = FALSE /\ failed' = FALSE
  /\ UNCHANGED <<view, requests, segment, data>>

\* The server reads the features.
ReadFeatures(f) ==
  /\ f \in flights /\ ~f.read
  /\ flights' = (flights \ {f})
                \cup {[f EXCEPT !.read = TRUE, !.version = IF gone THEN 0 ELSE Version]}
  /\ UNCHANGED <<view, requests, segment, timer, data, failed>>

LoadArrives(f) ==
  /\ f \in flights /\ f.read
  /\ flights' = flights \ {f}
  /\ data' = f
  /\ drag' = None
  /\ UNCHANGED <<mode, selected, drawing, modal, base>>
  /\ UNCHANGED <<requests, segment, timer, failed>>

LoadFails(f) ==
  /\ f \in flights
  /\ flights' = flights \ {f}
  /\ failed' = TRUE
  /\ UNCHANGED <<view, requests, segment, timer, data>>

Next ==
  \/ \E feature \in End \cup {None} \cup 1 .. Version : Select(feature)
  \/ BeginEdit \/ (\E m \in {"view", "draw_point", "draw_cable"} : SetMode(m))
  \/ \E p \in Point : BeginCable(p) \/ ClickCable(p) \/ ClickPoint(p)
  \/ \E p \in Way : OtherUser(p) \/ Move(p)
  \/ \E i \in 1 .. MaxVertices : Grab(i) \/ \E p \in Way : ClickLine(i, p)
  \/ Release \/ Undo \/ Redo \/ Cancel \/ FinishDrawing
  \/ Save \/ Delete \/ Create
  \/ \E k \in {"save", "delete"} : Serve(k)
  \/ \E k \in Request : RequestFails(k)
  \/ SaveDone \/ DeleteDone \/ CreateDone
  \/ Ask \/ FireTimer
  \/ \E f \in flights : ReadFeatures(f) \/ LoadArrives(f) \/ LoadFails(f)

Spec == Init /\ [][Next]_vars
-----------------------------------------------------------------------------
(***************************************************************************)
(* Properties                                                              *)
(***************************************************************************)
\* Types, and the position in the history.
TypeOK ==
  /\ mode \in {"view", "draw_point", "draw_cable", "edit_geometry"}
  /\ selected \in End \cup {None} \cup 1 .. Version
  /\ \A i \in DOMAIN draft : draft[i] \in Point
  /\ Len(hist) <= MaxHistory /\ idx \in 0 .. Len(hist)
  /\ modal \in BOOLEAN
  /\ drag # None => mode = "edit_geometry" /\ drag \in 2 .. Len(draft) - 1
  /\ \A k \in Request : requests[k].stage \in {"none", "sent", "done"}
  /\ data.version \in 0 .. Version

\* "As extremidades permanecem ligadas às estruturas": whatever is dragged,
\* inserted, undone or redone, and whatever answers arrive meanwhile, an edited
\* geometry keeps the two ends of its segment and a vertex between them.
EndpointsKept ==
  mode = "edit_geometry" =>
    Len(draft) >= 3 /\ draft[1] = Start /\ Last(draft) = Finish

\* A saved geometry replaces the very version that it was copied from: no
\* reload, answer or selection between "Editar" and "Salvar" lets it overwrite
\* the change of another user.
NoLostUpdate ==
  [][requests["save"].stage = "sent" /\ requests'["save"].stage = "done"
       => requests["save"].base = Version]_vars

\* When no load is waiting or on its way and the last one did not fail, what the
\* map shows was asked for after it was last moved and after every change of the
\* user that was acknowledged: no load that was overtaken arrives last.
SettledIsFresh ==
  ~timer /\ flights = {} /\ ~failed => data.fresh
=============================================================================

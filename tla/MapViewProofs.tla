----------------------------- MODULE MapViewProofs -----------------------------
(***************************************************************************)
(* Three theorems about the map, for any coordinates and any bounds: an     *)
(* edited geometry keeps its ends, a save overwrites only what its author   *)
(* saw, and a map at rest shows the answer of its newest load.              *)
(*                                                                         *)
(* EndpointsKept needs that every snapshot of the history and every stored  *)
(* geometry keeps the ends, that the pointer holds an inner vertex of the   *)
(* very drawing that is shown, and that undo stops at the first snapshot.   *)
(* NoLostUpdate needs that while a geometry is edited the selected version  *)
(* is the one it was copied from, or nothing is selected.                   *)
(***************************************************************************)
EXTENDS MapView, SequenceTheorems, TLAPS

USE DEF End

Course == {s \in Seq(Point) : Len(s) >= 2 /\ s[1] = Start /\ s[Len(s)] = Finish}
Line == {s \in Course : Len(s) >= 3}

Drawn ==
  /\ mode = "edit_geometry" => /\ draft \in Line /\ hist \in Seq(Line) /\ idx \in 1 .. Len(hist)
                               /\ selected = None \/ base = selected
  /\ drag # None => mode = "edit_geometry" /\ drag \in 2 .. Len(draft) - 1

RequestFields == {"stage", "version", "coords", "base"}

Sent ==
  /\ requests = [k \in Request |-> requests[k]]
  /\ \A k \in Request : DOMAIN requests[k] = RequestFields
  /\ requests["save"].stage = "sent" =>
       requests["save"].coords \in Line /\ requests["save"].base = requests["save"].version

Loaded ==
  /\ \A f \in flights : DOMAIN f = {"read", "version", "fresh"}
  /\ ~timer => \A f \in flights : f.fresh = TRUE
  /\ SettledIsFresh

IInv == lines \in Seq(Course) /\ Drawn /\ Sent /\ Loaded

LEMMA Quiets == DOMAIN Quiet = RequestFields /\ Quiet.stage = "none"
  BY DEF Quiet, RequestFields

LEMMA InitIInv == Init => IInv
<1>. SUFFICES ASSUME Init PROVE IInv
  OBVIOUS
<1>1. <<Start, Finish>> \in Course
  BY DEF Course, Point
<1>2. lines \in Seq(Course)
  BY <1>1 DEF Init
<1>3. Drawn
  BY DEF Init, Drawn
<1>4. Sent
  BY Quiets DEF Init, Sent, Request
<1>5. Loaded
  BY DEF Init, Loaded, SettledIsFresh
<1>. QED BY <1>2, <1>3, <1>4, <1>5 DEF IInv

-----------------------------------------------------------------------------
(* What the operators on drawings keep.                                      *)

LEMMA EditableLine == ASSUME NEW s \in Course PROVE Editable(s) \in Line
<1>1. CASE Len(s) = 2
  <2>1. s[1] = Start /\ s[2] = Finish
    BY <1>1 DEF Course
  <2>2. Editable(s) = <<Start, Centre, Finish>>
    BY <1>1, <2>1 DEF Editable
  <2>3. {Start, Centre, Finish} \subseteq Point
    BY CoordinateAssumption DEF Point
  <2>4. <<Start, Centre, Finish>> \in Seq(Point)
    BY <2>3
  <2>. QED BY <2>2, <2>4 DEF Line, Course
<1>2. CASE Len(s) # 2
  <2>1. Editable(s) = s
    BY <1>2 DEF Editable
  <2>2. Len(s) \in Nat /\ Len(s) >= 2
    BY DEF Course
  <2>3. \A n \in Nat : n >= 2 /\ n # 2 => n >= 3
    OBVIOUS
  <2>4. Len(s) >= 3
    BY <1>2, <2>2, <2>3
  <2>. QED BY <2>1, <2>4 DEF Line
<1>. QED BY <1>1, <1>2

LEMMA InsertedLine ==
  ASSUME NEW s \in Line, NEW i \in 1 .. Len(s) - 1, NEW p \in Point
  PROVE  InsertAt(s, i + 1, p) \in Line
<1>. DEFINE before == SubSeq(s, 1, i)
            after == SubSeq(s, i + 1, Len(s))
<1>0. s \in Seq(Point) /\ Len(s) \in Nat /\ Len(s) >= 3 /\ s[1] = Start /\ s[Len(s)] = Finish
  BY DEF Line, Course
<1>1. before \in Seq(Point) /\ Len(before) = i /\ before[1] = Start
  BY <1>0
<1>2. after \in Seq(Point) /\ Len(after) = Len(s) - i /\ after[Len(s) - i] = Finish
  BY <1>0
<1>3. <<p>> \in Seq(Point) /\ Len(<<p>>) = 1
  OBVIOUS
<1>. HIDE DEF before, after
<1>4. /\ before \o <<p>> \in Seq(Point)
      /\ Len(before \o <<p>>) = i + 1
      /\ (before \o <<p>>)[1] = Start
  BY <1>1, <1>3, ConcatProperties
<1>5. /\ (before \o <<p>>) \o after \in Seq(Point)
      /\ Len((before \o <<p>>) \o after) = Len(s) + 1
      /\ ((before \o <<p>>) \o after)[1] = Start
      /\ ((before \o <<p>>) \o after)[Len(s) + 1] = Finish
  BY <1>0, <1>2, <1>4, ConcatProperties
<1>6. InsertAt(s, i + 1, p) = (before \o <<p>>) \o after
  BY DEF InsertAt, before, after
<1>7. Len(s) + 1 >= 3
  BY <1>0
<1>8. ASSUME NEW t \in Seq(Point), Len(t) = Len(s) + 1, t[1] = Start, t[Len(s) + 1] = Finish
      PROVE  t \in Line
  BY <1>7, <1>8, <1>0 DEF Line, Course
<1>. QED BY <1>5, <1>6, <1>8

LEMMA MovedLine ==
  ASSUME NEW s \in Line, NEW i \in 2 .. Len(s) - 1, NEW p \in Point
  PROVE  [s EXCEPT ![i] = p] \in Line /\ Len([s EXCEPT ![i] = p]) = Len(s)
  BY DEF Line, Course

\* Pushing a snapshot drops what was undone.
LEMMA PushedHistory ==
  ASSUME hist \in Seq(Line), idx \in 1 .. Len(hist), NEW s \in Line
  PROVE  LET h == Append(SubSeq(hist, 1, idx), s)
         IN  h \in Seq(Line) /\ idx + 1 \in 1 .. Len(h)
<1>1. SubSeq(hist, 1, idx) \in Seq(Line) /\ Len(SubSeq(hist, 1, idx)) = idx
  OBVIOUS
<1>. QED BY <1>1, AppendProperties
-----------------------------------------------------------------------------
(* The steps of the drawing.                                                 *)

LEMMA ElsewhereIInv ==
  ASSUME IInv, Elsewhere, Drawn'
  PROVE  IInv'
BY DEF IInv, Elsewhere, segment, loads, Sent, Loaded, SettledIsFresh

\* Outside the editing of a geometry nothing is asked of a drawing.
LEMMA OtherMode ==
  ASSUME Drawn, mode' # "edit_geometry", SetUpEvents
  PROVE  Drawn'
BY DEF Drawn, SetUpEvents

\* A drawing that stays a geometry keeps the pointer where it was, or loses it.
LEMMA SameMode ==
  ASSUME Drawn, mode' = mode, SetUpEvents, selected' = selected, base' = base,
         mode = "edit_geometry" =>
           draft' \in Line /\ hist' \in Seq(Line) /\ idx' \in 1 .. Len(hist')
  PROVE  Drawn'
BY DEF Drawn, SetUpEvents

LEMMA BeginEditDrawn == ASSUME IInv, BeginEdit PROVE Drawn'
<1>1. lines[selected] \in Course
  BY DEF BeginEdit, IInv, Version
<1>2. draft' \in Line /\ hist' = <<draft'>> /\ idx' = 1
  BY <1>1, EditableLine DEF BeginEdit, Draw
<1>3. hist' \in Seq(Line) /\ idx' \in 1 .. Len(hist')
  BY <1>2
<1>4. mode' = "edit_geometry" /\ selected' = selected /\ base' = selected /\ SetUpEvents
  BY DEF BeginEdit
<1>. QED BY <1>2, <1>3, <1>4 DEF IInv, Drawn, SetUpEvents

LEMMA PushDrawn ==
  ASSUME Drawn, NEW s, Push(s), mode' = mode, SetUpEvents, selected' = selected, base' = base,
         mode = "edit_geometry" => s \in Line
  PROVE  Drawn'
<1>. SUFFICES ASSUME mode = "edit_geometry"
              PROVE  draft' \in Line /\ hist' \in Seq(Line) /\ idx' \in 1 .. Len(hist')
  BY SameMode
<1>. QED BY PushedHistory DEF Push, Draw, Drawn

LEMMA ClickLineDrawn ==
  ASSUME Drawn, NEW i \in 1 .. MaxVertices, NEW p \in Way, ClickLine(i, p)
  PROVE  Drawn'
<1>1. draft \in Line /\ i \in 1 .. Len(draft) - 1 /\ p \in Point
  BY DEF ClickLine, Drawn, Point
<1>2. InsertAt(draft, i + 1, p) \in Line
  BY <1>1, InsertedLine
<1>. QED BY <1>2, PushDrawn DEF ClickLine

LEMMA MoveDrawn == ASSUME Drawn, NEW p \in Way, Move(p) PROVE Drawn'
<1>1. mode = "edit_geometry" /\ draft \in Line /\ drag \in 2 .. Len(draft) - 1 /\ p \in Point
  BY DEF Move, Drawn, Point
<1>2. draft' \in Line /\ Len(draft') = Len(draft)
  BY <1>1, MovedLine DEF Move
<1>. QED BY <1>1, <1>2 DEF Move, Drawn

LEMMA ReleaseDrawn == ASSUME Drawn, Release PROVE Drawn'
<1>1. mode = "edit_geometry" /\ draft \in Line /\ hist \in Seq(Line) /\ idx \in 1 .. Len(hist)
  BY DEF Release, Drawn
<1>2. CASE Push(draft)
  BY <1>1, <1>2, PushedHistory DEF Release, Push, Draw, Drawn
<1>3. CASE UNCHANGED drawing
  BY <1>1, <1>3 DEF Release, drawing, Drawn
<1>. QED BY <1>2, <1>3 DEF Release

LEMMA UndoDrawn == ASSUME Drawn, Undo PROVE Drawn'
<1>. SUFFICES ASSUME mode = "edit_geometry"
              PROVE  draft' \in Line /\ hist' \in Seq(Line) /\ idx' \in 1 .. Len(hist')
  BY SameMode DEF Undo
<1>1. hist \in Seq(Line) /\ idx \in 1 .. Len(hist)
  BY DEF Drawn
<1>2. idx > 1 /\ draft' = hist[idx - 1] /\ idx' = idx - 1 /\ hist' = hist
  BY <1>1 DEF Undo, AtFirstOfCable
<1>. QED BY <1>1, <1>2

LEMMA RedoDrawn == ASSUME Drawn, Redo PROVE Drawn'
<1>. SUFFICES ASSUME mode = "edit_geometry"
              PROVE  draft' \in Line /\ hist' \in Seq(Line) /\ idx' \in 1 .. Len(hist')
  BY SameMode DEF Redo
<1>1. hist \in Seq(Line) /\ idx \in 1 .. Len(hist)
  BY DEF Drawn
<1>2. idx < Len(hist) /\ draft' = hist[idx + 1] /\ idx' = idx + 1 /\ hist' = hist
  BY DEF Redo
<1>. QED BY <1>1, <1>2

\* Every step of the drawing itself.
DrawingStep ==
  \/ \E feature \in End \cup {None} \cup 1 .. Version : Select(feature)
  \/ BeginEdit \/ (\E m \in {"view", "draw_point", "draw_cable"} : SetMode(m))
  \/ \E p \in Point : BeginCable(p) \/ ClickCable(p) \/ ClickPoint(p)
  \/ \E p \in Way : Move(p)
  \/ \E i \in 1 .. MaxVertices : Grab(i) \/ \E p \in Way : ClickLine(i, p)
  \/ Release \/ Undo \/ Redo \/ Cancel \/ FinishDrawing

LEMMA DrawingIInv == ASSUME IInv, DrawingStep PROVE IInv'
<1>. SUFFICES Drawn'
  BY ElsewhereIInv DEF DrawingStep, Select, BeginEdit, SetMode, BeginCable, ClickCable, ClickPoint,
     Move, Grab, ClickLine, Release, Undo, Redo, Cancel, FinishDrawing
<1>0. Drawn
  BY DEF IInv
<1>1. ASSUME NEW feature, Select(feature) PROVE Drawn'
  BY <1>0, <1>1 DEF Select, Drawn, drawing
<1>2. CASE BeginEdit
  BY <1>2, BeginEditDrawn
<1>3. ASSUME NEW m \in {"view", "draw_point", "draw_cable"}, SetMode(m) PROVE Drawn'
  BY <1>0, <1>3, OtherMode DEF SetMode
<1>4. ASSUME NEW p \in Point, BeginCable(p) \/ ClickCable(p) \/ ClickPoint(p) PROVE Drawn'
  BY <1>0, <1>4, OtherMode DEF BeginCable, ClickCable, ClickPoint
<1>5. ASSUME NEW p \in Way, Move(p) PROVE Drawn'
  BY <1>0, <1>5, MoveDrawn
<1>6. ASSUME NEW i \in 1 .. MaxVertices, Grab(i) PROVE Drawn'
  BY <1>0, <1>6 DEF Grab, Movable, Drawn, drawing
<1>7. ASSUME NEW i \in 1 .. MaxVertices, NEW p \in Way, ClickLine(i, p) PROVE Drawn'
  BY <1>0, <1>7, ClickLineDrawn
<1>8. CASE Release
  BY <1>0, <1>8, ReleaseDrawn
<1>9. CASE Undo \/ Redo
  BY <1>0, <1>9, UndoDrawn, RedoDrawn
<1>10. CASE Cancel
  BY <1>0, <1>10, OtherMode DEF Cancel, Forget
<1>11. CASE FinishDrawing
  BY <1>0, <1>11 DEF FinishDrawing, Drawn, drawing
<1>. QED BY <1>1, <1>2, <1>3, <1>4, <1>5, <1>6, <1>7, <1>8, <1>9, <1>10, <1>11 DEF DrawingStep

-----------------------------------------------------------------------------
(* The steps of requests and loads.                                          *)

LEMMA SendSent ==
  ASSUME Sent, NEW k \in Request, NEW r, Send(k, r), DOMAIN r = RequestFields,
         k = "save" => r.stage = "sent" /\ r.coords \in Line /\ r.base = r.version
  PROVE  Sent'
<1>1. /\ requests'[k] = r
      /\ \A q \in Request : q # k => requests'[q] = requests[q]
      /\ requests' = [q \in Request |-> requests'[q]]
  BY DEF Send, Sent
<1>2. "save" \in Request
  BY DEF Request
<1>. QED BY <1>1, <1>2 DEF Sent

LEMMA QuietedSent ==
  ASSUME Sent, NEW k \in Request, requests' = [requests EXCEPT ![k] = Quiet]
  PROVE  Sent'
<1>1. "save" \in Request
  BY DEF Request
<1>. QED BY <1>1, Quiets DEF Sent

\* A request that is sent changes nothing else.
LEMMA SendIInv ==
  ASSUME IInv, UNCHANGED <<view, segment, loads>>, Sent'
  PROVE  IInv'
BY DEF IInv, Drawn, Loaded, SettledIsFresh, view, drawing, segment, loads

LEMMA SaveIInv == ASSUME IInv, Save PROVE IInv'
<1>. DEFINE r == [stage |-> "sent", version |-> selected, coords |-> draft, base |-> base]
<1>1. Send("save", r) /\ DOMAIN r = RequestFields
  BY DEF Save, RequestFields
<1>2. selected # None
  BY NoneAssumption DEF Save
<1>3. draft \in Line /\ base = selected
  BY <1>2 DEF Save, IInv, Drawn
<1>4. r.stage = "sent" /\ r.coords \in Line /\ r.base = r.version
  BY <1>3
<1>. HIDE DEF r
<1>5. Sent'
  BY <1>1, <1>4, SendSent DEF IInv, Request
<1>. QED BY <1>1, <1>5, SendIInv DEF Send

LEMMA DeleteIInv == ASSUME IInv, Delete PROVE IInv'
<1>. DEFINE r == [Quiet EXCEPT !.stage = "sent", !.version = selected]
<1>1. Send("delete", r) /\ DOMAIN r = RequestFields
  BY Quiets DEF Delete
<1>. HIDE DEF r
<1>2. Sent'
  BY <1>1, SendSent DEF IInv, Request
<1>. QED BY <1>1, <1>2, SendIInv DEF Send

LEMMA CreateIInv == ASSUME IInv, Create PROVE IInv'
<1>. DEFINE r == [Quiet EXCEPT !.stage = "done"]
<1>1. Send("create", r) /\ DOMAIN r = RequestFields
  BY Quiets DEF Create
<1>. HIDE DEF r
<1>2. Sent'
  BY <1>1, SendSent DEF IInv, Request
<1>. QED BY <1>1, <1>2, SendIInv DEF Send

LEMMA ServeIInv == ASSUME IInv, NEW k \in {"save", "delete"}, Serve(k) PROVE IInv'
<1>. DEFINE r == [Quiet EXCEPT !.stage = "done", !.version = Len(lines')]
<1>1. k \in Request /\ "save" \in Request /\ requests' = [requests EXCEPT ![k] = r]
  BY DEF Serve, Request
<1>2. DOMAIN r = RequestFields /\ r.stage = "done"
  BY Quiets DEF RequestFields
<1>. HIDE DEF r
<1>3. Sent'
  BY <1>1, <1>2 DEF IInv, Sent
<1>4. lines' \in Seq(Course)
  BY DEF Serve, IInv, Sent, Line
<1>. QED BY <1>3, <1>4 DEF Serve, IInv, Drawn, Loaded, SettledIsFresh, view, drawing, loads

LEMMA OtherUserIInv == ASSUME IInv, NEW p \in Way, OtherUser(p) PROVE IInv'
<1>1. <<Start, p, Finish>> \in Seq(Point)
  BY DEF Point
<1>2. <<Start, p, Finish>> \in Course
  BY <1>1 DEF Course
<1>3. lines' \in Seq(Course)
  BY <1>2 DEF OtherUser, IInv
<1>. QED
  BY <1>3 DEF OtherUser, IInv, Drawn, Sent, Loaded, SettledIsFresh, view, drawing, loads

\* A load is asked for: whatever is on its way or shown is old.
LEMMA LoadFeaturesLoaded ==
  ASSUME Loaded, NEW shown, LoadFeatures(shown)
  PROVE  Loaded'
BY DEF Loaded, LoadFeatures, Stale, SettledIsFresh

LEMMA AcknowledgeIInv ==
  ASSUME IInv, NEW k \in Request, NEW shown, Acknowledge(k, shown), Drawn'
  PROVE  IInv'
<1>1. Sent'
  BY QuietedSent DEF Acknowledge, IInv
<1>2. Loaded'
  BY LoadFeaturesLoaded DEF Acknowledge, IInv
<1>. QED BY <1>1, <1>2 DEF Acknowledge, IInv, segment

LEMMA SaveDoneIInv == ASSUME IInv, SaveDone PROVE IInv'
<1>1. Drawn'
  BY OtherMode DEF SaveDone, IInv
<1>. QED BY <1>1, AcknowledgeIInv DEF SaveDone, Request

LEMMA DeleteDoneIInv == ASSUME IInv, DeleteDone PROVE IInv'
<1>1. Drawn'
  BY DEF DeleteDone, IInv, Drawn, drawing
<1>. QED BY <1>1, AcknowledgeIInv DEF DeleteDone, Request

LEMMA CreateDoneIInv == ASSUME IInv, CreateDone PROVE IInv'
<1>1. Drawn'
  BY OtherMode DEF CreateDone, Forget, IInv
<1>. QED BY <1>1, AcknowledgeIInv DEF CreateDone, Request

LEMMA RequestFailsIInv == ASSUME IInv, NEW k \in Request, RequestFails(k) PROVE IInv'
<1>1. Sent'
  BY QuietedSent DEF RequestFails, IInv
<1>. QED BY <1>1, SendIInv DEF RequestFails

LEMMA LoadStepIInv ==
  ASSUME IInv, Ask \/ FireTimer \/ \E f \in flights : ReadFeatures(f) \/ LoadArrives(f) \/ LoadFails(f)
  PROVE  IInv'
<1>1. CASE Ask
  <2>1. Loaded'
    BY <1>1, LoadFeaturesLoaded DEF Ask, IInv
  <2>. QED BY <1>1, <2>1 DEF Ask, IInv, Drawn, Sent, view, drawing, segment
<1>2. CASE FireTimer
  <2>0. DOMAIN Asked = {"read", "version", "fresh"} /\ Asked.fresh = TRUE
    BY DEF Asked
  <2>1. Loaded'
    BY <1>2, <2>0 DEF FireTimer, Replaced, Loaded, SettledIsFresh
  <2>. QED BY <1>2, <2>1 DEF FireTimer, IInv, Drawn, Sent, view, drawing, segment
<1>3. ASSUME NEW f \in flights, ReadFeatures(f) PROVE IInv'
  <2>. DEFINE g == [f EXCEPT !.read = TRUE, !.version = IF gone THEN 0 ELSE Version]
  <2>1. DOMAIN g = {"read", "version", "fresh"} /\ g.fresh = f.fresh
    BY DEF IInv, Loaded
  <2>2. flights' = (flights \ {f}) \cup {g}
    BY <1>3 DEF ReadFeatures
  <2>. HIDE DEF g
  <2>3. Loaded'
    BY <1>3, <2>1, <2>2 DEF ReadFeatures, IInv, Loaded, SettledIsFresh
  <2>. QED BY <1>3, <2>3 DEF ReadFeatures, IInv, Drawn, Sent, view, drawing, segment
<1>4. ASSUME NEW f \in flights, LoadArrives(f) PROVE IInv'
  <2>1. Loaded'
    BY <1>4 DEF LoadArrives, IInv, Loaded, SettledIsFresh
  <2>. QED BY <1>4, <2>1 DEF LoadArrives, IInv, Drawn, Sent, drawing, segment
<1>5. ASSUME NEW f \in flights, LoadFails(f) PROVE IInv'
  <2>1. Loaded'
    BY <1>5 DEF LoadFails, IInv, Loaded, SettledIsFresh
  <2>. QED BY <1>5, <2>1 DEF LoadFails, IInv, Drawn, Sent, view, drawing, segment
<1>. QED BY <1>1, <1>2, <1>3, <1>4, <1>5

-----------------------------------------------------------------------------
LEMMA NextIInv == IInv /\ [Next]_vars => IInv'
<1>. SUFFICES ASSUME IInv, [Next]_vars PROVE IInv'
  OBVIOUS
<1>1. CASE DrawingStep
  BY <1>1, DrawingIInv
<1>2. CASE Save \/ Delete \/ Create \/ SaveDone \/ DeleteDone \/ CreateDone
  BY <1>2, SaveIInv, DeleteIInv, CreateIInv, SaveDoneIInv, DeleteDoneIInv, CreateDoneIInv
<1>3. ASSUME NEW k \in {"save", "delete"}, Serve(k) PROVE IInv'
  BY <1>3, ServeIInv
<1>4. ASSUME NEW k \in Request, RequestFails(k) PROVE IInv'
  BY <1>4, RequestFailsIInv
<1>5. ASSUME NEW p \in Way, OtherUser(p) PROVE IInv'
  BY <1>5, OtherUserIInv
<1>6. CASE Ask \/ FireTimer \/ \E f \in flights : ReadFeatures(f) \/ LoadArrives(f) \/ LoadFails(f)
  BY <1>6, LoadStepIInv
<1>7. CASE UNCHANGED vars
  BY <1>7 DEF vars, IInv, Drawn, Sent, Loaded, SettledIsFresh, view, drawing, segment, loads
<1>. QED BY <1>1, <1>2, <1>3, <1>4, <1>5, <1>6, <1>7 DEF Next, DrawingStep

\* The drawing of an edited geometry keeps both ends, whatever is dragged,
\* inserted, undone or answered meanwhile.
THEOREM EndsAreKept == Spec => []EndpointsKept
<1>1. IInv => EndpointsKept
  BY DEF IInv, Drawn, Line, Course, EndpointsKept, Last
<1>. QED BY <1>1, InitIInv, NextIInv, PTL DEF Spec

\* A map at rest shows the answer of a load begun after the last cause for one.
THEOREM RestShowsNewestLoad == Spec => []SettledIsFresh
<1>1. IInv => SettledIsFresh
  BY DEF IInv, Loaded
<1>. QED BY <1>1, InitIInv, NextIInv, PTL DEF Spec

\* A save takes effect only on the version its geometry was copied from.
LEMMA SaveStep ==
  ASSUME IInv, [Next]_vars, requests["save"].stage = "sent", requests'["save"].stage = "done"
  PROVE  requests["save"].base = Version
<1>0. "save" \in Request /\ Sent
  BY DEF Request, IInv
<1>1. CASE Serve("save")
  BY <1>0, <1>1 DEF Serve, Matching, Sent
<1>2. CASE requests'["save"] = requests["save"] \/ requests'["save"].stage = "none"
  BY <1>2
<1>3. ASSUME NEW k \in Request, NEW r, Send(k, r) PROVE requests'["save"] = requests["save"]
  BY <1>0, <1>3 DEF Send, UnderWay, Sent
<1>4. CASE DrawingStep
  BY <1>2, <1>4 DEF DrawingStep, Elsewhere, Select, BeginEdit, SetMode, BeginCable, ClickCable,
     ClickPoint, Move, Grab, ClickLine, Release, Undo, Redo, Cancel, FinishDrawing
<1>5. CASE Save \/ Delete \/ Create
  BY <1>2, <1>3, <1>5 DEF Save, Delete, Create, Request
<1>6. ASSUME NEW k \in Request, requests' = [requests EXCEPT ![k] = Quiet]
      PROVE  requests'["save"] = requests["save"] \/ requests'["save"].stage = "none"
  BY <1>0, <1>6, Quiets DEF Sent
<1>7. CASE SaveDone \/ DeleteDone \/ CreateDone
  BY <1>2, <1>6, <1>7 DEF SaveDone, DeleteDone, CreateDone, Acknowledge, Request
<1>8. ASSUME NEW k \in Request, RequestFails(k) PROVE requests["save"].base = Version
  BY <1>2, <1>6, <1>8 DEF RequestFails
<1>9. CASE Serve("delete")
  <2>1. requests'["save"] = requests["save"]
    BY <1>0, <1>9 DEF Serve, Sent
  <2>. QED BY <1>2, <2>1
<1>10. ASSUME NEW p \in Way, OtherUser(p) PROVE requests["save"].base = Version
  BY <1>2, <1>10 DEF OtherUser
<1>11. CASE Ask \/ FireTimer \/ \E f \in flights : ReadFeatures(f) \/ LoadArrives(f) \/ LoadFails(f)
  BY <1>2, <1>11 DEF Ask, FireTimer, ReadFeatures, LoadArrives, LoadFails
<1>12. CASE UNCHANGED vars
  BY <1>2, <1>12 DEF vars
<1>. QED BY <1>1, <1>4, <1>5, <1>7, <1>8, <1>9, <1>10, <1>11, <1>12 DEF Next, DrawingStep

\* No save overwrites a change that its author has not seen.
THEOREM NothingIsOverwritten == Spec => NoLostUpdate
<1>1. IInv /\ [Next]_vars =>
        (requests["save"].stage = "sent" /\ requests'["save"].stage = "done"
           => requests["save"].base = Version)
  BY SaveStep
<1>. QED BY <1>1, InitIInv, NextIInv, PTL DEF Spec, NoLostUpdate
=============================================================================

------------------------------- MODULE Console -------------------------------
(* One browser with one page of the console open: the fusion editor's load   *)
(* of a box beside its writers, the trace of a plant, a record with its      *)
(* forms, a CTO with its ports, a wizard, a view with its answer, or the     *)
(* drawing of the map.  The pages share no state; route says which is open.  *)
EXTENDS Activation, FiniteSets

CONSTANTS
  Txn, Terminal, ConnId, Structure, Site, Adapter, MaxRevision, Box,
  LocationOf, Request,                    \* of Connectivity
  Queries,                                \* of Trace
  Followed, MaxSaves,                     \* of Records, MaxSaves its MaxVersion
  Job, MaxPolls,                          \* of Wizard
  Questions, Choice, MaxQuestions,        \* of Views, Questions the views and inputs followed
  MaxData                                 \* of Basemap

ASSUME NoJobIsNone == None \notin Job
ASSUME NoChoiceIsNone == None \notin Choice

VARIABLES
  route,
  occ, resv, conn, rev, pc, req, seen, todo, wOcc, wResv, late, born, dead, locks, shares,
  boxPage, boxStep,
  traceQuery, traceGraph, traceQueue, tracePaths, traceCycle, traceLimited, traceIncomplete, tracePc,
  recordSubject, recordPlace, recordRow, recordCache, recordDialog, recordRequest, recordSaved,
  jobKind, jobStep, jobPreview, jobStrategy, jobRequest, jobTracked, jobShown, jobTimer, jobPolls,
  jobCancel, jobStatus,
  viewSubject, viewOpen, viewChosen, viewTimer, viewUnder, viewBusy, viewLast, viewAsked,
  viewFailed, viewShown, viewOverlapped,
  mapData, mapMounted, mapStyle, mapComing, mapWorking, mapDrawn, mapSynced, mapSkipped

box == <<occ, resv, conn, rev, pc, req, seen, todo, wOcc, wResv, late, born, dead, locks, shares,
         boxPage, boxStep>>
trace == <<traceQuery, traceGraph, traceQueue, tracePaths, traceCycle, traceLimited,
           traceIncomplete, tracePc>>
record == <<recordSubject, recordPlace, recordRow, recordCache, recordDialog, recordRequest,
            recordSaved>>
cto == vars
job == <<jobKind, jobStep, jobPreview, jobStrategy, jobRequest, jobTracked, jobShown, jobTimer,
         jobPolls, jobCancel, jobStatus>>
answer == <<viewSubject, viewOpen, viewChosen, viewTimer, viewUnder, viewBusy, viewLast,
            viewAsked, viewFailed, viewShown, viewOverlapped>>
map == <<mapData, mapMounted, mapStyle, mapComing, mapWorking, mapDrawn, mapSynced, mapSkipped>>

(***************************************************************************)
(* The pages and their instances                                           *)
(***************************************************************************)
E == INSTANCE ConnectivityReader WITH page <- boxPage, step <- boxStep

T == INSTANCE Trace WITH
  query <- traceQuery, graph <- traceGraph,
  queue <- traceQueue, paths <- tracePaths, cycle <- traceCycle, limited <- traceLimited,
  incomplete <- traceIncomplete, pc <- tracePc

R == INSTANCE Records WITH
  MaxVersion <- MaxSaves,
  subject <- recordSubject, place <- recordPlace, row <- recordRow, cache <- recordCache,
  dialog <- recordDialog, request <- recordRequest, saved <- recordSaved

W == INSTANCE Wizard WITH
  kind <- jobKind, step <- jobStep, preview <- jobPreview, strategy <- jobStrategy,
  request <- jobRequest, tracked <- jobTracked, shown <- jobShown, timer <- jobTimer,
  polls <- jobPolls, cancel <- jobCancel, status <- jobStatus

Q == INSTANCE Views WITH
  Followed <- Questions, Value <- Choice,
  subject <- viewSubject, open <- viewOpen, chosen <- viewChosen, timer <- viewTimer,
  under <- viewUnder, busy <- viewBusy, last <- viewLast, asked <- viewAsked,
  failed <- viewFailed, shown <- viewShown, overlapped <- viewOverlapped

B == INSTANCE Basemap WITH
  data <- mapData, mounted <- mapMounted, style <- mapStyle, coming <- mapComing,
  working <- mapWorking, drawn <- mapDrawn, synced <- mapSynced, skipped <- mapSkipped

\* As RequestAssumption of Connectivity has it.
ASSUME RequestsFormed ==
  /\ Request \subseteq E!Requests
  /\ \A r \in Request :
       /\ r.kind = "deactivate" => r.conn \in ConnId
       /\ \A i \in DOMAIN r.ops : r.ops[i].act = "deactivate" => r.kind = "deactivate"
ASSUME FormsFollowed == \A s \in Followed : s[1] \in R!Form
ASSUME QueriesFormed == \A q \in Queries : T!WellFormed(q)
ASSUME NoRecordIsNone == None \notin R!Snapshot
ASSUME QuestionsScreened == Questions \subseteq Q!Screened

TraceClosed ==
  /\ traceQuery = None /\ traceGraph = None /\ traceQueue = None /\ tracePaths = None
  /\ traceCycle = None /\ traceLimited = None /\ traceIncomplete = None /\ tracePc = None
RecordClosed ==
  /\ recordSubject = None /\ recordPlace = None /\ recordRow = None /\ recordCache = None
  /\ recordDialog = None /\ recordRequest = None /\ recordSaved = None
\* A CTO without services that nobody looks at.
CtoClosed ==
  /\ links = <<>> /\ page = Occupancy /\ load = NoLoad
  /\ selected = None /\ ending = None /\ sent = None /\ ends = None
  /\ wizard = [open |-> FALSE, step |-> 1, customer |-> None, onu |-> None,
               port |-> None, begun |-> None, picked |-> FALSE]
JobClosed ==
  /\ jobKind = None /\ jobStep = None /\ jobPreview = None /\ jobStrategy = None
  /\ jobRequest = None /\ jobTracked = None /\ jobShown = None /\ jobTimer = None
  /\ jobPolls = None /\ jobCancel = None /\ jobStatus = None

ViewClosed ==
  /\ viewSubject = None /\ viewOpen = None /\ viewChosen = None /\ viewTimer = None
  /\ viewUnder = None /\ viewBusy = None /\ viewLast = None /\ viewAsked = None
  /\ viewFailed = None /\ viewShown = None /\ viewOverlapped = None
MapClosed ==
  /\ mapData = None /\ mapMounted = None /\ mapStyle = None /\ mapComing = None
  /\ mapWorking = None /\ mapDrawn = None /\ mapSynced = None /\ mapSkipped = None

ConsoleInit ==
  /\ E!ReaderInit
  /\ route \in {"box", "trace", "record", "cto", "job", "view", "map"}
  /\ IF route = "trace" THEN T!Init ELSE TraceClosed
  /\ IF route = "record" THEN R!Init ELSE RecordClosed
  /\ IF route = "cto" THEN Init ELSE CtoClosed
  /\ IF route = "job" THEN W!Init ELSE JobClosed
  /\ IF route = "view" THEN Q!Init ELSE ViewClosed
  /\ IF route = "map" THEN B!Init ELSE MapClosed

ConsoleNext ==
  \/ route = "box" /\ E!ReaderNext /\ UNCHANGED <<trace, record, cto, job, answer, map>>
  \/ route = "trace" /\ T!Next /\ UNCHANGED <<box, record, cto, job, answer, map>>
  \/ route = "record" /\ R!Next /\ UNCHANGED <<box, trace, cto, job, answer, map>>
  \/ route = "cto" /\ Next /\ UNCHANGED <<box, trace, record, job, answer, map>>
  \/ route = "job" /\ W!Next /\ UNCHANGED <<box, trace, record, cto, answer, map>>
  \/ route = "view" /\ Q!Next /\ UNCHANGED <<box, trace, record, cto, job, map>>
  \/ route = "map" /\ B!Next /\ UNCHANGED <<box, trace, record, cto, job, answer>>

pages == <<box, trace, record, cto, job, answer, map>>

ConsoleSpec == ConsoleInit /\ [][ConsoleNext /\ UNCHANGED route]_<<route, pages>>

(***************************************************************************)
(* The properties of the pages, each stated in the module of the page.     *)
(* Those of Activation, which is extended, need no name here.              *)
(***************************************************************************)
\* Types of the pages.
Typed ==
  /\ route = "trace" => T!TypeOK
  /\ route = "record" => R!TypeOK
  /\ TypeOK
  /\ route = "job" => W!TypeOK
  /\ route = "view" => Q!TypeOK
  /\ route = "map" => B!TypeOK

\* Trace: the paths of a response are exactly the walks of the plant.
PathsAreExact == route = "trace" => T!PathsAreExact
\* Trace: a complete response leaves no loose end.
CompleteLeavesNoLooseEnd == route = "trace" => T!CompleteLeavesNoLooseEnd
\* Trace: the limits cut the farthest results.
LimitCutsTheFarthest == route = "trace" => T!LimitCutsTheFarthest

\* Records: a save changes what was typed and nothing anybody else has changed.
NothingOverwritten == R!NothingOverwritten
\* Records: a page at rest shows the operator's own last save or something newer.
OwnSaveShown == route = "record" => R!OwnSaveShown

\* The editor's load: a page whose revision is current is what the database holds.
PageIsCurrent == E!PageIsCurrent

\* Wizard: a job shown as ended has ended.
EndShownIsReal == route = "job" => W!EndShownIsReal

\* Views: at rest, what is shown answers the last question.
ShowsLastAnswer == route = "view" => Q!ShowsLastAnswer
\* Views: a split is confirmed with the fibers of its own segment.
SplitsOwnFibers == route = "view" => Q!SplitsOwnFibers

\* Map: a new style draws the newest network, selection and draft again.
StyleKeepsTheNetwork == route = "map" => B!StyleKeepsTheNetwork
=============================================================================

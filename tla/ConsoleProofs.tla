---------------------------- MODULE ConsoleProofs ----------------------------
(***************************************************************************)
(* What the pages of the console promise, for any number of jobs, polls,   *)
(* questions and versions.  Each page has an invariant of its own, proved  *)
(* over the steps of its module; the pages share no state, so the console  *)
(* keeps the invariant of the page that is open.                           *)
(***************************************************************************)
EXTENDS Console, TLAPS

(***************************************************************************)
(* The wizards.  Whatever is known of a job, shown, in a poll or in the    *)
(* answer to a cancellation, was true of it once, and a job that has ended *)
(* stays so: neither workers nor cancellations touch it any more.          *)
(***************************************************************************)
Heard(a) ==
  a # None => a.id \in Job /\ (a.status \in W!Finished => jobStatus[a.id] \in W!Finished)

JobInv ==
  /\ DOMAIN jobStatus = Job
  /\ jobTimer \/ jobPolls # {} => jobTracked \in Job
  /\ jobTracked \in Job \cup {None}
  /\ Heard(jobShown)
  /\ \A p \in jobPolls : Heard(p)
  /\ jobCancel # None => DOMAIN jobCancel = {"stage", "id", "answer"} /\ jobCancel.id \in Job
  /\ jobCancel # None /\ jobCancel.stage = "done" => Heard(jobCancel.answer)
  /\ jobRequest # None => DOMAIN jobRequest = {"what", "stage", "job", "preview"}
  /\ jobRequest # None /\ jobRequest.stage = "done" /\ jobRequest.what # "preview" =>
       jobRequest.job \in Job

\* No job comes back.
EndsLast ==
  /\ DOMAIN jobStatus' = DOMAIN jobStatus
  /\ \A j \in Job : jobStatus[j] \in W!Finished => jobStatus'[j] \in W!Finished

LEMMA HeardStays ==
  ASSUME EndsLast, NEW a, Heard(a)
  PROVE  Heard(a)'
BY DEF EndsLast, Heard

LEMMA JobInit == W!Init => JobInv
BY NoJobIsNone DEF W!Init, JobInv, Heard, W!Created

LEMMA JobStep == JobInv /\ W!Next => JobInv'
<1> SUFFICES ASSUME JobInv, W!Next
             PROVE  JobInv'
  OBVIOUS
<1> USE NoJobIsNone DEF JobInv
<1>1. EndsLast
  <2>1. CASE W!ServeCancel
    BY <2>1 DEF W!ServeCancel, W!CancelStored, W!Served, EndsLast
  <2>2. CASE W!Serve
    BY <2>2 DEF W!Serve, W!Created, W!Finished, EndsLast
  <2>3. ASSUME NEW j \in Job, W!Proceed(j) PROVE EndsLast
    BY <2>3 DEF W!Proceed, W!Finished, W!Unfinished, EndsLast
  <2>4. CASE UNCHANGED jobStatus
    BY <2>4 DEF EndsLast
  <2> QED
    BY <2>1, <2>2, <2>3, <2>4 DEF W!Next, W!Tick, W!ReadJob, W!Cancel, W!CancelAnswered,
       W!CancelFails, W!PollArrives, W!PollFails, W!GeneratePreview, W!Commit, W!RequestExport,
       W!Reset, W!Succeeds, W!RequestFails, W!Go, W!ChooseStrategy
<1> DEFINE Polling == W!Tick \/ W!ReadJob \/ \E p \in jobPolls : W!PollArrives(p) \/ W!PollFails(p)
           Cancelling == W!Cancel \/ W!ServeCancel \/ W!CancelAnswered \/ W!CancelFails
           Asking == \/ W!GeneratePreview \/ W!Commit \/ W!RequestExport \/ W!Serve \/ W!Succeeds
                     \/ W!RequestFails \/ W!Reset
           Elsewhere == \/ W!Go("preview", "upload") \/ W!Go("preview", "strategy")
                        \/ W!Go("strategy", "preview")
                        \/ (\E s \in {"error", "skip"} : W!ChooseStrategy(s))
                        \/ \E j \in Job : W!Proceed(j)
<1>a. \A a : Heard(a) => Heard(a)'
  BY <1>1, HeardStays
<1>b. \A a : a = None => Heard(a)'
  BY DEF Heard
<1>2. CASE Polling
  <2>1. CASE W!Tick
    BY <1>a, <1>b, <2>1 DEF W!Tick, W!form
  <2>2. CASE W!ReadJob
    <3>1. jobTracked \in Job /\ Heard(W!Answer(jobTracked))
      BY <2>2 DEF W!ReadJob, W!Answer, Heard
    <3> QED BY <1>a, <2>2, <3>1 DEF W!ReadJob, W!form
  <2>3. ASSUME NEW p \in jobPolls, W!PollArrives(p) \/ W!PollFails(p) PROVE JobInv'
    BY <1>a, <2>3 DEF W!PollArrives, W!PollFails, W!form
  <2> QED BY <1>2, <2>1, <2>2, <2>3
<1>3. CASE Cancelling
  <2>1. CASE W!Cancel
    BY <1>a, <2>1 DEF W!Cancel, W!CancelAsked, W!form
  <2>2. CASE W!ServeCancel
    <3> DEFINE told == [id |-> jobCancel.id,
                           status |-> W!Served(jobCancel.id)[jobCancel.id]]
    <3>1. \A a : a = told => Heard(a)'
      BY <2>2 DEF W!ServeCancel, W!CancelStored, W!Served, Heard
    <3>2. /\ jobCancel'.answer = told /\ jobCancel'.id = jobCancel.id
          /\ DOMAIN jobCancel' = {"stage", "id", "answer"}
      BY <2>2 DEF W!ServeCancel
    <3> HIDE DEF told
    <3> QED BY <1>a, <1>1, <2>2, <3>1, <3>2 DEF W!ServeCancel, W!form, EndsLast
  <2>3. CASE W!CancelAnswered \/ W!CancelFails
    BY <1>a, <2>3 DEF W!CancelAnswered, W!CancelFails, W!form
  <2> QED BY <1>3, <2>1, <2>2, <2>3
<1>4. CASE Asking
  <2>1. CASE W!GeneratePreview \/ W!Commit \/ W!RequestExport \/ W!RequestFails
    BY <1>a, <2>1 DEF W!GeneratePreview, W!Commit, W!RequestExport, W!RequestFails, W!Sent, W!hook
  <2>2. CASE W!Serve
    BY <1>a, <1>1, <2>2 DEF W!Serve, W!Created, W!hook, EndsLast
  <2>3. CASE W!Succeeds
    BY <1>a, <2>3 DEF W!Succeeds, W!Track, W!hook, Heard
  <2>4. CASE W!Reset
    BY <1>a, <2>4 DEF W!Reset, W!Track, Heard
  <2> QED BY <1>4, <2>1, <2>2, <2>3, <2>4
<1>5. CASE Elsewhere
  BY <1>a, <1>1, <1>5 DEF W!Go, W!ChooseStrategy, W!Proceed, W!form, W!hook, EndsLast
<1> QED BY <1>2, <1>3, <1>4, <1>5 DEF W!Next

\* However polls overtake each other and a cancellation races with the worker, a
\* job that a wizard shows as ended (useJobPolling) has ended.
THEOREM EndsAreReal == ConsoleSpec => []EndShownIsReal
<1> DEFINE Inv == route = "job" => JobInv
<1>1. ConsoleInit => Inv
  BY JobInit DEF ConsoleInit
<1>2. Inv /\ [ConsoleNext /\ UNCHANGED route]_<<route, pages>> => Inv'
  <2>1. CASE ConsoleNext /\ UNCHANGED route
    BY <2>1, JobStep DEF ConsoleNext
  <2>2. CASE UNCHANGED <<route, pages>>
    BY <2>2 DEF pages, job, JobInv, Heard
  <2> QED BY <2>1, <2>2
<1>3. Inv => EndShownIsReal
  BY DEF JobInv, Heard, EndShownIsReal, W!EndShownIsReal
<1> QED BY <1>1, <1>2, <1>3, PTL DEF ConsoleSpec

(***************************************************************************)
(* The drawing of the map.  The viewport is reported at most once before a *)
(* style is there: the first style of a map reports it, later ones do not. *)
(***************************************************************************)
MapInv == mapSynced \in {0, 1} /\ B!StyleKeepsTheNetwork

LEMMA MapInit == B!Init => MapInv
BY DEF B!Init, MapInv, B!StyleKeepsTheNetwork

\* A render that meets a busy style leaves older data, and says so; every
\* other step draws the newest data or ends the style.
LEMMA MapStep == MapInv /\ B!Next => MapInv'
<1> SUFFICES ASSUME MapInv, B!Next
             PROVE  MapInv'
  OBVIOUS
<1> USE DEF MapInv, B!StyleKeepsTheNetwork
<1>1. CASE B!Render
  <2>1. CASE B!isStyleLoaded
    BY <1>1, <2>1 DEF B!Render, B!isStyleLoaded
  <2>2. CASE ~B!isStyleLoaded
    BY <1>1, <2>2 DEF B!Render
  <2> QED BY <2>1, <2>2
<1>2. CASE B!setupSourcesAndLayers
  BY <1>2 DEF B!setupSourcesAndLayers, B!currentGeoJson, B!Newest
<1>3. CASE B!StyleArrives \/ B!Remount
  BY <1>3 DEF B!StyleArrives, B!Remount, B!Created
<1>4. CASE B!SwitchTheme \/ B!Move \/ B!Settle
  BY <1>4 DEF B!SwitchTheme, B!Move, B!Settle
<1> QED BY <1>1, <1>2, <1>3, <1>4 DEF B!Next

\* What is filtered, selected or drawn is never lost with a style: once the
\* style is loaded the newest data is drawn, but for an update that met a
\* busy map (setupSourcesAndLayers reads geoJsonRef when it runs).
THEOREM NetworkSurvivesStyles == ConsoleSpec => []StyleKeepsTheNetwork
<1> DEFINE Inv == route = "map" => MapInv
<1>1. ConsoleInit => Inv
  BY MapInit DEF ConsoleInit
<1>2. Inv /\ [ConsoleNext /\ UNCHANGED route]_<<route, pages>> => Inv'
  <2>1. CASE ConsoleNext /\ UNCHANGED route
    BY <2>1, MapStep DEF ConsoleNext
  <2>2. CASE UNCHANGED <<route, pages>>
    BY <2>2 DEF pages, map, MapInv, B!StyleKeepsTheNetwork
  <2> QED BY <2>1, <2>2
<1>3. Inv => StyleKeepsTheNetwork
  BY DEF MapInv, StyleKeepsTheNetwork
<1> QED BY <1>1, <1>2, <1>3, PTL DEF ConsoleSpec

(***************************************************************************)
(* The views.  What the proofs need of the table of Screens, for the input *)
(* i of the view v.                                                        *)
(***************************************************************************)
Emptied(v) == Q!ViewOf[v].button = "disabled" \/ "emptying" \in Q!ViewOf[v].clears

\* The guard against older answers is missing but in the views that say so,
\* and in the budget, whose button waits for the answer.
Guard(v) ==
  LET X == Q!ViewOf[v] IN
    /\ X.takes = "any" => v \in Q!Unguarded \cup {"budget"}
    /\ "ending" \in X.clears => X.takes = "any" /\ X.button = "disabled"

\* A question that is given up leaves no answer behind it.
LeavesNothing(v, i) ==
  LET X == Q!ViewOf[v] IN
    /\ i \in X.asks /\ Emptied(v) => "emptying" \in X.clears
    /\ X.dialog /\ ~X.heedsOpen => "emptying" \in X.clears /\ "opening" \in X.clears
    /\ X.asks \ ({i} \cup Q!Given) # {} =>
         "asking" \in X.clears \/ (~Emptied(v) /\ X.button # "apply")

\* An input that is shown beside the answer asks when it changes.
PanelAsks(v, i) ==
  LET X == Q!ViewOf[v] IN
    i \in Q!PanelOf[v] =>
      X.again = "no" /\ X.linked = FALSE /\ X.button # "apply" /\ (i \in X.asks \/ i \in Q!Given)

BudgetAlone(v) ==
  LET X == Q!ViewOf[v] IN
    v = "budget" =>
      /\ X.takes = "any" /\ X.asks = {} /\ X.button = "disabled" /\ X.again = "no"
      /\ X.linked = FALSE /\ X.dialog = FALSE /\ X.first = FALSE /\ "ending" \notin X.clears

FibersAlone(v, i) ==
  LET X == Q!ViewOf[v] IN
    v = "fibers" =>
      /\ X.dialog = TRUE /\ X.heedsOpen = TRUE /\ X.takes = "newest" /\ X.asks = {}
      /\ X.button = "none" /\ X.again = "no" /\ X.linked = FALSE /\ X.delayed = FALSE
      /\ "asking" \in X.clears /\ "ending" \notin X.clears /\ i \in Q!Given /\ i \notin X.keeps

\* What is asked again, or waits for the timer, is never empty.
NeverEmpty(v, i) ==
  LET X == Q!ViewOf[v] IN
    /\ X.again # "no" => X.dialog = FALSE /\ X.first = TRUE /\ ~Emptied(v)
    /\ X.delayed # FALSE =>
         X.button # "apply" /\ "ending" \notin X.clears /\ (Emptied(v) => i \in X.asks)

Shaped(v, i) ==
  /\ Guard(v) /\ LeavesNothing(v, i) /\ PanelAsks(v, i) /\ NeverEmpty(v, i)
  /\ BudgetAlone(v) /\ FibersAlone(v, i)

LEMMA TableShaped ==
  ASSUME NEW v \in DOMAIN Q!ViewOf, NEW i \in Q!InputsOf[v]
  PROVE  Shaped(v, i)
<1> USE DEF Q!ViewOf, Q!InputsOf, Shaped, Guard, LeavesNothing, PanelAsks, NeverEmpty, BudgetAlone,
     FibersAlone, Emptied, Q!PanelOf, Q!Given, Q!Unguarded, Q!Plain
<1>1. CASE v = "trace"
  BY <1>1 DEF Q!TraceView, Q!TraceInputs, Q!TracePanel
<1>2. CASE v = "budget"
  BY <1>2 DEF Q!BudgetView, Q!BudgetInputs, Q!BudgetOrigin, Q!BudgetPanel
<1>3. CASE v = "links"
  BY <1>3 DEF Q!LinksView
<1>4. CASE v = "simulation"
  BY <1>4 DEF Q!SimulationView, Q!SimulationInputs, Q!SimulationPanel
<1>5. CASE v = "search"
  BY <1>5 DEF Q!SearchView, Q!Search, Q!SearchPanel
<1>6. CASE v = "comparison"
  BY <1>6 DEF Q!ComparisonView, Q!ComparisonPanel
<1>7. CASE v = "fibers"
  BY <1>7 DEF Q!FibersView, Q!Fibers
<1>8. CASE v = "preview"
  BY <1>8 DEF Q!PreviewView, Q!SplitInputs, Q!PreviewPanel
<1>9. CASE v = "audit"
  BY <1>9 DEF Q!AuditTimeline, Q!AuditInputs
<1>10. CASE v = "occupancy"
  BY <1>10 DEF Q!OccupancyTab, Q!CapacityTab, Q!OccupancyInputs
<1>11. CASE v = "capacity"
  BY <1>11 DEF Q!CapacityTab, Q!CapacityInputs
<1>12. CASE v = "inconsistencies"
  BY <1>12 DEF Q!InconsistenciesTab, Q!CapacityTab
<1> QED
  BY <1>1, <1>2, <1>3, <1>4, <1>5, <1>6, <1>7, <1>8, <1>9, <1>10, <1>11, <1>12

\* Questions are numbered in the order they are asked or given up.
Numbered ==
  /\ viewLast \in Nat
  /\ \A q \in viewUnder :
       DOMAIN q = {"n", "about", "off"} /\ q.n \in Nat /\ q.n <= viewLast /\ q.off \in BOOLEAN
  /\ viewShown # None => viewShown.n \in Nat /\ viewShown.n <= viewLast

\* An open view is busy for a question that will still say when it is over.
BusyForSomething ==
  viewOpen /\ viewBusy =>
    viewTimer \/ \E q \in viewUnder : q.off = FALSE \/ Q!V.takes # "observed"

\* Where the code guards, or no questions overlap, only the last one is heard.
OnlyLastHeard ==
  /\ Q!V.takes = "any" => \A q \in viewUnder : q.off = FALSE
  /\ Q!V.takes # "any" \/ ~viewOverlapped =>
       \A q \in viewUnder : q.off = FALSE => q.n = viewLast

\* Its answer is to come, or is shown, or has been cleared.
AnswerComing ==
  viewOpen /\ ~viewFailed /\ (Q!V.takes = "any" => ~viewOverlapped) =>
    \/ viewTimer
    \/ \E q \in viewUnder : q.off = FALSE /\ q.n = viewLast
    \/ viewShown = None
    \/ viewShown.n = viewLast

PageOpen == Q!V.dialog \/ viewOpen

FilledIn == viewOpen /\ ~Emptied(viewSubject[1]) => viewChosen # None

PanelAgrees ==
  viewOpen /\ ~viewTimer /\ Q!Input \in Q!PanelOf[viewSubject[1]] =>
    /\ \A q \in viewUnder : q.n = viewLast => q.about = viewChosen
    /\ viewShown # None /\ viewShown.n = viewLast => viewShown.about = viewChosen

OwnFibers ==
  viewSubject[1] = "fibers" /\ viewOpen =>
    /\ viewShown # None => viewShown.about = viewChosen
    /\ \A q \in viewUnder : q.off = FALSE => q.about = viewChosen

OneBudget ==
  viewSubject[1] = "budget" =>
    /\ ~viewTimer /\ ~viewOverlapped
    /\ viewUnder # {} => viewBusy /\ \E q \in viewUnder : viewUnder = {q}

ViewInv ==
  /\ viewSubject \in Questions
  /\ Numbered /\ BusyForSomething /\ OnlyLastHeard /\ AnswerComing
  /\ PageOpen /\ FilledIn /\ PanelAgrees /\ OwnFibers /\ OneBudget

LEMMA SubjectShaped ==
  ASSUME viewSubject \in Questions
  PROVE  Shaped(viewSubject[1], viewSubject[2])
<1>1. PICK v \in DOMAIN Q!ViewOf : viewSubject \in {v} \X Q!InputsOf[v]
  BY QuestionsScreened DEF Q!Screened
<1>2. viewSubject[1] = v /\ viewSubject[2] \in Q!InputsOf[v]
  BY <1>1
<1> QED BY <1>2, TableShaped

\* A question that is asked is the only one heard, and about what is chosen.
LEMMA AskKeeps ==
  ASSUME ViewInv, NEW v, Q!Ask(v), viewSubject' = viewSubject,
         viewShown' \in {None, viewShown}
  PROVE  /\ Numbered' /\ BusyForSomething' /\ OnlyLastHeard' /\ AnswerComing'
         /\ v = viewChosen' => PanelAgrees'
         /\ v = viewChosen' /\ viewShown' = None /\ Q!V.takes = "newest" => OwnFibers'
         /\ ~viewBusy => OneBudget'
<1> DEFINE new == [n |-> viewLast + 1, about |-> v, off |-> FALSE]
<1>1. /\ viewLast' = viewLast + 1 /\ viewUnder' = Q!Dropped \cup {new}
      /\ viewOverlapped' = (viewOverlapped \/ viewUnder # {})
      /\ viewBusy' /\ viewTimer' = FALSE /\ viewFailed' = FALSE
      /\ Q!V' = Q!V /\ Q!Input' = Q!Input
  BY DEF Q!Ask, Q!V, Q!Input
<1>2. /\ \A q \in Q!Dropped : /\ DOMAIN q = {"n", "about", "off"} /\ q.off \in BOOLEAN
                              /\ q.n \in Nat /\ q.n <= viewLast
      /\ Q!V.takes = "any" => Q!Dropped = viewUnder
      /\ Q!V.takes # "any" => \A q \in Q!Dropped : q.off = TRUE
  BY DEF Q!Dropped, ViewInv, Numbered
<1>3. new.n = viewLast + 1 /\ new.about = v /\ new.off = FALSE /\ new.off \in BOOLEAN
      /\ DOMAIN new = {"n", "about", "off"}
  OBVIOUS
<1> HIDE DEF new
<1>4. Numbered'
  <2>1. viewLast \in Nat /\ viewLast' \in Nat /\ viewLast <= viewLast' /\ new.n = viewLast'
    BY <1>1, <1>3 DEF Numbered, ViewInv
  <2>2. viewShown' # None => viewShown'.n \in Nat /\ viewShown'.n <= viewLast'
    BY <2>1 DEF Numbered, ViewInv
  <2>3. \A q \in viewUnder' : /\ DOMAIN q = {"n", "about", "off"} /\ q.off \in BOOLEAN
                              /\ q.n \in Nat /\ q.n <= viewLast'
    <3> SUFFICES ASSUME NEW q \in viewUnder'
                 PROVE  /\ DOMAIN q = {"n", "about", "off"} /\ q.off \in BOOLEAN
                        /\ q.n \in Nat /\ q.n <= viewLast'
      OBVIOUS
    <3>1. CASE q = new
      <4>1. viewLast' <= viewLast'
        BY <2>1
      <4> QED BY <1>3, <2>1, <3>1, <4>1, Zenon
    <3>2. CASE q \in Q!Dropped
      <4>1. q.n \in Nat /\ q.n <= viewLast
        BY <1>2, <3>2
      <4> QED BY <1>2, <2>1, <3>2, <4>1
    <3> QED BY <1>1, <3>1, <3>2
  <2> QED BY <2>1, <2>2, <2>3 DEF Numbered
<1>5. BusyForSomething' /\ AnswerComing'
  BY <1>1, <1>3 DEF BusyForSomething, AnswerComing
<1>6. OnlyLastHeard'
  BY <1>1, <1>2, <1>3 DEF OnlyLastHeard, ViewInv
<1>7. v = viewChosen' => PanelAgrees'
  BY <1>1, <1>2, <1>3 DEF PanelAgrees, ViewInv, Numbered
<1>8. v = viewChosen' /\ viewShown' = None /\ Q!V.takes = "newest" => OwnFibers'
  BY <1>1, <1>2, <1>3 DEF OwnFibers
<1>9. ~viewBusy => OneBudget'
  <2> SUFFICES ASSUME ~viewBusy, viewSubject[1] = "budget" PROVE OneBudget'
    BY DEF OneBudget
  <2>1. viewUnder = {} /\ ~viewOverlapped
    BY DEF ViewInv, OneBudget
  <2> QED BY <1>1, <2>1 DEF OneBudget, Q!Dropped
<1> QED BY <1>4, <1>5, <1>6, <1>7, <1>8, <1>9

\* Nor does a question given up, or one that waits for the timer, leave
\* another to be heard.
LEMMA EffectKeeps ==
  ASSUME ViewInv, NEW v, Q!Effect(v), viewSubject' = viewSubject,
         viewShown' \in {None, viewShown}, v = None => viewShown' = None,
         viewSubject[1] # "budget"
  PROVE  /\ Numbered' /\ BusyForSomething' /\ OnlyLastHeard' /\ AnswerComing'
         /\ v = viewChosen' => PanelAgrees'
         /\ OneBudget'
<1>1. Q!V' = Q!V /\ Q!Input' = Q!Input /\ OneBudget'
  BY DEF Q!V, Q!Input, OneBudget
<1>2. /\ \A q \in Q!Dropped : /\ DOMAIN q = {"n", "about", "off"} /\ q.off \in BOOLEAN
                              /\ q.n \in Nat /\ q.n <= viewLast
      /\ Q!V.takes = "any" => Q!Dropped = viewUnder
      /\ Q!V.takes # "any" => \A q \in Q!Dropped : q.off = TRUE
  BY DEF Q!Dropped, ViewInv, Numbered
<1>3. CASE v = None
  <2>1. Q!GiveUp /\ viewShown' = None
    BY <1>3 DEF Q!Effect
  <2>2. Numbered' /\ PanelAgrees'
    BY <1>1, <1>2, <2>1 DEF Q!GiveUp, ViewInv, Numbered, PanelAgrees
  <2>3. BusyForSomething' /\ AnswerComing'
    BY <1>1, <2>1 DEF Q!GiveUp, BusyForSomething, AnswerComing
  <2>4. OnlyLastHeard'
    BY <1>1, <1>2, <2>1 DEF Q!GiveUp, ViewInv, OnlyLastHeard
  <2> QED BY <1>1, <2>2, <2>3, <2>4
<1>4. CASE v # None /\ Q!V.delayed
  <2>1. Q!Wait
    BY <1>4 DEF Q!Effect
  <2> QED
    BY <1>1, <1>2, <2>1 DEF Q!Wait, ViewInv, Numbered, BusyForSomething, OnlyLastHeard,
       AnswerComing, PanelAgrees
<1>5. CASE v # None /\ ~Q!V.delayed
  BY <1>1, <1>5, AskKeeps DEF Q!Effect
<1> QED BY <1>3, <1>4, <1>5

LEMMA ViewInit == Q!Init => ViewInv
<1> SUFFICES ASSUME Q!Init
             PROVE  ViewInv
  OBVIOUS
<1> DEFINE asking == viewOpen /\ Q!V.first /\ viewChosen # None
           first == [n |-> 1, about |-> viewChosen, off |-> FALSE]
<1>1. /\ viewSubject \in Questions /\ viewOpen = ~Q!V.dialog
      /\ viewChosen \in IF Q!V.dialog THEN {None}
                        ELSE Choice \cup IF Q!Emptiable THEN {None} ELSE {}
      /\ viewBusy = asking /\ viewLast = IF asking THEN 1 ELSE 0
      /\ viewUnder = IF asking THEN {first} ELSE {}
      /\ viewTimer = FALSE /\ viewFailed = FALSE /\ viewShown = None /\ viewOverlapped = FALSE
  BY DEF Q!Init
<1>2. /\ DOMAIN first = {"n", "about", "off"} /\ first.n = 1 /\ first.about = viewChosen
      /\ first.off = FALSE /\ first.off \in BOOLEAN
  OBVIOUS
<1> HIDE DEF first
<1>3. Shaped(viewSubject[1], viewSubject[2])
  BY <1>1, SubjectShaped
<1>4. Numbered /\ BusyForSomething /\ OnlyLastHeard /\ AnswerComing /\ PanelAgrees /\ OwnFibers
  BY <1>1, <1>2 DEF Numbered, BusyForSomething, OnlyLastHeard, AnswerComing, PanelAgrees, OwnFibers
<1>5. PageOpen /\ FilledIn
  BY <1>1, NoChoiceIsNone DEF PageOpen, FilledIn, Q!Emptiable, Emptied, Q!V
<1>6. OneBudget
  BY <1>1, <1>3 DEF OneBudget, Shaped, BudgetAlone, Q!V
<1> QED BY <1>1, <1>4, <1>5, <1>6 DEF ViewInv

\* An answer that is over was the last to be heard, or nobody listens to it.
LEMMA AnswerKeeps ==
  ASSUME ViewInv, NEW q \in viewUnder, Q!Answer(q) \/ Q!Fails(q)
  PROVE  ViewInv'
<1>1. /\ viewUnder' = viewUnder \ {q}
      /\ viewBusy' = IF q.off /\ Q!V.takes = "observed" THEN viewBusy ELSE FALSE
      /\ viewSubject' = viewSubject /\ viewOpen' = viewOpen /\ viewChosen' = viewChosen
      /\ viewTimer' = viewTimer /\ viewLast' = viewLast /\ viewOverlapped' = viewOverlapped
      /\ Q!V' = Q!V /\ Q!Input' = Q!Input
  BY DEF Q!Answer, Q!Fails, Q!Over, Q!V, Q!Input
<1>2. \/ q.off = TRUE /\ viewShown' = viewShown
      \/ q.off = FALSE /\ viewShown' = [n |-> q.n, about |-> q.about]
      \/ q.off = FALSE /\ viewShown' \in {None, viewShown} /\ (~viewFailed' => q.n # viewLast)
  <2>1. q.off \in BOOLEAN
    BY DEF ViewInv, Numbered
  <2>2. CASE Q!Answer(q)
    BY <2>1, <2>2 DEF Q!Answer
  <2>3. CASE Q!Fails(q)
    BY <2>1, <2>3 DEF Q!Fails, Q!Cleared
  <2> QED BY <2>2, <2>3
<1>3. \/ viewShown' = viewShown
      \/ viewShown' = None
      \/ q.off = FALSE /\ viewShown'.n = q.n /\ viewShown'.about = q.about
  BY <1>2
<1>4. Numbered' /\ PanelAgrees' /\ OwnFibers'
  <2>1. Numbered'
    BY <1>1, <1>3 DEF ViewInv, Numbered
  <2>2. PanelAgrees'
    BY <1>1, <1>3 DEF ViewInv, PanelAgrees
  <2>3. OwnFibers'
    BY <1>1, <1>3 DEF ViewInv, OwnFibers
  <2> QED BY <2>1, <2>2, <2>3
<1>5. BusyForSomething' /\ OnlyLastHeard' /\ PageOpen' /\ FilledIn'
  BY <1>1 DEF ViewInv, BusyForSomething, OnlyLastHeard, PageOpen, FilledIn
<1>6. AnswerComing'
  <2> SUFFICES ASSUME viewOpen, ~viewFailed', Q!V.takes = "any" => ~viewOverlapped, ~viewTimer,
                      viewShown' # None, viewShown'.n # viewLast
               PROVE  \E p \in viewUnder' : p.off = FALSE /\ p.n = viewLast
    BY <1>1 DEF AnswerComing
  <2>1. ~viewFailed
    BY DEF Q!Answer, Q!Fails
  <2>2. q.off = FALSE => q.n = viewLast
    BY DEF ViewInv, OnlyLastHeard
  <2>3. q.off = TRUE /\ viewShown' = viewShown
    BY <1>2, <2>2
  <2>4. PICK p \in viewUnder : p.off = FALSE /\ p.n = viewLast
    BY <2>1, <2>3 DEF ViewInv, AnswerComing
  <2> QED BY <1>1, <2>3, <2>4
<1>7. OneBudget'
  <2> SUFFICES ASSUME viewSubject[1] = "budget"
               PROVE  ~viewTimer' /\ ~viewOverlapped' /\ viewUnder' = {}
    BY <1>1 DEF OneBudget
  <2> QED BY <1>1 DEF ViewInv, OneBudget
<1> QED BY <1>1, <1>4, <1>5, <1>6, <1>7 DEF ViewInv

LEMMA ViewStep == ViewInv /\ Q!Next => ViewInv'
<1> SUFFICES ASSUME ViewInv, Q!Next
             PROVE  ViewInv'
  OBVIOUS
<1>1. Shaped(viewSubject[1], viewSubject[2]) /\ viewSubject' = viewSubject
  BY SubjectShaped DEF ViewInv, Q!Next, Q!Choose, Q!Open, Q!FollowLink, Q!ChooseOther, Q!Press,
     Q!Refresh, Q!Fire, Q!End, Q!Close, Q!Answer, Q!Fails
<1>2. Q!V' = Q!V /\ Q!Input' = Q!Input /\ Q!V = Q!ViewOf[viewSubject[1]] /\ Q!Input = viewSubject[2]
      /\ (Q!Emptiable <=> Emptied(viewSubject[1]))
  BY <1>1 DEF Q!V, Q!Input, Q!Emptiable, Emptied
<1>3. viewSubject' \in Questions /\ PageOpen'
  <2>1. viewSubject' \in Questions
    BY <1>1 DEF ViewInv
  <2>2. viewOpen' = viewOpen \/ viewOpen' \/ Q!V.dialog
    BY DEF Q!Next, Q!Choose, Q!Open, Q!FollowLink, Q!ChooseOther, Q!Press, Q!Refresh, Q!Fire,
       Q!End, Q!Close, Q!Answer, Q!Fails
  <2> QED BY <1>2, <2>1, <2>2 DEF ViewInv, PageOpen
<1> DEFINE Rest == FilledIn' /\ PanelAgrees' /\ OwnFibers' /\ OneBudget'
           Four == Numbered' /\ BusyForSomething' /\ OnlyLastHeard' /\ AnswerComing'
<1>4. ASSUME NEW v \in Choice \cup {None}, Q!Choose(v) PROVE ViewInv'
  <2>1. FilledIn'
    BY <1>1, <1>2, <1>4 DEF Q!Choose, FilledIn
  <2>2. CASE Q!Input \notin Q!V.asks
    <3>1. /\ Q!Input \notin Q!PanelOf[viewSubject[1]]
          /\ viewSubject[1] # "fibers"
      BY <1>1, <1>2, <1>4, <2>2 DEF Q!Choose, Shaped, PanelAsks, FibersAlone
    <3>2. UNCHANGED <<viewOpen, viewTimer, viewUnder, viewBusy, viewLast, viewAsked, viewFailed,
                      viewShown, viewOverlapped>>
      BY <1>4, <2>2 DEF Q!Choose
    <3> QED BY <1>1, <1>2, <1>3, <2>1, <3>1, <3>2 DEF ViewInv, Numbered, BusyForSomething, OnlyLastHeard,
         AnswerComing, PanelAgrees, OwnFibers, OneBudget
  <2>3. CASE Q!Input \in Q!V.asks
    <3>1. viewSubject[1] \notin {"budget", "fibers"}
      BY <1>1, <1>2, <2>3 DEF Shaped, BudgetAlone, FibersAlone
    <3>2. Q!Effect(v) /\ viewChosen' = v /\ viewShown' \in {None, viewShown}
          /\ (v = None => viewShown' = None)
      BY <1>1, <1>2, <1>4, <2>3 DEF Q!Choose, Q!Cleared, Shaped, LeavesNothing
    <3>3. Four /\ PanelAgrees' /\ OneBudget'
      BY <1>1, <3>1, <3>2, EffectKeeps
    <3>4. OwnFibers'
      BY <1>1, <3>1 DEF OwnFibers
    <3> QED BY <1>3, <2>1, <3>3, <3>4 DEF ViewInv
  <2> QED BY <2>2, <2>3
<1>5. ASSUME NEW v \in Choice, Q!Open(v) PROVE ViewInv'
  <2>1. Q!Effect(viewChosen') /\ viewShown' \in {None, viewShown} /\ viewOpen'
    BY <1>5 DEF Q!Open
  <2>2. ASSUME viewChosen' = None PROVE "opening" \in Q!V.clears /\ "emptying" \in Q!V.clears
    <3>1. v # None
      BY NoChoiceIsNone
    <3>2. Q!V.dialog
      BY <1>5 DEF ViewInv, PageOpen, Q!Open
    <3>3. ~Q!V.heedsOpen
      BY <1>5, <2>2, <3>1 DEF Q!Open
    <3> QED BY <1>1, <1>2, <3>2, <3>3 DEF Shaped, LeavesNothing
  <2>3. viewSubject[1] # "budget"
    BY <1>1, <1>2, <1>5 DEF Q!Open, ViewInv, PageOpen, Shaped, BudgetAlone
  <2>4. Four /\ PanelAgrees' /\ OneBudget'
    <3>1. viewChosen' = None => viewShown' = None
      BY <1>5, <2>2 DEF Q!Open
    <3> QED BY <1>1, <2>1, <2>3, <3>1, EffectKeeps
  <2>5. FilledIn'
    BY <1>1, <1>2, <2>2 DEF FilledIn, Emptied
  <2>6. OwnFibers'
    <3> SUFFICES ASSUME viewSubject[1] = "fibers" PROVE OwnFibers'
      BY <1>1 DEF OwnFibers
    <3>1. viewShown' = None /\ Q!V.takes = "newest" /\ viewChosen' = v /\ Q!V.delayed = FALSE
      BY <1>1, <1>2, <1>5 DEF Q!Open, Shaped, FibersAlone
    <3>2. Q!Ask(viewChosen')
      BY <2>1, <3>1, NoChoiceIsNone DEF Q!Effect
    <3> QED BY <1>1, <3>1, <3>2, AskKeeps
  <2> QED BY <1>3, <2>4, <2>5, <2>6 DEF ViewInv
<1>6. CASE Q!ChooseOther
  <2> DEFINE v == IF Q!V.button = "apply" THEN viewAsked ELSE viewChosen
  <2>1. /\ Q!Effect(v) /\ viewShown' = Q!Cleared("asking")
        /\ viewOpen /\ UNCHANGED <<viewOpen, viewChosen>>
        /\ Q!V.asks \ ({Q!Input} \cup Q!Given) # {}
    BY <1>6 DEF Q!ChooseOther
  <2>2. viewSubject[1] \notin {"budget", "fibers"}
    BY <1>1, <1>2, <2>1 DEF Shaped, BudgetAlone, FibersAlone
  <2>3. viewShown' \in {None, viewShown} /\ (v = None => viewShown' = None)
    BY <1>1, <1>2, <2>1 DEF Q!Cleared, Shaped, LeavesNothing, ViewInv, FilledIn
  <2>4. Q!Input \in Q!PanelOf[viewSubject[1]] => v = viewChosen'
    BY <1>1, <1>2, <2>1 DEF Shaped, PanelAsks
  <2> HIDE DEF v
  <2>5. Four /\ (v = viewChosen' => PanelAgrees') /\ OneBudget'
    BY <1>1, <2>1, <2>2, <2>3, EffectKeeps
  <2>6. PanelAgrees'
    BY <1>1, <1>2, <2>4, <2>5 DEF PanelAgrees
  <2>7. FilledIn' /\ OwnFibers'
    BY <1>1, <2>1, <2>2 DEF ViewInv, FilledIn, OwnFibers
  <2> QED BY <1>3, <2>5, <2>6, <2>7 DEF ViewInv
<1>7. ASSUME NEW v, Q!Ask(v), viewShown' = Q!Cleared("asking"), UNCHANGED <<viewOpen, viewChosen>>,
             v = viewChosen \/ Q!V.again # "no" \/ Q!V.linked,
             viewSubject[1] = "budget" => ~viewBusy
      PROVE  ViewInv'
  <2>1. viewShown' \in {None, viewShown}
    BY <1>7 DEF Q!Cleared
  <2>2. Four /\ (v = viewChosen' => PanelAgrees') /\ (~viewBusy => OneBudget')
    BY <1>1, <1>7, <2>1, AskKeeps
  <2>3. PanelAgrees'
    <3>1. CASE v = viewChosen
      BY <1>7, <2>2, <3>1
    <3>2. CASE Q!V.again # "no" \/ Q!V.linked
      BY <1>1, <1>2, <3>2 DEF Shaped, PanelAsks, PanelAgrees
    <3> QED BY <1>7, <3>1, <3>2
  <2>4. OneBudget'
    BY <1>1, <1>7, <2>2 DEF OneBudget
  <2>5. FilledIn'
    BY <1>1, <1>7 DEF ViewInv, FilledIn
  <2>6. OwnFibers'
    <3> SUFFICES ASSUME viewSubject[1] = "fibers" PROVE OwnFibers'
      BY <1>1 DEF OwnFibers
    <3>1. viewShown' = None /\ Q!V.takes = "newest" /\ v = viewChosen'
      BY <1>1, <1>2, <1>7 DEF Q!Cleared, Shaped, FibersAlone
    <3> QED BY <1>1, <1>7, <3>1, AskKeeps
  <2> QED BY <1>3, <2>2, <2>3, <2>4, <2>5, <2>6 DEF ViewInv
<1>8. CASE Q!Press \/ Q!Fire
  <2>1. viewSubject[1] = "budget" => ~viewBusy
    BY <1>1, <1>2, <1>8 DEF Q!Press, Q!Fire, ViewInv, OneBudget, Shaped, BudgetAlone
  <2>2. Q!Ask(viewChosen) /\ viewShown' = Q!Cleared("asking") /\ UNCHANGED <<viewOpen, viewChosen>>
    BY <1>8 DEF Q!Press, Q!Fire
  <2> QED BY <1>7, <2>1, <2>2
<1>9. CASE Q!Refresh
  BY <1>7, <1>9 DEF Q!Refresh
<1>10. ASSUME NEW v \in Choice, Q!FollowLink(v) PROVE ViewInv'
  <2>1. viewSubject[1] # "budget"
    BY <1>1, <1>2, <1>10 DEF Q!FollowLink, Shaped, BudgetAlone
  <2> QED BY <1>7, <1>10, <2>1 DEF Q!FollowLink
<1>11. CASE Q!End
  <2>1. /\ viewShown' = None /\ viewLast' = viewLast + 1
        /\ viewOverlapped' = (viewOverlapped \/ viewUnder # {})
        /\ UNCHANGED <<viewOpen, viewTimer, viewUnder, viewBusy>>
        /\ "ending" \in Q!V.clears
    BY <1>11 DEF Q!End
  <2>2. Q!V.takes = "any" /\ Emptied(viewSubject[1]) /\ viewSubject[1] \notin {"budget", "fibers"}
    BY <1>1, <1>2, <2>1 DEF Shaped, Guard, BudgetAlone, FibersAlone, Emptied
  <2>3. Numbered' /\ PanelAgrees'
    BY <1>1, <1>2, <2>1 DEF ViewInv, Numbered, PanelAgrees
  <2>4. BusyForSomething' /\ OnlyLastHeard' /\ AnswerComing'
    BY <1>2, <2>1, <2>2 DEF ViewInv, BusyForSomething, OnlyLastHeard, AnswerComing
  <2>5. FilledIn' /\ OwnFibers' /\ OneBudget'
    BY <1>1, <2>2 DEF FilledIn, OwnFibers, OneBudget
  <2> QED BY <1>3, <2>3, <2>4, <2>5 DEF ViewInv
<1>12. CASE Q!Close
  <2>1. /\ viewOpen' = FALSE /\ viewShown' \in {None, viewShown} /\ Q!V.dialog
        /\ UNCHANGED <<viewChosen, viewBusy, viewLast, viewAsked, viewFailed, viewOverlapped>>
        /\ viewUnder' \in {Q!Dropped, viewUnder}
    BY <1>12 DEF Q!Close, Q!Cleared
  <2>2. /\ \A q \in Q!Dropped : /\ DOMAIN q = {"n", "about", "off"} /\ q.off \in BOOLEAN
                                /\ q.n \in Nat /\ q.n <= viewLast
        /\ Q!V.takes = "any" => Q!Dropped = viewUnder
        /\ Q!V.takes # "any" => \A q \in Q!Dropped : q.off = TRUE
    BY DEF Q!Dropped, ViewInv, Numbered
  <2>3. Numbered'
    BY <2>1, <2>2 DEF ViewInv, Numbered
  <2>4. OnlyLastHeard'
    BY <1>2, <2>1, <2>2 DEF ViewInv, OnlyLastHeard
  <2>5. BusyForSomething' /\ AnswerComing' /\ FilledIn' /\ PanelAgrees' /\ OwnFibers'
    BY <2>1 DEF BusyForSomething, AnswerComing, FilledIn, PanelAgrees, OwnFibers
  <2>6. OneBudget'
    BY <1>1, <1>2, <2>1 DEF OneBudget, Shaped, BudgetAlone
  <2> QED BY <1>3, <2>3, <2>4, <2>5, <2>6 DEF ViewInv
<1>13. ASSUME NEW q \in viewUnder, Q!Answer(q) \/ Q!Fails(q) PROVE ViewInv'
  BY <1>13, AnswerKeeps
<1> QED BY <1>4, <1>5, <1>6, <1>8, <1>9, <1>10, <1>11, <1>12, <1>13 DEF Q!Next

LEMMA ViewStutters ==
  ASSUME ViewInv, UNCHANGED answer
  PROVE  ViewInv'
<1>1. Q!V' = Q!V /\ Q!Input' = Q!Input
  BY DEF answer, Q!V, Q!Input
<1> QED BY <1>1 DEF answer, ViewInv, Numbered, BusyForSomething, OnlyLastHeard, AnswerComing, PageOpen,
     FilledIn, PanelAgrees, OwnFibers, OneBudget

LEMMA AnswersInOrder == ConsoleSpec => [](route = "view" => ViewInv)
<1>1. ConsoleInit => (route = "view" => ViewInv)
  BY ViewInit DEF ConsoleInit
<1>2. (route = "view" => ViewInv) /\ [ConsoleNext /\ UNCHANGED route]_<<route, pages>>
        => (route = "view" => ViewInv)'
  <2>1. CASE ConsoleNext /\ UNCHANGED route
    BY <2>1, ViewStep DEF ConsoleNext
  <2>2. CASE UNCHANGED <<route, pages>>
    BY <2>2, ViewStutters DEF pages
  <2> QED BY <2>1, <2>2
<1> QED BY <1>1, <1>2, PTL DEF ConsoleSpec

\* Questions asked over each other, aborted, given up, failed and answered in any
\* order leave a view at rest with the answer to its last question, and without a
\* spinner that nothing will stop (the debounced effects, useQuery's keys and the
\* ignore flags of the views).
THEOREM LastAnswerShown == ConsoleSpec => []ShowsLastAnswer
<1>1. (route = "view" => ViewInv) => ShowsLastAnswer
  <2> SUFFICES ASSUME ViewInv PROVE Q!ShowsLastAnswer
    BY DEF ShowsLastAnswer
  <2>1. Shaped(viewSubject[1], viewSubject[2])
    BY SubjectShaped DEF ViewInv
  <2>2. Q!V.takes = "any" => viewSubject[1] \in Q!Unguarded \/ ~viewOverlapped
    BY <2>1 DEF Shaped, Guard, ViewInv, OneBudget, Q!V
  <2> QED BY <2>2 DEF ViewInv, Q!ShowsLastAnswer, Q!AtRest, BusyForSomething, AnswerComing, PanelAgrees
<1> QED BY <1>1, AnswersInOrder, PTL

\* However quickly the dialog of a split is closed and opened for another segment,
\* the fibers it is confirmed with are those of the segment it is open for (the
\* cancelled flag of the effect that loads them).
THEOREM FibersOfTheSegment == ConsoleSpec => []SplitsOwnFibers
<1>1. (route = "view" => ViewInv) => SplitsOwnFibers
  BY DEF ViewInv, OwnFibers, SplitsOwnFibers, Q!SplitsOwnFibers
<1> QED BY <1>1, AnswersInOrder, PTL

(***************************************************************************)
(* The records.  What the proofs need of the tables of Forms.              *)
(***************************************************************************)
PageShaped(p) ==
  LET X == R!Page[p] IN
    /\ X.form \in R!Form
    /\ X.how \in {"refetch", "invalidate", "write"}
    /\ p \in X.after
    /\ X.how = "write" => X.form = "settings"
    /\ X.form = "settings" => p = "settingsView"
    /\ X.home \in DOMAIN R!Page /\ R!Page[X.home].form = X.form
    /\ X.copies \in BOOLEAN
    /\ X.copies /\ X.deletes # "no" => X.deletes = "copied"

LEMMA PagesShaped == ASSUME NEW p \in DOMAIN R!Page PROVE PageShaped(p)
<1>1. DOMAIN R!Page = {"sitesTable", "siteDetail", "structuresTable", "structureDetail", "devicesTable", "deviceDetail", "cablesTable", "cableDetail", "customersTable", "customerDetail", "splittersPanel", "splittersCatalog", "usersTable", "radioLinksPanel", "settingsView"}
  BY DEF R!Page
<1>2. /\ R!Page["sitesTable"] = R!SitesTable
      /\ R!Page["siteDetail"] = R!SiteDetail
      /\ R!Page["structuresTable"] = R!StructuresTable
      /\ R!Page["structureDetail"] = R!StructureDetail
      /\ R!Page["devicesTable"] = R!DevicesTable
      /\ R!Page["deviceDetail"] = R!DeviceDetail
      /\ R!Page["cablesTable"] = R!CablesTable
      /\ R!Page["cableDetail"] = R!CableDetail
      /\ R!Page["customersTable"] = R!CustomersTable
      /\ R!Page["customerDetail"] = R!CustomerDetail
      /\ R!Page["splittersPanel"] = R!SplittersPanel
      /\ R!Page["splittersCatalog"] = R!SplittersCatalog
      /\ R!Page["usersTable"] = R!UsersTable
      /\ R!Page["radioLinksPanel"] = R!RadioLinksPanel
      /\ R!Page["settingsView"] = R!SettingsView
  BY DEF R!Page
<1>3. CASE p = "sitesTable"
  <2>1. R!Page["sitesTable"] = R!SitesTable
    BY <1>2
  <2> QED BY <1>1, <1>3, <2>1 DEF PageShaped, R!Form, R!SitesTable
<1>4. CASE p = "siteDetail"
  <2>1. R!Page["siteDetail"] = R!SiteDetail /\ R!Page["sitesTable"] = R!SitesTable
    BY <1>2
  <2> QED BY <1>1, <1>4, <2>1 DEF PageShaped, R!Form, R!SiteDetail, R!SitesTable
<1>5. CASE p = "structuresTable"
  <2>1. R!Page["structuresTable"] = R!StructuresTable
    BY <1>2
  <2> QED BY <1>1, <1>5, <2>1 DEF PageShaped, R!Form, R!StructuresTable
<1>6. CASE p = "structureDetail"
  <2>1. R!Page["structureDetail"] = R!StructureDetail /\ R!Page["structuresTable"] = R!StructuresTable
    BY <1>2
  <2> QED BY <1>1, <1>6, <2>1 DEF PageShaped, R!Form, R!StructureDetail, R!StructuresTable
<1>7. CASE p = "devicesTable"
  <2>1. R!Page["devicesTable"] = R!DevicesTable
    BY <1>2
  <2> QED BY <1>1, <1>7, <2>1 DEF PageShaped, R!Form, R!DevicesTable
<1>8. CASE p = "deviceDetail"
  <2>1. R!Page["deviceDetail"] = R!DeviceDetail /\ R!Page["devicesTable"] = R!DevicesTable
    BY <1>2
  <2> QED BY <1>1, <1>8, <2>1 DEF PageShaped, R!Form, R!DeviceDetail, R!DevicesTable
<1>9. CASE p = "cablesTable"
  <2>1. R!Page["cablesTable"] = R!CablesTable
    BY <1>2
  <2> QED BY <1>1, <1>9, <2>1 DEF PageShaped, R!Form, R!CablesTable
<1>10. CASE p = "cableDetail"
  <2>1. R!Page["cableDetail"] = R!CableDetail /\ R!Page["cablesTable"] = R!CablesTable
    BY <1>2
  <2> QED BY <1>1, <1>10, <2>1 DEF PageShaped, R!Form, R!CableDetail, R!CablesTable
<1>11. CASE p = "customersTable"
  <2>1. R!Page["customersTable"] = R!CustomersTable
    BY <1>2
  <2> QED BY <1>1, <1>11, <2>1 DEF PageShaped, R!Form, R!CustomersTable
<1>12. CASE p = "customerDetail"
  <2>1. R!Page["customerDetail"] = R!CustomerDetail /\ R!Page["customersTable"] = R!CustomersTable
    BY <1>2
  <2> QED BY <1>1, <1>12, <2>1 DEF PageShaped, R!Form, R!CustomerDetail, R!CustomersTable
<1>13. CASE p = "splittersPanel"
  <2>1. R!Page["splittersPanel"] = R!SplittersPanel
    BY <1>2
  <2> QED BY <1>1, <1>13, <2>1 DEF PageShaped, R!Form, R!SplittersPanel
<1>14. CASE p = "splittersCatalog"
  <2>1. R!Page["splittersCatalog"] = R!SplittersCatalog
    BY <1>2
  <2> QED BY <1>1, <1>14, <2>1 DEF PageShaped, R!Form, R!SplittersCatalog
<1>15. CASE p = "usersTable"
  <2>1. R!Page["usersTable"] = R!UsersTable
    BY <1>2
  <2> QED BY <1>1, <1>15, <2>1 DEF PageShaped, R!Form, R!UsersTable
<1>16. CASE p = "radioLinksPanel"
  <2>1. R!Page["radioLinksPanel"] = R!RadioLinksPanel
    BY <1>2
  <2> QED BY <1>1, <1>16, <2>1 DEF PageShaped, R!Form, R!RadioLinksPanel
<1>17. CASE p = "settingsView"
  <2>1. R!Page["settingsView"] = R!SettingsView
    BY <1>2
  <2> QED BY <1>1, <1>17, <2>1 DEF PageShaped, R!Form, R!SettingsView
<1> QED BY <1>1, <1>3, <1>4, <1>5, <1>6, <1>7, <1>8, <1>9, <1>10, <1>11, <1>12, <1>13, <1>14, <1>15, <1>16, <1>17

\* A form fills in what it sends.
LEMMA SentIsFilled == ASSUME NEW f \in R!Form PROVE R!Sent[f] \subseteq R!Filled[f]
<1> USE DEF R!Sent, R!Filled, R!Form
<1>1. CASE f = "site"
  BY <1>1 DEF R!SiteSent, R!SiteFilled
<1>2. CASE f = "structure"
  BY <1>2 DEF R!StructureSent, R!StructureFilled
<1>3. CASE f = "device"
  BY <1>3 DEF R!DeviceSent, R!DeviceFilled
<1>4. CASE f = "cable"
  BY <1>4 DEF R!CableSent, R!CableFilled, R!CableRequired
<1>5. CASE f = "splitter"
  BY <1>5 DEF R!SplitterSent, R!SplitterFilled
<1>6. CASE f = "customer"
  BY <1>6 DEF R!CustomerSent, R!CustomerFilled
<1>7. CASE f = "user"
  BY <1>7 DEF R!UserSent, R!UserFilled
<1>8. CASE f = "radioLink"
  BY <1>8 DEF R!RadioLinkSent, R!RadioLinkFilled
<1>9. CASE f = "settings"
  BY <1>9 DEF R!SettingsSent, R!SettingsFilled
<1> QED BY <1>1, <1>2, <1>3, <1>4, <1>5, <1>6, <1>7, <1>8, <1>9

\* What the proofs need of the pages of a record.
LEMMA PlacesShaped ==
  ASSUME R!F \in R!Form
  PROVE  /\ \A p \in R!Places :
              /\ PageShaped(p) /\ R!Page[p].home \in R!Places
              /\ R!Page[p].how = "write" => \A q \in R!Places : q = p
BY PagesShaped DEF PageShaped, R!Places, R!PagesOf

CacheFields == {"data", "load", "read", "old"}
RequestFields == {"stage", "kind", "version", "seen", "value", "typed", "result", "page", "here"}

RecordShape ==
  /\ R!F \in R!Form /\ R!Attribute \in R!Sent[R!F]
  /\ recordPlace \in R!Places
  /\ recordCache = [p \in R!Places |-> recordCache[p]]
  /\ \A p \in R!Places : DOMAIN recordCache[p] = CacheFields
  /\ recordSaved = [p \in R!Places |-> recordSaved[p]]
  /\ recordRow.version \in Nat
  /\ recordRow # R!Gone => recordRow.version > 0
  /\ recordDialog # None =>
       DOMAIN recordDialog = {"kind", "base", "typed", "value"} /\ recordDialog.typed \in BOOLEAN
  /\ recordRequest # None =>
       /\ DOMAIN recordRequest = RequestFields /\ recordRequest.typed \in BOOLEAN
       /\ recordRequest.page \in R!Places

\* A question of a page is asked again, or not.
LEMMA MountedShape ==
  ASSUME NEW q, DOMAIN q = CacheFields, NEW aged
  PROVE  LET m == R!Mounted(q, aged) IN
           /\ DOMAIN m = CacheFields /\ m.data = q.data
           /\ m = q \/ m.load = "asked"
BY DEF R!Mounted, R!Asked, CacheFields

LEMMA AskedShape ==
  ASSUME NEW q, DOMAIN q = CacheFields
  PROVE  DOMAIN R!Asked(q) = CacheFields /\ R!Asked(q).data = q.data /\ R!Asked(q).load = "asked"
BY DEF R!Asked, CacheFields

\* One question changes.
LEMMA CellShape ==
  ASSUME RecordShape, NEW p, NEW x, DOMAIN x = CacheFields,
         recordCache' = [recordCache EXCEPT ![p] = x]
  PROVE  /\ recordCache' = [q \in R!Places |-> recordCache'[q]]
         /\ \A q \in R!Places : DOMAIN recordCache'[q] = CacheFields
         /\ p \in R!Places => recordCache'[p] = x
         /\ \A q \in R!Places : q # p => recordCache'[q] = recordCache[q]
BY DEF RecordShape

\* After a save each page it refreshes asks again, is marked, or takes the result.
LEMMA RefreshShape ==
  ASSUME RecordShape, recordRequest # None, recordCache' = R!Refreshed(recordRequest.page)
  PROVE  /\ recordCache' = [q \in R!Places |-> recordCache'[q]]
         /\ \A q \in R!Places :
              /\ DOMAIN recordCache'[q] = CacheFields
              /\ R!Page[recordRequest.page].how # "write" =>
                   /\ recordCache'[q].data = recordCache[q].data
                   /\ recordCache'[q].read = recordCache[q].read \/ recordCache'[q].load = "asked"
                   /\ recordCache'[q].load \in {recordCache[q].load, "asked"}
                   /\ /\ q \in R!Page[recordRequest.page].after
                      /\ R!Page[recordRequest.page].how = "refetch" \/ q = recordPlace
                      => recordCache'[q].load = "asked"
              /\ R!Page[recordRequest.page].how = "write" =>
                   /\ recordCache'[q].data \in {recordCache[q].data, recordRequest.result}
                   /\ recordCache'[q].read = recordCache[q].read
                   /\ recordCache'[q].load = recordCache[q].load
<1> DEFINE from == recordRequest.page
           marked(q) == [recordCache[q] EXCEPT !.old = TRUE]
           written(q) == [recordCache[q] EXCEPT !.data = recordRequest.result, !.old = FALSE]
<1>1. \A q \in R!Places :
        /\ DOMAIN marked(q) = CacheFields /\ marked(q).data = recordCache[q].data
        /\ marked(q).read = recordCache[q].read /\ marked(q).load = recordCache[q].load
        /\ DOMAIN written(q) = CacheFields /\ written(q).data = recordRequest.result
        /\ written(q).read = recordCache[q].read /\ written(q).load = recordCache[q].load
  BY DEF RecordShape, CacheFields
<1>2. recordCache' =
        [q \in R!Places |->
           IF q \notin R!Page[from].after THEN recordCache[q]
           ELSE CASE R!Page[from].how = "write" -> written(q)
                  [] \/ R!Page[from].how = "refetch"
                     \/ R!Page[from].how = "invalidate" /\ q = recordPlace -> R!Asked(recordCache[q])
                  [] OTHER -> marked(q)]
  BY DEF R!Refreshed, R!Refresh
<1> HIDE DEF marked, written, from
<1>3. ASSUME NEW q \in R!Places
      PROVE  \/ recordCache'[q] = recordCache[q] /\ q \notin R!Page[from].after
             \/ recordCache'[q] = written(q) /\ R!Page[from].how = "write"
             \/ recordCache'[q] = R!Asked(recordCache[q]) /\ R!Page[from].how # "write"
             \/ /\ recordCache'[q] = marked(q) /\ R!Page[from].how \notin {"write", "refetch"}
                /\ q # recordPlace
  <2>1. CASE q \notin R!Page[from].after
    BY <1>2, <2>1
  <2>0. R!Page[from].how \in {"refetch", "invalidate", "write"}
    BY PlacesShaped DEF RecordShape, PageShaped, from
  <2>2. CASE q \in R!Page[from].after /\ R!Page[from].how = "write"
    BY <1>2, <2>2
  <2>3. CASE /\ q \in R!Page[from].after /\ R!Page[from].how # "write"
             /\ R!Page[from].how = "refetch" \/ q = recordPlace
    BY <1>2, <2>0, <2>3
  <2>4. CASE /\ q \in R!Page[from].after /\ R!Page[from].how # "write"
             /\ ~(R!Page[from].how = "refetch" \/ q = recordPlace)
    BY <1>2, <2>0, <2>4
  <2> QED BY <2>1, <2>2, <2>3, <2>4
<1>4. recordCache' = [q \in R!Places |-> recordCache'[q]]
  BY <1>2
<1> QED BY <1>1, <1>3, <1>4, AskedShape DEF RecordShape, from

LEMMA ShapeInit == R!Init => RecordShape
<1> SUFFICES ASSUME R!Init PROVE RecordShape
  OBVIOUS
<1>1. R!F \in R!Form
  BY FormsFollowed DEF R!Init, R!F
<1>2. \A p \in R!Places : DOMAIN recordCache[p] = CacheFields
  BY DEF R!Init, R!InitialCache, R!Asked, R!Idle, CacheFields
<1> QED
  BY <1>1, <1>2 DEF R!Init, R!InitialCache, RecordShape

\* The steps of the forms alone.
Formed == R!Close \/ \E kind \in {"edit", "delete"} : R!Open(kind) \/ \E v \in {"mine", ""} : R!Type(v)
LEMMA FillShape ==
  ASSUME NEW kind, NEW s
  PROVE  /\ DOMAIN R!Fill(kind, s) = {"kind", "base", "typed", "value"}
         /\ R!Fill(kind, s).kind = kind /\ R!Fill(kind, s).base = s
         /\ R!Fill(kind, s).typed = FALSE
         /\ R!Attribute \in R!Filled[R!F] => R!Fill(kind, s).value = s.value
BY DEF R!Fill

\* What a copy of the record says, unless the record is gone: it is no newer,
\* and one of the same version is the same.
Current(s) ==
  recordRow # R!Gone =>
    /\ s.version \in Nat /\ s.version <= recordRow.version
    /\ s.version = recordRow.version => s.value = recordRow.value

CacheKnown ==
  \A p \in R!Places :
    /\ recordCache[p].data # None => Current(recordCache[p].data)
    /\ recordCache[p].load = "read" => Current(recordCache[p].read)

\* A form that is not typed into holds the record it says it was filled from,
\* which is the page's, unless the form edits a copy.
DialogKnown ==
  recordDialog # None =>
    /\ Current(recordDialog.base)
    /\ ~R!Here.copies => recordDialog.base = recordCache[recordPlace].data
    /\ recordDialog.kind = "delete" => R!Here.deletes # "no"
    /\ recordDialog.kind \in {"edit", "delete"}
    /\ ~recordDialog.typed /\ R!Attribute \in R!Filled[R!F] =>
         recordDialog.value = recordDialog.base.value

\* A request names what its form was filled from, and holds that if nothing was typed.
RequestKnown ==
  recordRequest # None =>
    /\ recordRequest.stage \in {"sent", "done"}
    /\ recordRequest.stage = "sent" =>
         /\ recordRequest.seen = recordRequest.version
         /\ recordRow # R!Gone =>
              /\ recordRequest.version \in Nat /\ recordRequest.version <= recordRow.version
              /\ recordRequest.version = recordRow.version /\ ~recordRequest.typed
                 /\ recordRequest.kind = "edit" => recordRequest.value = recordRow.value
    /\ recordRequest.stage = "done" =>
         /\ Current(recordRequest.result)
         /\ recordRequest.result.version \in Nat
    /\ R!Page[recordRequest.page].how = "write" => recordRequest.here = TRUE

\* No load at rest or under way is older than the last save acknowledged.
AtLeast(s, n) == s # None /\ s # R!Gone => s.version \in Nat /\ s.version >= n
SaveShown(p) ==
  /\ recordSaved[p] \in Nat
  /\ recordRow = R!Gone \/ recordSaved[p] <= recordRow.version
  /\ recordCache[p].load = "none" => AtLeast(recordCache[p].data, recordSaved[p])
  /\ recordCache[p].load = "read" => AtLeast(recordCache[p].read, recordSaved[p])
SavesShown == \A p \in R!Places : R!Page[p].how # "write" => SaveShown(p)

RecordInv == RecordShape /\ CacheKnown /\ DialogKnown /\ RequestKnown /\ SavesShown

LEMMA RecordInit == R!Init => RecordInv
<1> SUFFICES ASSUME R!Init PROVE RecordInv
  OBVIOUS
<1>1. \A p \in R!Places : recordCache[p].data = None /\ recordCache[p].load # "read"
  BY DEF R!Init, R!InitialCache, R!Asked, R!Idle
<1> QED
  BY <1>1, ShapeInit
     DEF R!Init, RecordInv, CacheKnown, DialogKnown, RequestKnown, SavesShown, SaveShown, AtLeast

\* The subject stays, and with it what the tables say.
LEMMA SubjectStays ==
  ASSUME R!Next
  PROVE  recordSubject' = recordSubject
BY DEF R!Next, R!Read, R!Arrive, R!LoadFails, R!Visit, R!Retry, R!Close, R!Submit, R!Serve, R!Fails,
     R!Saved, R!OthersDelete, R!Open, R!Type, R!OthersEdit, R!Deleted

LEMMA GoneIsOlder == RecordShape => Current(R!Gone)
<1>1. R!Gone.version = 0
  BY DEF R!Gone
<1> QED BY <1>1 DEF RecordShape, Current

\* The record read is the one in the database, or none.
LEMMA ReadKeeps == ASSUME RecordInv, NEW p \in R!Places, R!Read(p) PROVE RecordInv'
<1>0. PICK s \in {recordRow, R!Gone} :
        recordCache' = [recordCache EXCEPT ![p].load = "read", ![p].read = s]
  BY DEF R!Read, R!Answers
<1> DEFINE x == [recordCache[p] EXCEPT !.load = "read", !.read = s]
<1>1. /\ recordCache' = [recordCache EXCEPT ![p] = x]
      /\ UNCHANGED <<recordSubject, recordPlace, recordRow, recordDialog, recordRequest, recordSaved>>
  BY <1>0 DEF R!Read, RecordInv, RecordShape
<1>2. /\ DOMAIN x = CacheFields /\ x.data = recordCache[p].data
      /\ x.load = "read" /\ x.read \in {recordRow, R!Gone}
  BY DEF RecordInv, RecordShape, CacheFields
<1> HIDE DEF x
<1>3. /\ recordCache'[p] = x /\ \A q \in R!Places : q # p => recordCache'[q] = recordCache[q]
      /\ recordCache' = [q \in R!Places |-> recordCache'[q]]
      /\ \A q \in R!Places : DOMAIN recordCache'[q] = CacheFields
  BY <1>1, <1>2, CellShape DEF RecordInv
<1>4. R!F' = R!F /\ R!Attribute' = R!Attribute /\ R!Places' = R!Places /\ R!Here' = R!Here
  BY <1>1 DEF R!F, R!Attribute, R!Places, R!Here
<1>5. RecordShape'
  BY <1>1, <1>3, <1>4 DEF RecordInv, RecordShape
<1>6. CacheKnown'
  <2>1. CASE x.read = recordRow
    BY <1>1, <1>2, <1>3, <1>4, <2>1 DEF RecordInv, RecordShape, CacheKnown, Current
  <2>2. CASE x.read = R!Gone
    <3>1. Current(R!Gone)
      BY GoneIsOlder DEF RecordInv
    <3>2. R!Gone' = R!Gone
      BY DEF R!Gone
    <3> QED BY <1>1, <1>2, <1>3, <1>4, <2>2, <3>1, <3>2 DEF RecordInv, CacheKnown, Current
  <2> QED BY <1>2, <2>1, <2>2
<1>7. DialogKnown'
  BY <1>1, <1>2, <1>3, <1>4 DEF RecordInv, RecordShape, DialogKnown, Current
<1>8. RequestKnown'
  BY <1>1, <1>4 DEF RecordInv, RequestKnown, Current
<1>9. SavesShown'
  BY <1>1, <1>2, <1>3, <1>4 DEF RecordInv, RecordShape, SavesShown, SaveShown, AtLeast
<1> QED BY <1>5, <1>6, <1>7, <1>8, <1>9 DEF RecordInv

\* A form closed, left alone, or filled again from the same record.
SameForm ==
  \/ recordDialog' = None
  \/ recordPlace' = recordPlace /\ recordDialog' = recordDialog
  \/ /\ recordPlace' = recordPlace /\ recordDialog # None
     /\ recordDialog' = R!Fill(recordDialog.kind, recordDialog.base)

\* A request answered, left alone, or left behind by its page.
SameRequest ==
  \/ recordRequest' = None
  \/ recordRequest' = recordRequest
  \/ /\ recordRequest # None /\ recordPlace' # recordPlace
     /\ recordRequest' = [recordRequest EXCEPT !.here = FALSE]

LEMMA RequestStays ==
  ASSUME RecordShape, RequestKnown, SameRequest, UNCHANGED <<recordSubject, recordRow>>,
         recordPlace' \in R!Places
  PROVE  /\ RequestKnown'
         /\ recordRequest' # None =>
              /\ DOMAIN recordRequest' = RequestFields /\ recordRequest'.typed \in BOOLEAN
              /\ recordRequest'.page \in R!Places
<1>1. CASE recordRequest' = None
  BY <1>1 DEF RequestKnown
<1>2. CASE recordRequest' = recordRequest
  BY <1>2 DEF RequestKnown, RecordShape, Current
<1>3. CASE /\ recordRequest # None /\ recordPlace' # recordPlace
           /\ recordRequest' = [recordRequest EXCEPT !.here = FALSE]
  <2>1. R!Page[recordRequest.page].how # "write"
    BY <1>3, PlacesShaped DEF RecordShape
  <2>2. /\ DOMAIN recordRequest' = RequestFields
        /\ recordRequest'.stage = recordRequest.stage /\ recordRequest'.kind = recordRequest.kind
        /\ recordRequest'.seen = recordRequest.seen /\ recordRequest'.version = recordRequest.version
        /\ recordRequest'.value = recordRequest.value /\ recordRequest'.typed = recordRequest.typed
        /\ recordRequest'.page = recordRequest.page /\ recordRequest'.result = recordRequest.result
    BY <1>3 DEF RecordShape, RequestFields
  <2>3. R!Page[recordRequest'.page].how # "write"
    BY <2>1, <2>2
  <2> QED BY <1>3, <2>2, <2>3 DEF RequestKnown, RecordShape, Current
<1> QED BY <1>1, <1>2, <1>3 DEF SameRequest

\* A question is asked again, given up or joined; its data stays.
LEMMA CellKeeps ==
  ASSUME RecordInv, UNCHANGED <<recordSubject, recordRow, recordSaved>>,
         recordPlace' \in R!Places, SameForm, SameRequest,
         NEW p \in R!Places, NEW x, recordCache' = [recordCache EXCEPT ![p] = x],
         DOMAIN x = CacheFields, x.data = recordCache[p].data,
         x = recordCache[p] \/ x.load \notin {"none", "read"}
  PROVE  RecordInv'
<1>3. /\ recordCache'[p] = x /\ \A q \in R!Places : q # p => recordCache'[q] = recordCache[q]
      /\ recordCache' = [q \in R!Places |-> recordCache'[q]]
      /\ \A q \in R!Places : DOMAIN recordCache'[q] = CacheFields
  BY CellShape DEF RecordInv
<1>4. R!F' = R!F /\ R!Attribute' = R!Attribute /\ R!Places' = R!Places
      /\ (recordPlace' = recordPlace => R!Here' = R!Here)
  BY DEF R!F, R!Attribute, R!Places, R!Here
<1>a. recordDialog' # None =>
        /\ recordPlace' = recordPlace /\ recordDialog # None /\ recordDialog'.kind = recordDialog.kind
        /\ recordDialog'.base = recordDialog.base
        /\ DOMAIN recordDialog' = {"kind", "base", "typed", "value"} /\ recordDialog'.typed \in BOOLEAN
        /\ ~recordDialog'.typed /\ R!Attribute \in R!Filled[R!F] =>
             recordDialog'.value = recordDialog'.base.value
  <2>1. CASE recordPlace' = recordPlace /\ recordDialog' = recordDialog
    BY <2>1 DEF RecordInv, RecordShape, DialogKnown
  <2>2. CASE /\ recordPlace' = recordPlace /\ recordDialog # None
             /\ recordDialog' = R!Fill(recordDialog.kind, recordDialog.base)
    <3> DEFINE d == R!Fill(recordDialog.kind, recordDialog.base)
    <3>1. /\ DOMAIN d = {"kind", "base", "typed", "value"} /\ d.kind = recordDialog.kind
          /\ d.base = recordDialog.base /\ d.typed = FALSE
          /\ R!Attribute \in R!Filled[R!F] => d.value = recordDialog.base.value
      BY DEF R!Fill
    <3> HIDE DEF d
    <3>2. recordDialog' = d
      BY <2>2 DEF d
    <3> QED BY <2>2, <3>1, <3>2
  <2> QED BY <2>1, <2>2 DEF SameForm
<1>c. \A q \in R!Places : recordCache'[q].data = recordCache[q].data
  BY <1>3
<1>5. RecordShape'
  BY <1>3, <1>4, <1>a, RequestStays DEF RecordInv, RecordShape
<1>6. CacheKnown'
  BY <1>3, <1>4 DEF RecordInv, RecordShape, CacheKnown, Current
<1>7. DialogKnown'
  BY <1>4, <1>a, <1>c DEF RecordInv, RecordShape, DialogKnown, Current
<1>8. RequestKnown'
  BY RequestStays DEF RecordInv
<1>9. SavesShown'
  BY <1>3, <1>4 DEF RecordInv, RecordShape, SavesShown, SaveShown, AtLeast
<1> QED BY <1>5, <1>6, <1>7, <1>8, <1>9 DEF RecordInv

LEMMA VisitKeeps ==
  ASSUME RecordInv, NEW p \in R!Places, NEW aged, R!Visit(p, aged)
  PROVE  RecordInv'
<1> DEFINE x == R!Mounted(recordCache[p], aged)
<1>1. DOMAIN x = CacheFields /\ x.data = recordCache[p].data /\ (x = recordCache[p] \/ x.load = "asked")
  BY MountedShape DEF RecordInv, RecordShape
<1>2. /\ recordCache' = [recordCache EXCEPT ![p] = x]
      /\ UNCHANGED <<recordSubject, recordRow, recordSaved>>
      /\ recordPlace' = p /\ p # recordPlace /\ SameForm
  BY DEF R!Visit, R!Leave, SameForm, RecordInv, RecordShape
<1>3. SameRequest
  BY DEF R!Visit, R!Leave, SameRequest
<1> HIDE DEF x
<1> QED BY <1>1, <1>2, <1>3, CellKeeps

LEMMA RetryKeeps == ASSUME RecordInv, R!Retry PROVE RecordInv'
<1> DEFINE x == R!Asked(recordCache[recordPlace])
<1>1. DOMAIN x = CacheFields /\ x.data = recordCache[recordPlace].data /\ x.load = "asked"
  BY AskedShape DEF RecordInv, RecordShape
<1>2. /\ recordCache' = [recordCache EXCEPT ![recordPlace] = x]
      /\ UNCHANGED <<recordSubject, recordRow, recordSaved>>
      /\ recordPlace' = recordPlace /\ recordPlace \in R!Places /\ SameForm /\ SameRequest
  BY DEF R!Retry, SameForm, SameRequest, RecordInv, RecordShape
<1> HIDE DEF x
<1> QED BY <1>1, <1>2, CellKeeps

LEMMA LoadFailsKeeps == ASSUME RecordInv, NEW p \in R!Places, R!LoadFails(p) PROVE RecordInv'
<1> DEFINE x == [recordCache[p] EXCEPT !.load = "failed", !.read = None]
<1>1. DOMAIN x = CacheFields /\ x.data = recordCache[p].data /\ x.load = "failed"
  BY DEF RecordInv, RecordShape, CacheFields
<1>2. recordCache' = [recordCache EXCEPT ![p] = x]
  BY DEF R!LoadFails, RecordInv, RecordShape
<1>3. /\ UNCHANGED <<recordSubject, recordRow, recordSaved>>
      /\ recordPlace' = recordPlace /\ recordPlace \in R!Places /\ SameForm /\ SameRequest
  BY DEF R!LoadFails, SameForm, SameRequest, RecordInv, RecordShape
<1> HIDE DEF x
<1> QED BY <1>1, <1>2, <1>3, CellKeeps

\* What the answers of a page's load put into its form.
LEMMA ArriveKeeps == ASSUME RecordInv, NEW p \in R!Places, R!Arrive(p) PROVE RecordInv'
<1> DEFINE new == recordCache[p].read
           x == [R!Idle EXCEPT !.data = new]
<1>1. /\ recordCache' = [recordCache EXCEPT ![p] = x] /\ recordCache[p].load = "read"
      /\ UNCHANGED <<recordSubject, recordPlace, recordRow, recordRequest, recordSaved>>
  BY DEF R!Arrive
<1>2. DOMAIN x = CacheFields /\ x.data = recordCache[p].read /\ x.load = "none"
  BY DEF R!Idle, CacheFields
<1>3. IF p = recordPlace /\ recordDialog # None /\ new # recordCache[p].data /\ ~R!Here.copies
      THEN recordDialog' = IF R!Exists(new) THEN R!Fill(recordDialog.kind, new) ELSE None
      ELSE recordDialog' = recordDialog
  BY DEF R!Arrive, R!Refill, R!Refilled
<1> HIDE DEF x
<1>4. /\ recordCache'[p] = x /\ \A q \in R!Places : q # p => recordCache'[q] = recordCache[q]
      /\ recordCache' = [q \in R!Places |-> recordCache'[q]]
      /\ \A q \in R!Places : DOMAIN recordCache'[q] = CacheFields
  BY <1>1, <1>2, CellShape DEF RecordInv
<1>5. R!F' = R!F /\ R!Attribute' = R!Attribute /\ R!Places' = R!Places /\ R!Here' = R!Here
  BY <1>1 DEF R!F, R!Attribute, R!Places, R!Here
<1>6. Current(new)
  BY <1>1 DEF RecordInv, CacheKnown
<1>7. recordDialog' # None =>
        /\ recordDialog # None /\ recordDialog'.kind = recordDialog.kind
        /\ recordDialog'.base \in {recordDialog.base, new}
        /\ ~R!Here.copies => recordDialog'.base = recordCache'[recordPlace].data
        /\ DOMAIN recordDialog' = {"kind", "base", "typed", "value"} /\ recordDialog'.typed \in BOOLEAN
        /\ ~recordDialog'.typed /\ R!Attribute \in R!Filled[R!F] =>
             recordDialog'.value = recordDialog'.base.value
  <2>1. CASE p = recordPlace /\ recordDialog # None /\ new # recordCache[p].data /\ ~R!Here.copies
    <3> DEFINE d == R!Fill(recordDialog.kind, new)
    <3>1. /\ DOMAIN d = {"kind", "base", "typed", "value"} /\ d.kind = recordDialog.kind
          /\ d.base = new /\ d.typed = FALSE
          /\ R!Attribute \in R!Filled[R!F] => d.value = new.value
      BY DEF R!Fill
    <3> HIDE DEF d
    <3>2. recordDialog' # None => recordDialog' = d
      BY <1>3, <2>1 DEF d
    <3> HIDE DEF new
    <3>3. recordCache'[recordPlace].data = new
      BY <1>2, <1>4, <2>1 DEF new
    <3> QED BY <2>1, <3>1, <3>2, <3>3
  <2>2. CASE ~(p = recordPlace /\ recordDialog # None /\ new # recordCache[p].data /\ ~R!Here.copies)
    BY <1>2, <1>3, <1>4, <2>2 DEF RecordInv, RecordShape, DialogKnown
  <2> QED BY <2>1, <2>2
<1>8. RecordShape'
  BY <1>1, <1>4, <1>5, <1>7 DEF RecordInv, RecordShape
<1>9. CacheKnown'
  BY <1>1, <1>2, <1>4, <1>5, <1>6 DEF RecordInv, RecordShape, CacheKnown, Current
<1>10. DialogKnown'
  BY <1>1, <1>5, <1>6, <1>7 DEF RecordInv, DialogKnown, Current
<1>11. RequestKnown'
  BY <1>1 DEF RecordInv, RequestKnown, Current
<1>12. SavesShown'
  BY <1>1, <1>2, <1>4, <1>5 DEF RecordInv, RecordShape, SavesShown, SaveShown, AtLeast
<1> QED BY <1>8, <1>9, <1>10, <1>11, <1>12 DEF RecordInv

\* The operator opens, fills in and closes forms.
LEMMA FormKeeps == ASSUME RecordInv, Formed PROVE RecordInv'
<1>1. UNCHANGED <<recordSubject, recordPlace, recordRow, recordCache, recordRequest, recordSaved>>
  BY DEF Formed, R!Close, R!Open, R!Type
<1>2. R!F' = R!F /\ R!Attribute' = R!Attribute /\ R!Places' = R!Places /\ R!Here' = R!Here
  BY <1>1 DEF R!F, R!Attribute, R!Places, R!Here
<1>3. CacheKnown' /\ RequestKnown' /\ SavesShown'
  BY <1>1, <1>2 DEF RecordInv, CacheKnown, RequestKnown, SavesShown, SaveShown, AtLeast, Current
<1>4. DialogKnown' /\ (recordDialog' # None =>
         DOMAIN recordDialog' = {"kind", "base", "typed", "value"} /\ recordDialog'.typed \in BOOLEAN)
  <2>1. CASE R!Close
    BY <2>1 DEF R!Close, DialogKnown
  <2>2. ASSUME NEW kind \in {"edit", "delete"}, R!Open(kind)
        PROVE  DialogKnown' /\ (recordDialog' # None =>
         DOMAIN recordDialog' = {"kind", "base", "typed", "value"} /\ recordDialog'.typed \in BOOLEAN)
    <3> DEFINE s == recordCache[recordPlace].data
               d == R!Fill(kind, s)
    <3>1. /\ DOMAIN d = {"kind", "base", "typed", "value"} /\ d.kind = kind
          /\ d.base = s /\ d.typed = FALSE
          /\ R!Attribute \in R!Filled[R!F] => d.value = s.value
      BY DEF R!Fill
    <3> HIDE DEF d
    <3>2. recordDialog' = d /\ s # None /\ (kind = "delete" => R!Here.deletes # "no")
      BY <2>2 DEF R!Open, R!Exists, d
    <3>3. Current(s)
      BY <3>2 DEF RecordInv, RecordShape, CacheKnown
    <3> QED BY <1>1, <1>2, <3>1, <3>2, <3>3 DEF DialogKnown, Current
  <2>3. ASSUME NEW v, R!Type(v)
        PROVE  DialogKnown' /\ (recordDialog' # None =>
         DOMAIN recordDialog' = {"kind", "base", "typed", "value"} /\ recordDialog'.typed \in BOOLEAN)
    <3>1. recordDialog # None /\ recordDialog' = [recordDialog EXCEPT !.value = v, !.typed = TRUE]
      BY <2>3 DEF R!Type
    <3>2. /\ DOMAIN recordDialog' = {"kind", "base", "typed", "value"} /\ recordDialog'.typed = TRUE
          /\ recordDialog'.base = recordDialog.base /\ recordDialog'.kind = recordDialog.kind
      BY <3>1 DEF RecordInv, RecordShape
    <3> QED BY <1>1, <1>2, <3>1, <3>2 DEF RecordInv, DialogKnown, Current
  <2> QED BY <2>1, <2>2, <2>3 DEF Formed
<1>5. RecordShape'
  BY <1>1, <1>2, <1>4 DEF RecordInv, RecordShape
<1> QED BY <1>3, <1>4, <1>5 DEF RecordInv

\* The form sends what it was filled with, naming the version it was filled from.
LEMMA SubmitKeeps == ASSUME RecordInv, R!Submit PROVE RecordInv'
<1>1. UNCHANGED <<recordSubject, recordPlace, recordRow, recordCache, recordDialog, recordSaved>>
  BY DEF R!Submit
<1>2. R!F' = R!F /\ R!Attribute' = R!Attribute /\ R!Places' = R!Places /\ R!Here' = R!Here
  BY <1>1 DEF R!F, R!Attribute, R!Places, R!Here
<1>3. CacheKnown' /\ DialogKnown' /\ SavesShown'
  BY <1>1, <1>2 DEF RecordInv, CacheKnown, DialogKnown, SavesShown, SaveShown, AtLeast, Current
<1>4. /\ DOMAIN recordRequest' = RequestFields /\ recordRequest'.stage = "sent"
      /\ recordRequest'.kind = recordDialog.kind
      /\ recordRequest'.version = R!Target(recordDialog.kind).version
      /\ recordRequest'.seen = recordDialog.base.version
      /\ recordRequest'.value = recordDialog.value /\ recordRequest'.typed = recordDialog.typed
      /\ recordRequest'.page = recordPlace /\ recordRequest'.here = TRUE
  BY DEF R!Submit, RequestFields
<1>5. recordDialog # None
  BY DEF R!Submit
<1>6. R!Target(recordDialog.kind) = recordDialog.base
  <2>1. PageShaped(recordPlace)
    BY PlacesShaped DEF RecordInv, RecordShape
  <2>2. R!Here = R!Page[recordPlace]
    BY DEF R!Here
  <2> QED BY <1>5, <2>1, <2>2 DEF R!Target, RecordInv, DialogKnown, PageShaped
<1>7. R!Attribute \in R!Filled[R!F]
  BY SentIsFilled DEF RecordInv, RecordShape
<1>8. RequestKnown'
  BY <1>1, <1>4, <1>5, <1>6, <1>7 DEF RecordInv, DialogKnown, RequestKnown, Current
<1>9. RecordShape'
  BY <1>1, <1>2, <1>4, <1>5 DEF RecordInv, RecordShape
<1> QED BY <1>3, <1>8, <1>9 DEF RecordInv

\* The record gets a new version, or goes.
Changed ==
  /\ recordRow # R!Gone
  /\ recordRow'.version \in Nat
  /\ recordRow' # R!Gone => recordRow'.version = recordRow.version + 1

\* Whatever changes the record, a copy stays a copy of an earlier version.
LEMMA ChangeKeeps ==
  ASSUME RecordInv, Changed,
         UNCHANGED <<recordSubject, recordPlace, recordCache, recordDialog, recordSaved>>
  PROVE  /\ CacheKnown' /\ DialogKnown' /\ SavesShown'
         /\ recordRequest' = recordRequest => RecordInv'
         /\ (recordRequest' # None => /\ DOMAIN recordRequest' = RequestFields
                                      /\ recordRequest'.typed \in BOOLEAN
                                      /\ recordRequest'.page \in R!Places) => RecordShape'
<1>1. R!F' = R!F /\ R!Attribute' = R!Attribute /\ R!Places' = R!Places /\ R!Here' = R!Here
      /\ R!Gone' = R!Gone
  BY DEF R!F, R!Attribute, R!Places, R!Here, R!Gone
<1>2. recordRow.version \in Nat /\ recordRow.version > 0
  BY DEF RecordInv, RecordShape, Changed
<1>3. CacheKnown'
  BY <1>1, <1>2 DEF RecordInv, CacheKnown, Current, Changed
<1>4. DialogKnown'
  BY <1>1, <1>2 DEF RecordInv, DialogKnown, Current, Changed
<1>5. SavesShown'
  <2>1. SUFFICES ASSUME NEW p \in R!Places, R!Page[p].how # "write" PROVE SaveShown(p)'
    BY <1>1 DEF SavesShown
  <2>2. SaveShown(p)
    BY <1>1, <2>1 DEF RecordInv, SavesShown
  <2>3. recordRow' = R!Gone \/ recordSaved[p] <= recordRow'.version
    BY <1>2, <2>2 DEF SaveShown, Changed
  <2>4. recordCache' = recordCache /\ recordSaved' = recordSaved
    OBVIOUS
  <2> QED BY <1>1, <2>2, <2>3, <2>4 DEF SaveShown, AtLeast
<1>6. ASSUME recordRequest' # None => /\ DOMAIN recordRequest' = RequestFields
                                      /\ recordRequest'.typed \in BOOLEAN
                                      /\ recordRequest'.page \in R!Places
      PROVE  RecordShape'
  BY <1>1, <1>2, <1>6 DEF RecordInv, RecordShape, Changed
<1>7. ASSUME recordRequest' = recordRequest PROVE RecordInv'
  <2>1. RequestKnown'
    BY <1>1, <1>2, <1>7 DEF RecordInv, RequestKnown, Current, Changed
  <2>2. RecordShape'
    BY <1>6, <1>7 DEF RecordInv, RecordShape
  <2> QED BY <1>3, <1>4, <1>5, <2>1, <2>2 DEF RecordInv
<1> QED BY <1>3, <1>4, <1>5, <1>6, <1>7

LEMMA OthersKeep ==
  ASSUME RecordInv, R!OthersDelete \/ \E v \in {recordRow.value, "theirs"} : R!OthersEdit(v)
  PROVE  RecordInv'
<1>1. UNCHANGED <<recordSubject, recordPlace, recordCache, recordDialog, recordRequest, recordSaved>>
  BY DEF R!OthersDelete, R!OthersEdit
<1>2. Changed
  <2>1. CASE R!OthersDelete
    BY <2>1 DEF R!OthersDelete, R!Exists, R!Gone, Changed
  <2>2. CASE \E v \in {recordRow.value, "theirs"} : R!OthersEdit(v)
    <3>1. recordRow # R!Gone /\ recordRow'.version = recordRow.version + 1
      BY <2>2 DEF R!OthersEdit, R!Exists
    <3> QED BY <3>1 DEF RecordInv, RecordShape, Changed
  <2> QED BY <2>1, <2>2
<1> QED BY <1>1, <1>2, ChangeKeeps

\* The server answers with the record as the request has left it.
LEMMA ServeShape ==
  ASSUME RecordInv, R!Serve
  PROVE  /\ Changed
         /\ recordRequest # None /\ recordRequest.stage = "sent"
         /\ recordRequest.version = recordRow.version
         /\ DOMAIN recordRequest' = RequestFields
         /\ recordRequest'.stage = "done" /\ recordRequest'.result = recordRow'
         /\ recordRequest'.typed = recordRequest.typed /\ recordRequest'.page = recordRequest.page
         /\ recordRequest'.here = recordRequest.here
         /\ recordRequest.kind # "delete" => recordRow'.value = R!Patched(recordRequest)
         /\ UNCHANGED <<recordSubject, recordPlace, recordCache, recordDialog, recordSaved>>
<1>1. /\ recordRequest # None /\ recordRequest.stage = "sent" /\ recordRow # R!Gone
      /\ recordRequest.version = recordRow.version
      /\ UNCHANGED <<recordSubject, recordPlace, recordCache, recordDialog, recordSaved>>
      /\ recordRequest' = [recordRequest EXCEPT !.stage = "done", !.result = recordRow']
  BY DEF R!Serve, R!IfMatch, R!Accepted, R!Exists
<1>2. /\ DOMAIN recordRequest' = RequestFields
      /\ recordRequest'.stage = "done" /\ recordRequest'.result = recordRow'
      /\ recordRequest'.typed = recordRequest.typed /\ recordRequest'.page = recordRequest.page
      /\ recordRequest'.here = recordRequest.here
  BY <1>1 DEF RecordInv, RecordShape, RequestFields
<1>3. CASE recordRequest.kind = "delete"
  <2>1. CASE recordRow' = R!Gone
    BY <1>1, <1>2, <1>3, <2>1 DEF Changed, R!Gone
  <2>2. CASE recordRow' = R!Retired
    <3>1. recordRow'.version = recordRow.version + 1
      BY <2>2 DEF R!Retired
    <3> QED BY <1>1, <1>2, <1>3, <3>1 DEF Changed, RecordInv, RecordShape
  <2> QED BY <1>3, <2>1, <2>2 DEF R!Serve
<1>4. CASE recordRequest.kind # "delete"
  <2>1. recordRow'.version = recordRow.version + 1 /\ recordRow'.value = R!Patched(recordRequest)
    BY <1>4 DEF R!Serve
  <2> QED BY <1>1, <1>2, <2>1 DEF Changed, RecordInv, RecordShape
<1> QED BY <1>3, <1>4

LEMMA ServeKeeps == ASSUME RecordInv, R!Serve PROVE RecordInv'
<1>1. R!Places' = R!Places
  BY ServeShape DEF R!Places, R!F
<1>2. RequestKnown'
  <2>1. /\ recordRequest'.stage = "done" /\ recordRequest'.result = recordRow'
        /\ recordRow'.version \in Nat
        /\ R!Page[recordRequest'.page].how = "write" => recordRequest'.here = TRUE
    BY ServeShape DEF RecordInv, RequestKnown, Changed
  <2>2. Current(recordRequest.result)'
    BY <2>1 DEF Current
  <2> QED BY <2>1, <2>2 DEF RequestKnown
<1>3. /\ DOMAIN recordRequest' = RequestFields /\ recordRequest'.typed \in BOOLEAN
      /\ recordRequest'.page \in R!Places
  BY ServeShape DEF RecordInv, RecordShape
<1> QED BY <1>2, <1>3, ServeShape, ChangeKeeps DEF RecordInv

LEMMA FailsKeeps == ASSUME RecordInv, R!Fails PROVE RecordInv'
<1> DEFINE x == recordCache[recordPlace]
<1>1. /\ UNCHANGED <<recordSubject, recordRow, recordSaved>> /\ recordCache' = recordCache
      /\ recordPlace' = recordPlace /\ recordPlace \in R!Places /\ SameForm /\ SameRequest
  BY DEF R!Fails, SameForm, SameRequest, RecordInv, RecordShape
<1>2. DOMAIN x = CacheFields /\ x.data = recordCache[recordPlace].data
  BY DEF RecordInv, RecordShape
<1>3. recordCache' = [recordCache EXCEPT ![recordPlace] = x]
  BY <1>1 DEF RecordInv, RecordShape
<1> QED BY <1>1, <1>2, <1>3, CellKeeps

\* What the answer to a request does to the pages it refreshes: each is asked
\* again before its data counts as at rest.
LEMMA RefreshKeeps ==
  ASSUME RecordInv, recordRequest # None, recordRequest.stage = "done", recordRequest' = None,
         recordCache' = R!Refreshed(recordRequest.page),
         recordDialog' = IF recordRequest.here THEN None ELSE recordDialog,
         UNCHANGED <<recordSubject, recordPlace, recordRow>>,
         \/ recordSaved' = recordSaved
         \/ /\ recordRequest.page = recordPlace \/ R!Page[recordRequest.page].how = "refetch"
            /\ recordSaved' = [recordSaved EXCEPT ![recordRequest.page] = recordRequest.result.version]
  PROVE  RecordInv'
<1> DEFINE from == recordRequest.page
<1>1. R!F' = R!F /\ R!Attribute' = R!Attribute /\ R!Places' = R!Places /\ R!Here' = R!Here
  BY DEF R!F, R!Attribute, R!Places, R!Here
<1>2. from \in R!Places /\ PageShaped(from)
  BY PlacesShaped DEF RecordInv, RecordShape
<1>3. recordCache' = [q \in R!Places |-> recordCache'[q]]
      /\ \A q \in R!Places : DOMAIN recordCache'[q] = CacheFields
  BY RefreshShape DEF RecordInv
<1>4. recordSaved' = [q \in R!Places |-> recordSaved'[q]]
  BY DEF RecordInv, RecordShape
<1>5. RecordShape'
  BY <1>1, <1>3, <1>4 DEF RecordInv, RecordShape
<1>6. RequestKnown'
  BY DEF RequestKnown
<1>7. CASE R!Page[from].how = "write"
  <2>1. \A q \in R!Places :
          /\ recordCache'[q].data \in {recordCache[q].data, recordRequest.result}
          /\ recordCache'[q].read = recordCache[q].read
          /\ recordCache'[q].load = recordCache[q].load
    BY <1>7, RefreshShape DEF RecordInv
  <2>2. recordDialog' = None
    BY <1>7 DEF RecordInv, RequestKnown
  <2>3. CacheKnown'
    BY <1>1, <2>1 DEF RecordInv, CacheKnown, RequestKnown, Current
  <2>4. SavesShown'
    BY <1>1, <1>2, <1>7, PlacesShaped DEF RecordInv, RecordShape, SavesShown
  <2> QED BY <1>5, <1>6, <2>2, <2>3, <2>4 DEF RecordInv, DialogKnown
<1>8. CASE R!Page[from].how # "write"
  <2>1. \A q \in R!Places :
          /\ recordCache'[q].data = recordCache[q].data
          /\ recordCache'[q].read = recordCache[q].read \/ recordCache'[q].load = "asked"
          /\ recordCache'[q].load \in {recordCache[q].load, "asked"}
          /\ /\ q \in R!Page[from].after
             /\ R!Page[from].how = "refetch" \/ q = recordPlace
             => recordCache'[q].load = "asked"
    BY <1>8, RefreshShape DEF RecordInv
  <2>2. CacheKnown'
    BY <1>1, <2>1 DEF RecordInv, CacheKnown, Current
  <2>3. DialogKnown'
    BY <1>1, <2>1 DEF RecordInv, RecordShape, DialogKnown, Current
  <2>4. SavesShown'
    <3>1. SUFFICES ASSUME NEW p \in R!Places, R!Page[p].how # "write" PROVE SaveShown(p)'
      BY <1>1 DEF SavesShown
    <3>2. SaveShown(p)
      BY <3>1 DEF RecordInv, SavesShown
    <3>3. CASE recordSaved'[p] = recordSaved[p]
      BY <2>1, <3>2, <3>3 DEF SaveShown, AtLeast
    <3>4. CASE recordSaved'[p] # recordSaved[p]
      <4>1. p = from /\ (from = recordPlace \/ R!Page[from].how = "refetch")
            /\ recordSaved'[p] = recordRequest.result.version
        BY <3>4 DEF RecordInv, RecordShape
      <4>2. recordCache'[p].load = "asked"
        BY <1>2, <2>1, <4>1 DEF PageShaped
      <4> QED BY <4>1, <4>2 DEF RecordInv, RequestKnown, Current, SaveShown
    <3> QED BY <3>3, <3>4
  <2> QED BY <1>5, <1>6, <2>2, <2>3, <2>4 DEF RecordInv
<1> QED BY <1>7, <1>8

LEMMA SavedKeeps == ASSUME RecordInv, R!Saved PROVE RecordInv'
BY RefreshKeeps DEF R!Saved

LEMMA DeletedKeeps == ASSUME RecordInv, NEW aged, R!Deleted(aged) PROVE RecordInv'
<1> DEFINE from == recordRequest.page
           to == R!Page[from].home
<1>1. CASE to = from
  BY <1>1, RefreshKeeps DEF R!Deleted
<1>2. CASE to # from
  <2> DEFINE x == IF recordPlace = to THEN recordCache[to] ELSE R!Mounted(recordCache[to], aged)
  <2>1. from \in R!Places /\ to \in R!Places
    BY PlacesShaped DEF R!Deleted, RecordInv, RecordShape
  <2>2. /\ UNCHANGED <<recordSubject, recordRow, recordSaved>> /\ recordRequest' = None
        /\ recordPlace' = to /\ recordDialog' = (IF recordPlace = to THEN recordDialog ELSE None)
        /\ recordCache' = IF recordPlace = to THEN recordCache
                          ELSE [recordCache EXCEPT ![to] = R!Mounted(recordCache[to], aged)]
    BY <1>2 DEF R!Deleted
  <2>3. recordCache' = [recordCache EXCEPT ![to] = x]
    BY <2>1, <2>2 DEF RecordInv, RecordShape
  <2>4. DOMAIN x = CacheFields /\ x.data = recordCache[to].data
        /\ (x = recordCache[to] \/ x.load \notin {"none", "read"})
    BY <2>1, MountedShape DEF RecordInv, RecordShape
  <2>5. SameForm /\ SameRequest
    BY <2>2 DEF SameForm, SameRequest
  <2> HIDE DEF x, to
  <2> QED BY <2>1, <2>2, <2>3, <2>4, <2>5, CellKeeps
<1> QED BY <1>1, <1>2

LEMMA RecordStep == ASSUME RecordInv, R!Next PROVE RecordInv'
<1>1. CASE \E p \in R!Places : R!Read(p) \/ R!Arrive(p) \/ R!LoadFails(p)
                               \/ \E aged \in BOOLEAN : R!Visit(p, aged)
  BY <1>1, ReadKeeps, ArriveKeeps, LoadFailsKeeps, VisitKeeps
<1>2. CASE Formed
  BY <1>2, FormKeeps
<1>3. CASE R!Retry \/ R!Submit \/ R!Serve \/ R!Fails \/ R!Saved
  BY <1>3, RetryKeeps, SubmitKeeps, ServeKeeps, FailsKeeps, SavedKeeps
<1>4. CASE R!OthersDelete \/ \E v \in {recordRow.value, "theirs"} : R!OthersEdit(v)
  BY <1>4, OthersKeep
<1>5. CASE \E aged \in BOOLEAN : R!Deleted(aged)
  BY <1>5, DeletedKeeps
<1> QED BY <1>1, <1>2, <1>3, <1>4, <1>5 DEF R!Next, Formed

LEMMA RecordsKeep == ConsoleSpec => [](route = "record" => RecordInv)
<1> DEFINE Inv == route = "record" => RecordInv
<1>1. ConsoleInit => Inv
  BY RecordInit DEF ConsoleInit
<1>2. Inv /\ [ConsoleNext /\ UNCHANGED route]_<<route, pages>> => Inv'
  <2>1. CASE ConsoleNext /\ UNCHANGED route
    BY <2>1, RecordStep DEF ConsoleNext
  <2>2. CASE UNCHANGED <<route, pages>>
    <3>1. UNCHANGED <<route, recordSubject, recordPlace, recordRow, recordCache, recordDialog,
                      recordRequest, recordSaved>>
      BY <2>2 DEF pages, record
    <3>2. R!F' = R!F /\ R!Attribute' = R!Attribute /\ R!Places' = R!Places /\ R!Here' = R!Here
      BY <3>1 DEF R!F, R!Attribute, R!Places, R!Here
    <3> QED BY <3>1, <3>2 DEF RecordInv, RecordShape, CacheKnown, DialogKnown, RequestKnown,
                              SavesShown, SaveShown, AtLeast, Current
  <2> QED BY <2>1, <2>2
<1> QED BY <1>1, <1>2, PTL DEF ConsoleSpec

\* A page at rest shows the operator's own last save or something newer, on
\* every page of every form: what was loaded before the save was acknowledged
\* is loaded again (the refetch or invalidation in onSuccess of each page).
THEOREM OwnSavesStay == ConsoleSpec => []OwnSaveShown
<1>1. (route = "record" => RecordInv) => OwnSaveShown
  BY DEF RecordInv, RecordShape, SavesShown, SaveShown, AtLeast, OwnSaveShown, R!OwnSaveShown,
         R!Exists, R!Here
<1> QED BY <1>1, RecordsKeep, PTL

\* A save is accepted only over what the operator had before them (If-Match with
\* the version of the record that filled the form), and changes of the
\* attribute what was typed into it and nothing else, although the form sends
\* every attribute back.
THEOREM SavesOverwriteNothing == ConsoleSpec => NothingOverwritten
<1> DEFINE Overwrites ==
      /\ recordRow' # recordRow /\ recordRequest # None /\ recordRequest' # None
      /\ recordRequest.stage # recordRequest'.stage
    Rightly ==
      /\ recordRequest.seen = recordRow.version
      /\ recordRequest.kind = "edit" =>
           \/ recordRow'.value = recordRow.value
           \/ recordRequest.typed /\ recordRow'.value = recordRequest.value
<1>1. ASSUME RecordInv, R!Next, Overwrites PROVE Rightly
  <2>1. CASE R!Serve
    <3>1. /\ recordRequest # None /\ recordRequest.stage = "sent" /\ recordRow # R!Gone
          /\ recordRequest.version = recordRow.version
          /\ recordRequest.kind # "delete" => recordRow'.value = R!Patched(recordRequest)
      BY <1>1, <2>1, ServeShape DEF Changed
    <3>2. R!Patched(recordRequest) \in {recordRow.value, recordRequest.value}
      BY DEF R!Patched
    <3> QED BY <1>1, <3>1, <3>2 DEF RecordInv, RecordShape, RequestKnown
  <2>2. CASE R!OthersDelete \/ \E v \in {recordRow.value, "theirs"} : R!OthersEdit(v)
    BY <1>1, <2>2 DEF R!OthersDelete, R!OthersEdit
  <2>3. CASE R!Submit \/ R!Fails \/ R!Saved \/ \E aged \in BOOLEAN : R!Deleted(aged)
    BY <1>1, <2>3 DEF R!Submit, R!Fails, R!Saved, R!Deleted
  <2>4. CASE R!Retry \/ Formed \/ \E p \in R!Places : \/ R!Read(p) \/ R!Arrive(p) \/ R!LoadFails(p)
                                                 \/ \E aged \in BOOLEAN : R!Visit(p, aged)
    BY <1>1, <2>4 DEF R!Retry, Formed, R!Close, R!Open, R!Type, R!Read, R!Arrive, R!LoadFails, R!Visit
  <2> QED BY <1>1, <2>1, <2>2, <2>3, <2>4 DEF R!Next, Formed
<1> HIDE DEF Overwrites, Rightly
<1>2. (route = "record" => RecordInv) /\ [ConsoleNext /\ UNCHANGED route]_<<route, pages>>
        => [recordRow' # recordRow /\ recordRequest # None /\ recordRequest' # None
              /\ recordRequest.stage # recordRequest'.stage =>
                /\ recordRequest.seen = recordRow.version
                /\ recordRequest.kind = "edit" =>
                     \/ recordRow'.value = recordRow.value
                     \/ recordRequest.typed /\ recordRow'.value = recordRequest.value]_R!vars
  <2>1. CASE ConsoleNext /\ UNCHANGED route
    BY <1>1, <2>1 DEF ConsoleNext, record, R!vars, Overwrites, Rightly
  <2>2. CASE UNCHANGED <<route, pages>>
    BY <2>2 DEF pages, record, R!vars
  <2> QED BY <2>1, <2>2
<1> QED BY <1>2, RecordsKeep, PTL DEF ConsoleSpec, NothingOverwritten, R!NothingOverwritten

(***************************************************************************)
(* The editor's load.                                                      *)
(***************************************************************************)
ConnFields == {"a", "b", "status", "version"}
Settled(c) == c \in ConnId /\ conn[c].status \in {"active", "inactive"}

TablesShaped ==
  /\ rev \in Nat
  /\ conn = [c \in ConnId |-> conn[c]] /\ \A c \in ConnId : DOMAIN conn[c] = ConnFields
  /\ born \in [Txn -> SUBSET ConnId] /\ dead \in [Txn -> SUBSET ConnId]
  /\ todo \in [Txn -> Seq(E!Op)] /\ req = [t \in Txn |-> req[t]]

SessionOK(t) ==
  /\ \A c \in born[t] : conn[c].status = "pending"
  /\ \A u \in Txn \ {t} : born[t] \cap born[u] = {}
  /\ \A c \in dead[t] : c \in born[t] \/ Settled(c)
  /\ \A i \in DOMAIN todo[t] : todo[t][i].act = "deactivate" => Settled(req[t].conn)

BoxInv == TablesShaped /\ \A t \in Txn : SessionOK(t)

Content == <<occ, resv, E!ActiveLinks>>

LEMMA BoxInit == E!Init => BoxInv
<1> SUFFICES ASSUME E!Init PROVE BoxInv
  OBVIOUS
<1>1. TablesShaped
  BY DEF E!Init, TablesShaped, ConnFields, E!NoConnection
<1>2. ASSUME NEW t \in Txn PROVE SessionOK(t)
  BY DEF E!Init, SessionOK
<1> QED BY <1>1, <1>2 DEF BoxInv

\* A settled connection stays settled, and no session touches another's new rows.
LEMMA OthersFollow ==
  ASSUME BoxInv, NEW t \in Txn, NEW u \in Txn, u # t,
         born'[u] = born[u], dead'[u] = dead[u], todo'[u] = todo[u], req'[u] = req[u],
         \A c \in ConnId : Settled(c) => Settled(c)',
         \A c \in ConnId : conn[c].status = "pending" /\ c \notin born[t] => conn'[c].status = "pending",
         \A c \in born'[t] : c \in born[t] \/ conn[c].status = "none",
         \A v \in Txn : v # t => born'[v] = born[v]
  PROVE  SessionOK(u)'
<1>1. SessionOK(u) /\ SessionOK(t) /\ born[u] \subseteq ConnId /\ born[t] \cap born[u] = {}
  BY DEF BoxInv, TablesShaped, SessionOK
<1>2. \A c \in born'[u] : conn'[c].status = "pending"
  BY <1>1 DEF SessionOK
<1>3. \A v \in Txn \ {u} : born'[u] \cap born'[v] = {}
  BY <1>1 DEF SessionOK
<1>4. \A c \in dead'[u] : c \in born'[u] \/ Settled(c)'
  BY <1>1 DEF SessionOK, Settled
<1>5. \A i \in DOMAIN todo'[u] : todo'[u][i].act = "deactivate" => Settled(req[u].conn)'
  BY <1>1 DEF SessionOK, Settled
<1> QED BY <1>2, <1>3, <1>4, <1>5 DEF SessionOK, Settled

\* A session that only locks, or begins.
LEMMA LocksKeep ==
  ASSUME BoxInv, UNCHANGED <<rev, conn, born, dead>>,
         todo' = todo /\ req' = req
  PROVE  BoxInv'
BY DEF BoxInv, TablesShaped, SessionOK, Settled

LEMMA BeginKeeps == ASSUME BoxInv, NEW t \in Txn, NEW r \in Request, E!Begin(t, r) PROVE BoxInv'
<1>1. /\ UNCHANGED <<occ, resv, rev, conn, born, dead>>
      /\ req' = [req EXCEPT ![t] = r] /\ todo' = [todo EXCEPT ![t] = r.ops]
  BY DEF E!Begin, E!tables, E!session
<1>2. r.ops \in Seq(E!Op) /\ r.conn \in ConnId \cup {None}
  BY RequestsFormed DEF E!Requests
<1>3. TablesShaped'
  BY <1>1, <1>2 DEF BoxInv, TablesShaped
<1>4. ASSUME NEW u \in Txn, u # t PROVE SessionOK(u)'
  BY <1>1, <1>4 DEF BoxInv, TablesShaped, SessionOK, Settled
<1>5. SessionOK(t)'
  <2>1. todo'[t] = r.ops /\ req'[t] = r
    BY <1>1 DEF BoxInv, TablesShaped
  <2>2. ASSUME NEW i \in DOMAIN r.ops, r.ops[i].act = "deactivate" PROVE Settled(r.conn)
    <3>1. r.kind = "deactivate"
      BY <2>2, RequestsFormed
    <3>2. conn[r.conn].status \in {"active", "inactive"}
      BY <3>1 DEF E!Begin
    <3> QED BY <3>1, <3>2, RequestsFormed DEF Settled
  <2> QED BY <1>1, <2>1, <2>2 DEF BoxInv, SessionOK, Settled
<1> QED BY <1>3, <1>4, <1>5 DEF BoxInv

LEMMA TailOK ==
  ASSUME NEW S, NEW s \in Seq(S), s # <<>>
  PROVE  /\ Tail(s) \in Seq(S) /\ 1 \in DOMAIN s /\ Head(s) = s[1]
         /\ \A i \in DOMAIN Tail(s) : i + 1 \in DOMAIN s /\ Tail(s)[i] = s[i + 1]
OBVIOUS

LEMMA NextOp ==
  ASSUME BoxInv, NEW t \in Txn, todo[t] # <<>>, todo' = [todo EXCEPT ![t] = Tail(@)]
  PROVE  /\ todo' \in [Txn -> Seq(E!Op)]
         /\ \A u \in Txn : u # t => todo'[u] = todo[u]
         /\ \A i \in DOMAIN todo'[t] : i + 1 \in DOMAIN todo[t] /\ todo'[t][i] = todo[t][i + 1]
<1>1. todo[t] \in Seq(E!Op)
  BY DEF BoxInv, TablesShaped
<1>2. Tail(todo[t]) \in Seq(E!Op)
      /\ \A i \in DOMAIN Tail(todo[t]) : i + 1 \in DOMAIN todo[t] /\ Tail(todo[t])[i] = todo[t][i + 1]
  BY <1>1, TailOK
<1>3. todo'[t] = Tail(todo[t])
  BY DEF BoxInv, TablesShaped
<1> QED BY <1>1, <1>2, <1>3 DEF BoxInv, TablesShaped

\* An operation that writes no connection: what it deactivates is settled, or new.
LEMMA OperationKeeps ==
  ASSUME BoxInv, NEW t \in Txn, todo[t] # <<>>, todo' = [todo EXCEPT ![t] = Tail(@)],
         UNCHANGED <<rev, conn, born, req>>, dead' \in [Txn -> SUBSET ConnId],
         \A u \in Txn : u # t => dead'[u] = dead[u],
         \A c \in dead'[t] : c \in dead[t] \/ c \in born[t] \/ Settled(c)
  PROVE  BoxInv'
<1>1. TablesShaped'
  BY NextOp DEF BoxInv, TablesShaped
<1>2. ASSUME NEW u \in Txn, u # t PROVE SessionOK(u)'
  <2>1. todo'[u] = todo[u] /\ dead'[u] = dead[u] /\ SessionOK(u)
    BY <1>2, NextOp DEF BoxInv
  <2> QED BY <2>1 DEF SessionOK, Settled
<1>3. SessionOK(t)'
  <2>1. SessionOK(t) /\ \A i \in DOMAIN todo'[t] : i + 1 \in DOMAIN todo[t] /\ todo'[t][i] = todo[t][i + 1]
    BY NextOp DEF BoxInv
  <2>2. \A i \in DOMAIN todo'[t] : todo'[t][i].act = "deactivate" => Settled(req[t].conn)
    BY <2>1 DEF SessionOK
  <2> QED BY <2>1, <2>2 DEF SessionOK, Settled
<1> QED BY <1>1, <1>2, <1>3 DEF BoxInv

LEMMA InsertKeeps ==
  ASSUME BoxInv, NEW t \in Txn, NEW op, todo[t] # <<>>, E!Insert(t, op)
  PROVE  BoxInv' /\ UNCHANGED <<occ, resv, rev>> /\ E!ActiveLinks' = E!ActiveLinks
<1> DEFINE row == [a |-> op.a, b |-> op.b, status |-> "pending", version |-> 1]
<1>1. /\ UNCHANGED <<occ, resv, rev, req, dead>> /\ todo' = [todo EXCEPT ![t] = Tail(@)]
  BY DEF E!Insert, E!Next1
<1>2. PICK c \in ConnId : /\ conn[c].status = "none" /\ conn' = [conn EXCEPT ![c] = row]
                          /\ born' = [born EXCEPT ![t] = @ \cup {c}]
  BY DEF E!Insert
<1>3. row.status = "pending" /\ DOMAIN row = ConnFields
  BY DEF ConnFields
<1> HIDE DEF row
<1>4. /\ conn'[c].status = "pending" /\ \A d \in ConnId : d # c => conn'[d] = conn[d]
      /\ born'[t] = born[t] \cup {c} /\ \A u \in Txn : u # t => born'[u] = born[u]
      /\ born' \in [Txn -> SUBSET ConnId]
  BY <1>2, <1>3 DEF BoxInv, TablesShaped
<1>5. TablesShaped'
  BY <1>1, <1>2, <1>3, <1>4, NextOp DEF BoxInv, TablesShaped
<1>6. \A d \in ConnId : Settled(d) => Settled(d)'
  BY <1>2, <1>4 DEF Settled
<1>7. \A u \in Txn : c \notin born[u]
  BY <1>2 DEF BoxInv, SessionOK
<1>8. ASSUME NEW u \in Txn, u # t PROVE SessionOK(u)'
  BY <1>1, <1>2, <1>4, <1>6, <1>8, NextOp, OthersFollow
<1>9. SessionOK(t)'
  <2>0. SessionOK(t) /\ \A i \in DOMAIN todo'[t] : i + 1 \in DOMAIN todo[t] /\ todo'[t][i] = todo[t][i + 1]
    BY <1>1, NextOp DEF BoxInv
  <2>1. \A i \in DOMAIN todo'[t] : todo'[t][i].act = "deactivate" => Settled(req[t].conn)
    BY <2>0 DEF SessionOK
  <2>2. \A d \in born'[t] : conn'[d].status = "pending"
    BY <1>4 DEF BoxInv, SessionOK, TablesShaped
  <2>3. \A u \in Txn \ {t} : born'[t] \cap born'[u] = {}
    BY <1>4, <1>7 DEF BoxInv, SessionOK
  <2>4. \A d \in dead'[t] : d \in born'[t] \/ Settled(d)'
    <3>1. dead' = dead /\ dead[t] \subseteq ConnId
      BY <1>1 DEF BoxInv, TablesShaped
    <3>2. \A d \in dead[t] : d \in born[t] \/ Settled(d)
      BY <2>0 DEF SessionOK
    <3> QED BY <1>4, <1>6, <3>1, <3>2
  <2>5. \A i \in DOMAIN todo'[t] : todo'[t][i].act = "deactivate" => Settled(req[t].conn)'
    BY <1>1, <1>6, <2>1 DEF Settled
  <2> QED BY <1>1, <2>2, <2>3, <2>4, <2>5 DEF SessionOK, Settled
<1>10. E!ActiveLinks' = E!ActiveLinks
  BY <1>2, <1>4 DEF E!ActiveLinks, E!Active, E!Ends
<1> QED BY <1>1, <1>5, <1>8, <1>9, <1>10 DEF BoxInv

\* The end of a call: its rows are committed, or vanish.
LEMMA EndKeeps ==
  ASSUME BoxInv, NEW t \in Txn, E!Finish(t), rev' \in Nat,
         conn' = [c \in ConnId |-> conn'[c]], \A c \in ConnId : DOMAIN conn'[c] = ConnFields,
         \A c \in ConnId : Settled(c) => Settled(c)',
         \A c \in ConnId : conn[c].status = "pending" /\ c \notin born[t] => conn'[c].status = "pending"
  PROVE  BoxInv'
<1>1. /\ todo' = [todo EXCEPT ![t] = <<>>] /\ req' = [req EXCEPT ![t] = E!Idle]
      /\ born' = [born EXCEPT ![t] = {}] /\ dead' = [dead EXCEPT ![t] = {}]
  BY DEF E!Finish
<1>2. TablesShaped'
  <2>1. <<>> \in Seq(E!Op) /\ {} \in SUBSET ConnId
    OBVIOUS
  <2>2. todo' \in [Txn -> Seq(E!Op)] /\ born' \in [Txn -> SUBSET ConnId] /\ dead' \in [Txn -> SUBSET ConnId]
    BY <1>1, <2>1 DEF BoxInv, TablesShaped
  <2>3. req' = [u \in Txn |-> req'[u]]
    BY <1>1 DEF BoxInv, TablesShaped
  <2> QED BY <2>2, <2>3 DEF TablesShaped
<1>3. SessionOK(t)'
  BY <1>1 DEF BoxInv, TablesShaped, SessionOK
<1>4. ASSUME NEW u \in Txn, u # t PROVE SessionOK(u)'
  <2>1. /\ born'[u] = born[u] /\ dead'[u] = dead[u] /\ todo'[u] = todo[u] /\ req'[u] = req[u]
        /\ born'[t] = {} /\ \A v \in Txn : v # t => born'[v] = born[v]
    BY <1>1, <1>4 DEF BoxInv, TablesShaped
  <2> QED BY <1>4, <2>1, OthersFollow
<1> QED BY <1>2, <1>3, <1>4 DEF BoxInv

LEMMA CommitKeeps == ASSUME BoxInv, NEW t \in Txn, E!Commit(t) PROVE BoxInv' /\ rev' = rev + 1
<1>1. conn' = E!Committed(t) /\ rev' = rev + 1 /\ E!Finish(t)
  BY DEF E!Commit, E!NewRevision
<1>2. \A c \in ConnId : conn'[c] =
        IF c \in dead[t] THEN [conn[c] EXCEPT !.status = "inactive", !.version = @ + 1]
        ELSE IF c \in born[t] THEN [conn[c] EXCEPT !.status = "active"] ELSE conn[c]
  BY <1>1 DEF E!Committed
<1>3. conn' = [c \in ConnId |-> conn'[c]]
  BY <1>1 DEF E!Committed
<1>4. \A c \in ConnId : /\ DOMAIN conn'[c] = ConnFields
                        /\ c \in dead[t] => conn'[c].status = "inactive"
                        /\ c \notin dead[t] /\ c \in born[t] => conn'[c].status = "active"
                        /\ c \notin dead[t] /\ c \notin born[t] => conn'[c] = conn[c]
  BY <1>2 DEF BoxInv, TablesShaped, ConnFields
<1>5. \A c \in dead[t] : c \in born[t] \/ Settled(c)
  BY DEF BoxInv, SessionOK
<1>6. \A c \in ConnId : Settled(c) => Settled(c)'
  BY <1>4 DEF Settled
<1>7. \A c \in ConnId : conn[c].status = "pending" /\ c \notin born[t] => conn'[c].status = "pending"
  BY <1>4, <1>5 DEF Settled
<1> QED BY <1>1, <1>3, <1>4, <1>6, <1>7, EndKeeps DEF BoxInv, TablesShaped

LEMMA RollbackKeeps ==
  ASSUME BoxInv, NEW t \in Txn, E!Rollback(t)
  PROVE  BoxInv' /\ UNCHANGED <<occ, resv, rev>> /\ E!ActiveLinks' = E!ActiveLinks
<1>1. /\ conn' = [c \in ConnId |-> IF c \in born[t] THEN E!NoConnection ELSE conn[c]]
      /\ UNCHANGED <<occ, resv, rev>> /\ E!Finish(t)
  BY DEF E!Rollback
<1>2. E!NoConnection.status = "none" /\ DOMAIN E!NoConnection = ConnFields
  BY DEF E!NoConnection, ConnFields
<1>3. \A c \in born[t] : conn[c].status = "pending"
  BY DEF BoxInv, SessionOK
<1>4. \A c \in ConnId : Settled(c) => Settled(c)'
  BY <1>1, <1>3 DEF Settled
<1>5. BoxInv'
  BY <1>1, <1>2, <1>4, EndKeeps DEF BoxInv, TablesShaped
<1>6. E!ActiveLinks' = E!ActiveLinks
  BY <1>1, <1>2, <1>3 DEF E!ActiveLinks, E!Active, E!Ends
<1> QED BY <1>1, <1>5, <1>6

\* What the load reads changes with the revision only.
LEMMA BoxStep ==
  ASSUME BoxInv, E!Next
  PROVE  BoxInv' /\ (rev' = rev + 1 \/ (rev' = rev /\ UNCHANGED <<occ, resv>> /\ E!ActiveLinks' = E!ActiveLinks))
<1> DEFINE Same == rev' = rev /\ UNCHANGED <<occ, resv>> /\ E!ActiveLinks' = E!ActiveLinks
<1>0. PICK t \in Txn : E!Move(t)
  BY DEF E!Next
<1>a. ASSUME UNCHANGED <<occ, resv, rev, conn>> PROVE Same
  BY <1>a DEF E!ActiveLinks, E!Active, E!Ends
<1> HIDE DEF Same
<1>1. ASSUME NEW r \in Request, E!Begin(t, r) PROVE BoxInv' /\ Same
  <2>1. UNCHANGED <<occ, resv, rev, conn>>
    BY <1>1 DEF E!Begin, E!tables
  <2> QED BY <1>1, <1>a, <2>1, BeginKeeps
<1>2. CASE \/ E!LockConnection(t) \/ E!LockStructure(t) \/ E!CheckRevision(t)
           \/ E!LockTerminal(t) \/ E!StartBody(t) \/ E!Bump(t)
  <2>1. UNCHANGED <<occ, resv, rev, conn, born, dead, todo, req>>
    BY <1>2 DEF E!LockConnection, E!LockStructure, E!CheckRevision, E!LockTerminal, E!StartBody,
       E!Bump, E!Lock, E!tables, E!session
  <2> QED BY <1>a, <2>1, LocksKeep DEF Same
<1>3. CASE E!CreateConnection(t) \/ E!Connect(t)
  BY <1>3, InsertKeeps DEF E!CreateConnection, E!Connect, E!Doing, Same
<1>4. CASE E!Release(t) \/ E!Reserve(t)
  <2>1. /\ UNCHANGED <<occ, resv, rev, conn, born, dead, req>>
        /\ todo[t] # <<>> /\ todo' = [todo EXCEPT ![t] = Tail(@)]
    BY <1>4 DEF E!Release, E!Reserve, E!Doing, E!Next1, E!tables
  <2>2. dead' \in [Txn -> SUBSET ConnId]
    BY <2>1 DEF BoxInv, TablesShaped
  <2> QED BY <1>a, <2>1, <2>2, OperationKeeps DEF Same
<1>5. CASE E!DeactivateConnection(t)
  <2>1. /\ UNCHANGED <<occ, resv, rev, conn, born, req>>
        /\ todo[t] # <<>> /\ Head(todo[t]).act = "deactivate"
        /\ todo' = [todo EXCEPT ![t] = Tail(@)]
        /\ dead' = [dead EXCEPT ![t] = @ \cup {req[t].conn}]
    BY <1>5 DEF E!DeactivateConnection, E!Doing, E!Next1, E!tables
  <2>2. todo[t] \in Seq(E!Op)
    BY DEF BoxInv, TablesShaped
  <2>3. Settled(req[t].conn)
    BY <2>1, <2>2, TailOK DEF BoxInv, SessionOK
  <2>4. /\ dead' \in [Txn -> SUBSET ConnId] /\ dead'[t] = dead[t] \cup {req[t].conn}
        /\ \A u \in Txn : u # t => dead'[u] = dead[u]
    BY <2>1, <2>3 DEF BoxInv, TablesShaped, Settled
  <2> QED BY <1>a, <2>1, <2>3, <2>4, OperationKeeps DEF Same
<1>6. CASE E!Disconnect(t)
  <2>1. /\ UNCHANGED <<occ, resv, rev, conn, born, req>>
        /\ todo[t] # <<>> /\ todo' = [todo EXCEPT ![t] = Tail(@)]
    BY <1>6 DEF E!Disconnect, E!Doing, E!Next1, E!tables
  <2>2. PICK c \in E!On(t, Head(todo[t]).a) : dead' = [dead EXCEPT ![t] = @ \cup {c}]
    BY <1>6 DEF E!Disconnect
  <2>3. c \in ConnId /\ (c \in born[t] \/ Settled(c))
    BY <2>2 DEF E!On, E!Live, Settled
  <2>4. /\ dead' \in [Txn -> SUBSET ConnId] /\ dead'[t] = dead[t] \cup {c}
        /\ \A u \in Txn : u # t => dead'[u] = dead[u]
    BY <2>2, <2>3 DEF BoxInv, TablesShaped
  <2> QED BY <1>a, <2>1, <2>3, <2>4, OperationKeeps DEF Same
<1>7. CASE E!Commit(t)
  BY <1>7, CommitKeeps
<1>8. CASE E!Rollback(t)
  BY <1>8, RollbackKeeps DEF Same
<1> QED
  BY <1>0, <1>1, <1>2, <1>3, <1>4, <1>5, <1>6, <1>7, <1>8
  DEF E!Move, E!Step, E!Refuse, E!DeadlockVictim, E!LoseSession, Same

(***************************************************************************)
(* The page: what was read after a revision that still stands is current.  *)
(***************************************************************************)
PageOK ==
  /\ DOMAIN boxPage = {"revision", "terminals", "connections", "reservations"}
  /\ boxStep \in {"revision", "terminals", "connections", "reservations", "shown"}
  /\ boxStep # "revision" =>
       /\ boxPage.revision \in Nat /\ boxPage.revision <= rev
       /\ boxPage.revision = rev =>
            /\ boxStep # "terminals" => boxPage.terminals = [x \in E!InBox |-> occ[x]]
            /\ boxStep \in {"reservations", "shown"} => boxPage.connections = E!ActiveLinks
            /\ boxStep = "shown" => boxPage.reservations = resv \cap E!InBox

ReaderInv == BoxInv /\ PageOK

LEMMA ReaderStarts == E!ReaderInit => ReaderInv
<1> SUFFICES ASSUME E!ReaderInit PROVE ReaderInv
  OBVIOUS
<1>1. PageOK
  BY DEF E!ReaderInit, E!Empty, PageOK
<1> QED BY <1>1, BoxInit DEF E!ReaderInit, ReaderInv

LEMMA ReaderStep == ReaderInv /\ E!ReaderNext => ReaderInv'
<1> SUFFICES ASSUME ReaderInv, E!ReaderNext PROVE ReaderInv'
  OBVIOUS
<1>0. rev \in Nat
  BY DEF ReaderInv, BoxInv, TablesShaped
<1>1. CASE E!Next /\ UNCHANGED E!readerVars
  <2>1. UNCHANGED <<boxPage, boxStep>>
    BY <1>1 DEF E!readerVars
  <2>2. BoxInv'
    BY <1>1, BoxStep DEF ReaderInv
  <2>3. CASE rev' = rev + 1
    BY <1>0, <2>1, <2>2, <2>3 DEF ReaderInv, PageOK
  <2>4. CASE rev' = rev /\ UNCHANGED <<occ, resv>> /\ E!ActiveLinks' = E!ActiveLinks
    BY <2>1, <2>2, <2>4 DEF ReaderInv, PageOK, E!InBox
  <2> QED BY <1>1, <2>3, <2>4, BoxStep DEF ReaderInv
<1>2. CASE UNCHANGED E!vars
  <2>1. UNCHANGED <<occ, resv, rev, conn, born, dead, todo, req>>
    BY <1>2 DEF E!vars, E!tables, E!session
  <2>2. BoxInv' /\ E!ActiveLinks' = E!ActiveLinks
    BY <2>1, LocksKeep DEF ReaderInv, E!ActiveLinks, E!Active, E!Ends
  <2>3. PageOK'
    <3>1. CASE E!ReadRevision
      BY <1>0, <2>1, <2>2, <3>1 DEF E!ReadRevision, E!Read, ReaderInv, PageOK, E!InBox
    <3>2. CASE E!ReadTerminals
      BY <1>0, <2>1, <2>2, <3>2 DEF E!ReadTerminals, E!Read, ReaderInv, PageOK, E!InBox
    <3>3. CASE E!ReadConnections
      BY <1>0, <2>1, <2>2, <3>3 DEF E!ReadConnections, E!Read, ReaderInv, PageOK, E!InBox
    <3>4. CASE E!ReadReservations
      BY <1>0, <2>1, <2>2, <3>4 DEF E!ReadReservations, E!Read, ReaderInv, PageOK, E!InBox
    <3>5. CASE E!Reload
      BY <3>5 DEF E!Reload, E!Empty, PageOK
    <3>6. CASE E!Next /\ UNCHANGED E!readerVars
      BY <2>1, <2>2, <3>6 DEF E!readerVars, ReaderInv, PageOK, E!InBox
    <3> QED BY <3>1, <3>2, <3>3, <3>4, <3>5, <3>6 DEF E!ReaderNext, E!Load
  <2> QED BY <2>2, <2>3 DEF ReaderInv
<1> QED
  BY <1>1, <1>2 DEF E!ReaderNext, E!Load, E!ReadRevision, E!ReadTerminals, E!ReadConnections,
     E!ReadReservations, E!Read, E!Reload

LEMMA ReaderStutters == ASSUME ReaderInv, UNCHANGED box PROVE ReaderInv'
<1>1. UNCHANGED <<occ, resv, rev, conn, born, dead, todo, req, boxPage, boxStep>>
  BY DEF box
<1>2. BoxInv' /\ E!ActiveLinks' = E!ActiveLinks
  BY <1>1, LocksKeep DEF ReaderInv, E!ActiveLinks, E!Active, E!Ends
<1>3. PageOK'
  BY <1>1, <1>2 DEF ReaderInv, PageOK, E!InBox
<1> QED BY <1>2, <1>3 DEF ReaderInv

\* get_structure_connectivity reads the revision before what it describes, and
\* every commit raises it: four SELECTs without a snapshot never show a mixture
\* under a revision that the check of the batch would still accept.
THEOREM CurrentPages == ConsoleSpec => []PageIsCurrent
<1>1. ConsoleInit => ReaderInv
  BY ReaderStarts DEF ConsoleInit
<1>2. ReaderInv /\ [ConsoleNext /\ UNCHANGED route]_<<route, pages>> => ReaderInv'
  BY ReaderStep, ReaderStutters DEF ConsoleNext, pages
<1>3. ReaderInv => PageIsCurrent
  BY DEF ReaderInv, PageOK, PageIsCurrent, E!PageIsCurrent
<1> QED BY <1>1, <1>2, <1>3, PTL DEF ConsoleSpec

(***************************************************************************)
(* The CTO.  For any number of ports, ONUs, services and versions, and for *)
(* a screen whose copies may be as old as they like: a port and an ONU     *)
(* have at most one active service, a confirmed deactivation ends the      *)
(* service that was shown, and a wizard opened at a port activates it.     *)
(*                                                                         *)
(* The invariant says of every copy of a row, on the page, in a load, under *)
(* the details, in the confirmation or in the request, that the service    *)
(* has at least the version of the copy, and is active if it has no later  *)
(* one.  So a version that still matches matches what was shown.           *)
(***************************************************************************)
Fields == {"port", "onu", "active", "version"}
Entries == {links[i] : i \in DOMAIN links}

\* service_links as a sequence of rows.
Table ==
  /\ links \in Seq(Entries)
  /\ \A i \in DOMAIN links :
       DOMAIN links[i] = Fields /\ links[i].version \in Nat /\ links[i].active \in BOOLEAN

\* A copy of a row that was active when it was read.
Known(r) ==
  r # None =>
    /\ r = [id |-> r.id, port |-> r.port, onu |-> r.onu, version |-> r.version]
    /\ r.id \in DOMAIN links
    /\ r.port = links[r.id].port /\ r.onu = links[r.id].onu
    /\ r.version \in Nat /\ r.version <= links[r.id].version
    /\ r.version = links[r.id].version => links[r.id].active

Copies ==
  /\ \A p \in Port : Known(page[p])
  /\ load.stage = "read" => \A p \in Port : Known(load.read[p])
  /\ selected # None => Known(selected.link)
  /\ Known(ending)
  /\ ends # None => /\ ends = [link |-> ends.link, stage |-> ends.stage]
                    /\ ends.link # None /\ Known(ends.link)

\* The wizard of a port keeps it while the port is selected.
Begun ==
  wizard.open /\ wizard.begun # None /\ selected # None => selected.port = wizard.begun

Shape ==
  /\ DOMAIN wizard = {"open", "step", "customer", "onu", "port", "begun", "picked"}
  /\ wizard.open \in BOOLEAN /\ wizard.picked \in BOOLEAN

Wizards == Shape /\ Begun /\ ActivatesChosenPort

CtoInv == Table /\ OneServicePerPort /\ Copies /\ Wizards
-----------------------------------------------------------------------------
(***************************************************************************)
(* What may happen to the table                                            *)
(***************************************************************************)
\* No service goes away or moves, and none changes without a new version.
Grows ==
  /\ DOMAIN links \subseteq DOMAIN links'
  /\ \A i \in DOMAIN links :
       /\ links'[i].port = links[i].port /\ links'[i].onu = links[i].onu
       /\ \/ links'[i] = links[i]
          \/ links'[i].version \in Nat /\ links'[i].version > links[i].version

LEMMA KnownStays ==
  ASSUME Table, Grows, NEW r, Known(r)
  PROVE  Known(r)'
BY DEF Table, Grows, Known

LEMMA CopiesStay ==
  ASSUME Table, Grows, Copies, UNCHANGED <<page, load, selected, ending, ends>>
  PROVE  Copies'
<1>1. \A r : Known(r) => Known(r)'
  BY KnownStays
<1> QED BY <1>1 DEF Copies

LEMMA Inserts ==
  ASSUME Table, OneServicePerPort, NEW p, NEW o, Insert(p, o)
  PROVE  Table' /\ OneServicePerPort' /\ Grows
<1> DEFINE new == [port |-> p, onu |-> o, active |-> TRUE, version |-> 1]
           n == Len(links) + 1
<1>1. /\ DOMAIN links = 1 .. Len(links) /\ Len(links) \in Nat
      /\ links' \in Seq(Entries \cup {new})
      /\ Len(links') = n /\ DOMAIN links' = 1 .. n
      /\ links'[n] = new
      /\ \A i \in DOMAIN links : links'[i] = links[i]
  <2> DEFINE Rows == Entries \cup {new}
  <2>1. links \in Seq(Rows) /\ new \in Rows
    BY DEF Table
  <2>2. links' = Append(links, new)
    BY DEF Insert
  <2> HIDE DEF new, Rows
  <2>3. /\ DOMAIN links = 1 .. Len(links) /\ Len(links) \in Nat
        /\ links' \in Seq(Rows) /\ Len(links') = n /\ DOMAIN links' = 1 .. n
    BY <2>1, <2>2
  <2>4. links'[n] = new /\ \A i \in DOMAIN links : links'[i] = links[i]
    BY <2>1, <2>2
  <2>5. Rows = Entries \cup {new}
    BY DEF Rows
  <2> QED BY <2>3, <2>4, <2>5
<1>2. links' \in Seq(Entries')
  BY <1>1 DEF Entries
<1>3. Table'
  <2>1. \A j \in DOMAIN links' : j = n \/ j \in DOMAIN links
    BY <1>1
  <2>2. DOMAIN new = Fields /\ new.version \in Nat /\ new.active \in BOOLEAN
    BY DEF Fields
  <2> HIDE DEF new, n
  <2>3. \A j \in DOMAIN links' : links'[j] = new \/ (links'[j] = links[j] /\ j \in DOMAIN links)
    BY <1>1, <2>1
  <2> QED BY <1>2, <2>2, <2>3 DEF Table
<1>4. \A i \in DOMAIN links : links[i].active => links[i].port # p /\ links[i].onu # o
  BY DEF Insert, UniqueIndex, Unused, ActiveAt, ActiveWith
<1>5. OneServicePerPort'
  BY <1>1, <1>4 DEF OneServicePerPort
<1> QED BY <1>1, <1>3, <1>5 DEF Grows

LEMMA Changes ==
  ASSUME Table, OneServicePerPort, NEW i \in DOMAIN links, NEW active \in BOOLEAN,
         active /\ ~links[i].active => UniqueIndex(links[i].port, links[i].onu),
         Change(i, active)
  PROVE  Table' /\ OneServicePerPort' /\ Grows
<1>1. /\ DOMAIN links' = DOMAIN links
      /\ \A j \in DOMAIN links : j # i => links'[j] = links[j]
      /\ DOMAIN links'[i] = Fields
      /\ links'[i].port = links[i].port /\ links'[i].onu = links[i].onu
      /\ links'[i].active = active /\ links'[i].version = links[i].version + 1
  BY DEF Table, Change, NextVersion, Bumped, Fields
<1>2. links' \in Seq(Entries')
  <2>1. Len(links) \in Nat /\ DOMAIN links = 1 .. Len(links)
    BY DEF Table
  <2>2. links' = [j \in 1 .. Len(links) |-> links'[j]]
    BY <1>1, <2>1 DEF Change
  <2>3. \A j \in 1 .. Len(links) : links'[j] \in Entries'
    BY <1>1, <2>1 DEF Entries
  <2> QED BY <2>1, <2>2, <2>3
<1>3. Table'
  BY <1>1, <1>2 DEF Table
<1>4. active /\ ~links[i].active =>
        \A j \in DOMAIN links : links[j].active =>
          links[j].port # links[i].port /\ links[j].onu # links[i].onu
  BY DEF UniqueIndex, Unused, ActiveAt, ActiveWith
<1>5. OneServicePerPort'
  BY <1>1, <1>4 DEF OneServicePerPort, Table
<1> QED BY <1>1, <1>3, <1>5 DEF Grows, Table
-----------------------------------------------------------------------------
(***************************************************************************)
(* What may happen to the wizard                                           *)
(***************************************************************************)
\* The target is the selected port, or else a port that was chosen stays.
LEMMA TargetOfPort ==
  ASSUME NEW port, port # None, NEW rows, NEW old
  PROVE  Target(port, rows, old) = port.port
BY DEF Target, ForcedPort

LEMMA TargetStays ==
  ASSUME NEW rows, NEW old, old # None
  PROVE  Target(None, rows, old) = old
BY DEF Target, ForcedPort

LEMMA WizardStays ==
  ASSUME Wizards, UNCHANGED <<selected, wizard>>
  PROVE  Wizards'
BY DEF Wizards, Shape, Begun, ActivatesChosenPort

\* A closed wizard starts with what is selected.
LEMMA WizardOpens ==
  ASSUME Wizards, NEW port, OpenWizard(port)
  PROVE  Wizards'
<1>1. /\ selected' = port /\ wizard'.port = Target(port, page, wizard.port)
      /\ wizard'.begun = IF port = None THEN None ELSE port.port
      /\ wizard'.picked = FALSE
      /\ Shape'
  BY DEF Wizards, Shape, OpenWizard
<1> QED BY <1>1, TargetOfPort DEF Wizards, Begun, ActivatesChosenPort

\* A new selection replaces the target of a closed wizard, no selection none.
LEMMA Selects ==
  ASSUME Wizards, NEW row, ~wizard.open \/ row = None, Select(row)
  PROVE  Wizards'
<1>1. /\ selected' = row /\ wizard'.port = Target(row, page, wizard.port)
      /\ wizard'.open = wizard.open /\ wizard'.begun = wizard.begun
      /\ wizard'.picked = wizard.picked
      /\ Shape'
  BY DEF Wizards, Shape, Select
<1> QED BY <1>1, TargetStays DEF Wizards, Begun, ActivatesChosenPort

\* An operator picks a port of the free ones, the list of free ones changes, or
\* something else of the wizard does.
LEMMA Retargets ==
  ASSUME Wizards, NEW rows, NEW old, UNCHANGED selected, Shape',
         wizard'.open = wizard.open, wizard'.begun = wizard.begun,
         \/ wizard'.port = wizard.port
         \/ wizard'.port = Target(selected, rows, wizard.port)
         \/ selected # None /\ wizard'.port = Target(selected, rows, old)
         \/ wizard'.picked,
         wizard.picked => wizard'.picked
  PROVE  Wizards'
<1>1. CASE selected # None
  BY <1>1, TargetOfPort DEF Wizards, Begun, ActivatesChosenPort
<1>2. CASE selected = None
  BY <1>2, TargetStays DEF Wizards, Begun, ActivatesChosenPort, Shape
<1> QED BY <1>1, <1>2
-----------------------------------------------------------------------------
(***************************************************************************)
(* Reading the occupancy                                                   *)
(***************************************************************************)
LEMMA OccupancyIsKnown ==
  ASSUME Table, NEW p \in Port
  PROVE  Known(Occupancy[p])
<1>1. CASE ActiveAt(p) = {}
  BY <1>1 DEF Occupancy, Known
<1>2. CASE ActiveAt(p) # {}
  <2> DEFINE i == CHOOSE i \in ActiveAt(p) : TRUE
  <2>1. i \in DOMAIN links /\ links[i].active
    BY <1>2 DEF ActiveAt
  <2>2. Occupancy[p] = Row(i)
    BY <1>2 DEF Occupancy
  <2> HIDE DEF i
  <2> QED BY <2>1, <2>2 DEF Row, Known, Table
<1> QED BY <1>1, <1>2

LEMMA Initially == Init => CtoInv
<1> SUFFICES ASSUME Init PROVE CtoInv
  OBVIOUS
<1>1. PICK p \in Port, o \in Onu :
        links = <<[port |-> p, onu |-> o, active |-> TRUE, version |-> 1]>>
  BY DEF Init
<1>2. Table /\ OneServicePerPort
  <2> DEFINE row == [port |-> p, onu |-> o, active |-> TRUE, version |-> 1]
  <2>1. DOMAIN row = Fields /\ row.version \in Nat /\ row.active \in BOOLEAN
    BY DEF Fields
  <2>2. links = <<row>>
    BY <1>1
  <2> HIDE DEF row
  <2>3. DOMAIN links = {1} /\ links[1] = row
    BY <2>2
  <2>4. Entries = {row}
    BY <2>3 DEF Entries
  <2>5. links \in Seq(Entries)
    BY <2>2, <2>4
  <2> QED BY <2>1, <2>3, <2>5 DEF Table, OneServicePerPort
<1>3. Copies
  <2>1. \A q \in Port : Known(page[q])
    BY <1>2, OccupancyIsKnown DEF Init
  <2>2. load.stage # "read" /\ selected = None /\ Known(ending) /\ ends = None
    BY DEF Init, NoLoad, Known
  <2> QED BY <2>1, <2>2 DEF Copies
<1>4. Wizards
  BY DEF Init, Wizards, Shape, Begun, ActivatesChosenPort
<1> QED BY <1>2, <1>3, <1>4 DEF CtoInv
-----------------------------------------------------------------------------
(***************************************************************************)
(* The steps                                                               *)
(***************************************************************************)
LEMMA TableStays ==
  ASSUME Table, OneServicePerPort, UNCHANGED links
  PROVE  Table' /\ OneServicePerPort' /\ Grows
BY DEF Table, Entries, OneServicePerPort, Grows

\* Steps of the browser that leave the services alone.
LEMMA GridSteps ==
  ASSUME CtoInv,
         \/ \E p \in Port : ShowPort(p)
         \/ CloseDetails \/ NewService \/ ActivateHere \/ AskToEnd \/ KeepActive \/ ConfirmEnd
  PROVE  CtoInv'
<1> USE DEF CtoInv
<1>1. \A r : Known(r) => Known(r)'
  BY TableStays, KnownStays DEF ShowPort, CloseDetails, NewService, ActivateHere, OpenWizard,
     AskToEnd, KeepActive, ConfirmEnd
<1>2. Table' /\ OneServicePerPort'
  BY TableStays DEF ShowPort, CloseDetails, NewService, ActivateHere, OpenWizard,
     AskToEnd, KeepActive, ConfirmEnd
<1>3. ASSUME NEW p \in Port, ShowPort(p) PROVE CtoInv'
  <2> DEFINE row == [port |-> p, link |-> page[p]]
  <2>1. selected' = row /\ row.link = page[p]
    BY <1>3 DEF ShowPort, Select
  <2>2. Copies'
    BY <1>1, <1>3, <2>1 DEF ShowPort, Copies
  <2>3. Wizards'
    BY <1>3, Selects DEF ShowPort, Uncovered
  <2> QED BY <1>2, <2>2, <2>3
<1>4. CASE CloseDetails
  <2>1. Copies'
    BY <1>1, <1>4 DEF CloseDetails, Select, Copies
  <2>2. Wizards'
    BY <1>4, Selects DEF CloseDetails
  <2> QED BY <1>2, <2>1, <2>2
<1>5. CASE NewService \/ ActivateHere
  <2>1. Copies'
    BY <1>1, <1>5 DEF NewService, ActivateHere, OpenWizard, Copies
  <2>2. Wizards'
    BY <1>5, WizardOpens DEF NewService, ActivateHere
  <2> QED BY <1>2, <2>1, <2>2
<1>6. CASE AskToEnd \/ KeepActive
  <2>1. Copies'
    BY <1>1, <1>6 DEF AskToEnd, KeepActive, Copies, Known
  <2>2. Wizards'
    BY <1>6, WizardStays DEF AskToEnd, KeepActive
  <2> QED BY <1>2, <2>1, <2>2
<1>7. CASE ConfirmEnd
  <2>1. ends' = [link |-> ending, stage |-> "sent"] /\ ending # None /\ UNCHANGED grid
    BY <1>7 DEF ConfirmEnd
  <2>2. Copies'
    BY <1>1, <2>1 DEF grid, Copies
  <2>3. Wizards'
    BY <1>7, WizardStays DEF ConfirmEnd, grid
  <2> QED BY <1>2, <2>2, <2>3
<1> QED BY <1>3, <1>4, <1>5, <1>6, <1>7

\* Steps of the wizard.
LEMMA WizardSteps ==
  ASSUME CtoInv, Choose \/ Forward \/ Back \/ CloseWizard \/ Activate
  PROVE  CtoInv'
<1> USE DEF CtoInv
<1>1. UNCHANGED <<links, page, load, selected, ending, ends>>
  BY DEF Choose, Forward, Back, CloseWizard, Activate, grid
<1>2. Table' /\ OneServicePerPort' /\ Copies'
  BY <1>1, TableStays, CopiesStay
<1>3. CASE Choose
  <2>1. Shape' /\ wizard'.open = wizard.open /\ wizard'.begun = wizard.begun
    BY <1>3 DEF Choose, Wizards, Shape
  <2>2. ASSUME NEW p, wizard' = [wizard EXCEPT !.port = Target(selected, page, p),
                                              !.picked = @ \/ selected = None]
        PROVE  Wizards'
    <3>1. /\ wizard'.port = Target(selected, page, p)
          /\ wizard'.picked = (wizard.picked \/ selected = None)
      BY <2>2 DEF Wizards, Shape
    <3> QED BY <1>1, <2>1, <3>1, Retargets
  <2>3. ASSUME NEW c, wizard' = [wizard EXCEPT !.customer = c] \/ wizard' = [wizard EXCEPT !.onu = c]
        PROVE  Wizards'
    <3>1. wizard'.port = wizard.port /\ wizard'.picked = wizard.picked
      BY <2>3 DEF Wizards, Shape
    <3> QED BY <1>1, <2>1, <3>1, Retargets
  <2> QED BY <1>2, <1>3, <2>2, <2>3 DEF Choose
<1>4. CASE Forward \/ Back
  <2>1. /\ Shape' /\ wizard'.open = wizard.open /\ wizard'.begun = wizard.begun
        /\ wizard'.port = wizard.port /\ wizard'.picked = wizard.picked
    BY <1>4 DEF Forward, Back, Wizards, Shape
  <2> QED BY <1>1, <1>2, <2>1, Retargets
<1>5. CASE CloseWizard
  <2>1. Shape' /\ ~wizard'.open
    BY <1>5 DEF CloseWizard, Wizards, Shape
  <2> QED BY <1>2, <2>1 DEF Wizards, Begun, ActivatesChosenPort
<1>6. CASE Activate
  BY <1>1, <1>2, <1>6, WizardStays DEF Activate
<1> QED BY <1>3, <1>4, <1>5, <1>6

\* Steps of the server.  What they do to the table keeps every copy true.
LEMMA ServerSteps ==
  ASSUME CtoInv,
         CheckUnused \/ InsertLink \/ ActivationFails \/ EndLink \/ EndFails \/ Others
  PROVE  CtoInv'
<1> USE DEF CtoInv
<1>1. Wizards'
  BY WizardStays DEF CheckUnused, InsertLink, ActivationFails, EndLink, EndFails, Others, grid
<1>2. CASE CheckUnused \/ ActivationFails
  BY <1>1, <1>2, TableStays, CopiesStay DEF CheckUnused, ActivationFails, grid
<1>3. CASE InsertLink
  BY <1>1, <1>3, Inserts, CopiesStay DEF InsertLink, grid
<1>4. CASE EndLink
  <2>1. ends.link # None /\ ends.link.id \in DOMAIN links
    BY <1>4 DEF EndLink, Copies, Known
  <2>2. Table' /\ OneServicePerPort' /\ Grows
    BY <1>4, <2>1, Changes DEF EndLink
  <2>3. \A r : Known(r) => Known(r)'
    BY <2>2, KnownStays
  <2>4. ends' = [link |-> ends.link, stage |-> "done"] /\ UNCHANGED grid
    BY <1>4 DEF EndLink, Copies
  <2>5. Copies'
    BY <1>4, <2>1, <2>3, <2>4 DEF EndLink, Copies, grid
  <2> QED BY <1>1, <2>2, <2>5
<1>5. CASE EndFails
  <2>1. Table' /\ OneServicePerPort' /\ \A r : Known(r) => Known(r)'
    BY <1>5, TableStays, KnownStays DEF EndFails
  <2> QED BY <1>1, <1>5, <2>1 DEF EndFails, Copies, grid
<1>6. CASE Others
  <2>1. Table' /\ OneServicePerPort' /\ Grows
    BY <1>6, Inserts, Changes DEF Others
  <2> QED BY <1>1, <1>6, <2>1, CopiesStay DEF Others, grid
<1> QED BY <1>2, <1>3, <1>4, <1>5, <1>6

\* Answers and loads.
LEMMA AnswerSteps ==
  ASSUME CtoInv, Activated \/ Ended \/ Refetch \/ ReadOccupancy \/ Arrive \/ LoadFails
  PROVE  CtoInv'
<1> USE DEF CtoInv
<1>1. Table' /\ OneServicePerPort' /\ \A r : Known(r) => Known(r)'
  BY TableStays, KnownStays
     DEF Activated, Ended, Refetch, ReadOccupancy, Arrive, LoadFails
<1>2. Asked.stage # "read" /\ NoLoad.stage # "read"
  BY DEF Asked, NoLoad
<1>3. CASE Activated
  <2>1. Copies'
    BY <1>1, <1>2, <1>3 DEF Activated, Copies
  <2>2. Shape' /\ ~wizard'.open
    BY <1>3 DEF Activated, Wizards, Shape
  <2> QED BY <1>1, <2>1, <2>2 DEF Wizards, Begun, ActivatesChosenPort
<1>4. CASE Ended
  <2>1. Copies'
    BY <1>1, <1>2, <1>4 DEF Ended, Select, Copies, Known
  <2>2. Wizards'
    BY <1>4, Selects DEF Ended
  <2> QED BY <1>1, <2>1, <2>2
<1>5. CASE Refetch \/ LoadFails
  <2>1. Copies'
    BY <1>1, <1>2, <1>5 DEF Refetch, LoadFails, Copies
  <2> QED BY <1>1, <1>5, <2>1, WizardStays DEF Refetch, LoadFails
<1>6. CASE ReadOccupancy
  <2>1. /\ load' = [stage |-> "read", read |-> Occupancy]
        /\ UNCHANGED <<page, selected, ending, ends>>
    BY <1>6 DEF ReadOccupancy
  <2>2. \A p \in Port : Known(Occupancy[p])
    BY OccupancyIsKnown
  <2>3. Copies'
    BY <1>1, <2>1, <2>2 DEF Copies
  <2> QED BY <1>1, <1>6, <2>3, WizardStays DEF ReadOccupancy
<1>7. CASE Arrive
  <2>1. Copies'
    BY <1>1, <1>2, <1>7 DEF Arrive, Copies
  <2>2. /\ Shape' /\ wizard'.open = wizard.open /\ wizard'.begun = wizard.begun
        /\ wizard'.port = Target(selected, load.read, wizard.port)
        /\ wizard'.picked = wizard.picked /\ UNCHANGED selected
    BY <1>7 DEF Arrive, Wizards, Shape
  <2> QED BY <1>1, <2>1, <2>2, Retargets
<1> QED BY <1>3, <1>4, <1>5, <1>6, <1>7

LEMMA Preserved == CtoInv /\ [Next]_vars => CtoInv'
<1> SUFFICES ASSUME CtoInv, [Next]_vars PROVE CtoInv'
  OBVIOUS
<1>1. CASE UNCHANGED vars
  BY <1>1, TableStays, CopiesStay, WizardStays DEF vars, CtoInv
<1>2. CASE Next
  BY <1>2, GridSteps, WizardSteps, ServerSteps, AnswerSteps DEF Next
<1> QED BY <1>1, <1>2

LEMMA CtoClosedKeeps == CtoClosed => CtoInv
<1> SUFFICES ASSUME CtoClosed PROVE CtoInv
  OBVIOUS
<1>1. links = <<>> /\ DOMAIN links = {} /\ Entries = {}
  BY DEF CtoClosed, Entries
<1>2. Table /\ OneServicePerPort
  BY <1>1 DEF Table, OneServicePerPort
<1>3. Copies
  <2>1. \A p \in Port : Known(page[p])
    BY <1>2, OccupancyIsKnown DEF CtoClosed
  <2>2. load.stage # "read" /\ selected = None /\ Known(ending) /\ ends = None
    BY DEF CtoClosed, NoLoad, Known
  <2> QED BY <2>1, <2>2 DEF Copies
<1>4. Wizards
  BY DEF CtoClosed, Wizards, Shape, Begun, ActivatesChosenPort
<1> QED BY <1>2, <1>3, <1>4 DEF CtoInv

LEMMA CtoInit == ConsoleInit => CtoInv
BY Initially, CtoClosedKeeps DEF ConsoleInit

LEMMA CtoNext == [ConsoleNext /\ UNCHANGED route]_<<route, pages>> => [Next]_vars
BY DEF ConsoleNext, pages, cto

LEMMA CtoStep == CtoInv /\ [ConsoleNext /\ UNCHANGED route]_<<route, pages>> => CtoInv'
BY CtoNext, Preserved

\* create_service_link looks before it inserts, in two statements; the two
\* partial unique indexes are what keeps two requests apart.
THEOREM OneActiveService == ConsoleSpec => []OneServicePerPort
<1>1. CtoInv => OneServicePerPort
  BY DEF CtoInv
<1> QED BY <1>1, CtoInit, CtoStep, PTL DEF ConsoleSpec

\* The wizard that ActivateHere opens activates the port it was opened at,
\* whatever it was left with (the two effects of service-link-dialog.tsx).
THEOREM WizardActivatesItsPort == ConsoleSpec => []ActivatesChosenPort
<1>1. CtoInv => ActivatesChosenPort
  BY DEF CtoInv, Wizards
<1> QED BY <1>1, CtoInit, CtoStep, PTL DEF ConsoleSpec

\* The version check of deactivate_service_link refuses every copy of the row
\* that is out of date, however it got into the confirmation.
LEMMA EndIsOfWhatWasShown ==
  ASSUME CtoInv, [Next]_vars, ends # None, ends' # None, ends.stage # ends'.stage
  PROVE  links[ends.link.id].active /\ Row(ends.link.id) = ends.link
<1>1. CASE EndLink
  <2>1. ends.link # None /\ Known(ends.link)
    BY DEF CtoInv, Copies
  <2> QED BY <1>1, <2>1 DEF EndLink, Known, Row
<1>2. ASSUME ~EndLink PROVE FALSE
  <2>1. UNCHANGED ends
    BY <1>2 DEF Next, vars, grid, ShowPort, CloseDetails, NewService, ActivateHere, OpenWizard,
       AskToEnd, KeepActive, ConfirmEnd, Choose, Forward, Back, CloseWizard, Activate,
       CheckUnused, InsertLink, ActivationFails, EndFails, Others, Activated, Ended, Refetch,
       ReadOccupancy, Arrive, LoadFails
  <2> QED BY <2>1
<1> QED BY <1>1, <1>2

\* A deactivation that is confirmed over details of any age ends the service
\* they showed, while it is active, or nothing.
THEOREM EndsOnlyWhatWasShown == ConsoleSpec => EndsWhatWasShown
<1> DEFINE Shown == ends # None /\ ends' # None /\ ends.stage # ends'.stage =>
                      LET i == ends.link.id IN links[i].active /\ Row(i) = ends.link
<1>1. CtoInv /\ [Next]_vars => [Shown]_vars
  BY EndIsOfWhatWasShown
<1>2. CtoInv /\ [ConsoleNext /\ UNCHANGED route]_<<route, pages>> => [Shown]_vars
  <2> HIDE DEF Shown
  <2> QED BY <1>1, CtoNext
<1> QED BY <1>2, CtoInit, CtoStep, PTL DEF ConsoleSpec, EndsWhatWasShown

(***************************************************************************)
(* The trace.  TraceProofs is about the module Trace; its instance TP has  *)
(* the variables of the page, like T, and each definition of T is the one  *)
(* of TP, the library's operators included.                                *)
(***************************************************************************)
TP == INSTANCE TraceProofs WITH
  query <- traceQuery, graph <- traceGraph,
  queue <- traceQueue, paths <- tracePaths, cycle <- traceCycle, limited <- traceLimited,
  incomplete <- traceIncomplete, pc <- tracePc

LEMMA SameLibrary ==
  /\ \A S : T!Cardinality(S) = TP!Cardinality(S)
  /\ \A S : T!IsFiniteSet(S) <=> TP!IsFiniteSet(S)
  /\ \A s : T!ToSet(s) = TP!ToSet(s)
  /\ \A s : T!Last(s) = TP!Last(s)
<1>1. \A S : T!Cardinality(S) = TP!Cardinality(S)
  BY DEF T!Cardinality, TP!Cardinality
<1>2. \A S : T!IsFiniteSet(S) <=> TP!IsFiniteSet(S)
  BY DEF T!IsFiniteSet, TP!IsFiniteSet
<1>3. \A s : T!ToSet(s) = TP!ToSet(s)
  BY DEF T!ToSet, TP!ToSet
<1>4. \A s : T!Last(s) = TP!Last(s)
  BY DEF T!Last, TP!Last
<1> QED BY <1>1, <1>2, <1>3, <1>4

LEMMA TracesFormed == TP!FormedQueries
BY QueriesFormed DEF T!ToSet, TP!ToSet, T!IsFiniteSet, TP!IsFiniteSet, TP!FormedQueries, T!WellFormed, TP!WellFormed, T!LinkRows, TP!LinkRows,
   T!Directions, TP!Directions

LEMMA TraceInit == T!Init <=> TP!Init
BY DEF T!ToSet, TP!ToSet, T!Last, TP!Last, T!Cardinality, TP!Cardinality, T!Init, TP!Init

LEMMA SameLoad == T!Load <=> TP!Load
BY DEF T!ToSet, TP!ToSet, T!Last, TP!Last, T!Cardinality, TP!Cardinality, T!Load, TP!Load, T!LoadTraceGraph, TP!LoadTraceGraph, T!Reach, TP!Reach, T!Part, TP!Part,
   T!Neighbors, TP!Neighbors, T!Other, TP!Other

LEMMA SameTransitions ==
  \A g, direction, t, trail : T!Transitions(g, direction, t, trail) = TP!Transitions(g, direction, t, trail)
<1>1. \A kind, rows, t, trail : T!Across(kind, rows, t, trail) = TP!Across(kind, rows, t, trail)
  BY DEF T!ToSet, TP!ToSet, T!Last, TP!Last, T!Cardinality, TP!Cardinality, T!Across, TP!Across, T!Part, TP!Part, T!Arrived, TP!Arrived, T!Other, TP!Other
<1>2. \A g, direction, t : T!ThroughSplitter(g, direction, t) = TP!ThroughSplitter(g, direction, t)
  BY DEF T!ToSet, TP!ToSet, T!Last, TP!Last, T!Cardinality, TP!Cardinality, T!ThroughSplitter, TP!ThroughSplitter, T!Part, TP!Part, T!OutputsOf, TP!OutputsOf, T!OutputAt, TP!OutputAt,
     T!SplitterHop, TP!SplitterHop
<1> QED BY <1>1, <1>2 DEF T!ToSet, TP!ToSet, T!Last, TP!Last, T!Cardinality, TP!Cardinality, T!Transitions, TP!Transitions

LEMMA SameVisit == T!Visit <=> TP!Visit
<1>1. \A s, at : T!Part(s, at) = TP!Part(s, at)
  BY DEF T!ToSet, TP!ToSet, T!Last, TP!Last, T!Cardinality, TP!Cardinality, T!Part, TP!Part
<1> QED BY SameTransitions, <1>1 DEF T!ToSet, TP!ToSet, T!Last, TP!Last, T!Cardinality, TP!Cardinality, T!Visit, TP!Visit, T!End, TP!End, T!Visited, TP!Visited,
   T!IsEndpointValid, TP!IsEndpointValid, T!Behind, TP!Behind

LEMMA TraceNext == T!Next <=> TP!Next
<1>1. /\ T!NotFound <=> TP!NotFound
      /\ T!StopAtResultLimit <=> TP!StopAtResultLimit
      /\ T!CutAtHopLimit <=> TP!CutAtHopLimit
      /\ T!Respond <=> TP!Respond
  BY DEF T!ToSet, TP!ToSet, T!Last, TP!Last, T!Cardinality, TP!Cardinality, T!NotFound, TP!NotFound, T!StopAtResultLimit, TP!StopAtResultLimit,
     T!CutAtHopLimit, TP!CutAtHopLimit, T!Respond, TP!Respond
<1> QED BY <1>1, SameLoad, SameVisit DEF T!ToSet, TP!ToSet, T!Last, TP!Last, T!Cardinality, TP!Cardinality, T!Next, TP!Next

LEMMA SameTypes == T!TypeOK <=> TP!TypeOK
BY DEF T!ToSet, TP!ToSet, T!Last, TP!Last, T!Cardinality, TP!Cardinality, T!TypeOK, TP!TypeOK, T!Directions, TP!Directions, T!Kinds, TP!Kinds

LEMMA SameExpected == \A q : T!ExpectedPaths(q) = TP!ExpectedPaths(q)
<1>1. \A net, direction : T!PlantHops(net, direction) = TP!PlantHops(net, direction)
  BY DEF T!ToSet, TP!ToSet, T!Last, TP!Last, T!Cardinality, TP!Cardinality, T!PlantHops, TP!PlantHops, T!PlantHop, TP!PlantHop, T!BothWays, TP!BothWays
<1>2. \A q, w : T!Onward(q, w) = TP!Onward(q, w)
  BY <1>1 DEF T!ToSet, TP!ToSet, T!Last, TP!Last, T!Cardinality, TP!Cardinality, T!Onward, TP!Onward, T!End, TP!End
<1>3. \A q, w : T!Met(q, w) = TP!Met(q, w)
  BY DEF T!ToSet, TP!ToSet, T!Last, TP!Last, T!Cardinality, TP!Cardinality, T!Met, TP!Met
<1>4. \A q, n : T!SimpleWalks(q, n) = TP!SimpleWalks(q, n)
  BY DEF T!SimpleWalks, TP!SimpleWalks, T!Onward, TP!Onward, T!Met, TP!Met, T!End, TP!End,
     T!PlantHops, TP!PlantHops, T!PlantHop, TP!PlantHop, T!BothWays, TP!BothWays,
     T!ToSet, TP!ToSet, T!Last, TP!Last
<1> QED BY <1>2, <1>3, <1>4 DEF T!ToSet, TP!ToSet, T!Last, TP!Last, T!Cardinality, TP!Cardinality, T!ExpectedPaths, TP!ExpectedPaths

LEMMA SamePaths == T!PathsAreExact <=> TP!PathsAreExact
BY SameExpected DEF T!ToSet, TP!ToSet, T!Last, TP!Last, T!Cardinality, TP!Cardinality, T!PathsAreExact, TP!PathsAreExact

LEMMA SameLimits == T!LimitCutsTheFarthest <=> TP!LimitCutsTheFarthest
BY DEF T!ToSet, TP!ToSet, T!Last, TP!Last, T!Cardinality, TP!Cardinality, T!LimitCutsTheFarthest, TP!LimitCutsTheFarthest

LEMMA SameComplete == T!CompleteLeavesNoLooseEnd <=> TP!CompleteLeavesNoLooseEnd
BY DEF T!ToSet, TP!ToSet, T!Last, TP!Last, T!Cardinality, TP!Cardinality, T!CompleteLeavesNoLooseEnd, TP!CompleteLeavesNoLooseEnd, T!Status, TP!Status,
   T!Connected, TP!Connected, T!Reach, TP!Reach, T!Neighbors, TP!Neighbors, T!Other, TP!Other,
   T!ElementsAt, TP!ElementsAt, T!IsEndpointValid, TP!IsEndpointValid

LEMMA TraceStep == TP!IInv /\ T!Next => TP!IInv'
BY TracesFormed, TraceNext, TP!NextIInv

LEMMA TraceKeeps == ConsoleSpec => [](route = "trace" => TP!IInv)
<1>1. ConsoleInit => (route = "trace" => TP!IInv)
  BY TraceInit, TP!InitIInv DEF ConsoleInit
<1>2. (route = "trace" => TP!IInv) /\ [ConsoleNext /\ UNCHANGED route]_<<route, pages>>
        => (route = "trace" => TP!IInv)'
  <2> SUFFICES ASSUME route = "trace" => TP!IInv, [ConsoleNext /\ UNCHANGED route]_<<route, pages>>,
                      route' = "trace"
               PROVE  TP!IInv'
    OBVIOUS
  <2>1. route = "trace" /\ TP!IInv
    BY DEF pages
  <2>2. T!Next \/ UNCHANGED trace
    BY <2>1 DEF ConsoleNext, pages
  <2>3. [TP!Next]_(TP!vars)
    BY <2>2, TraceNext DEF trace, TP!vars
  <2> QED BY <2>1, <2>3, TracesFormed, TP!NextIInv
<1> QED BY <1>1, <1>2, PTL DEF ConsoleSpec

\* A response that no limit of paths cut holds every maximal walk of the plant
\* once, and nothing else (run_trace on the part load_trace_graph loads).
THEOREM TracesAreExact == ConsoleSpec => []PathsAreExact
<1>1. (route = "trace" => TP!IInv) => PathsAreExact
  BY TracesFormed, TP!PathsFollow, SamePaths DEF PathsAreExact
<1> QED BY <1>1, TraceKeeps, PTL

\* Whatever limit cuts a trace, nothing recorded is further away than what is
\* still to be visited: the deque makes the walk breadth first.
THEOREM LimitsCutTheFarthest == ConsoleSpec => []LimitCutsTheFarthest
<1>1. (route = "trace" => TP!IInv) => LimitCutsTheFarthest
  BY TP!LevelsFollow, SameLimits DEF LimitCutsTheFarthest
<1> QED BY <1>1, TraceKeeps, PTL

\* The status complete is never given to a plant with a loose end in reach.
THEOREM CompleteIsComplete == ConsoleSpec => []CompleteLeavesNoLooseEnd
<1>1. (route = "trace" => TP!IInv) => CompleteLeavesNoLooseEnd
  BY TracesFormed, TP!CompleteFollows, SameComplete DEF CompleteLeavesNoLooseEnd
<1> QED BY <1>1, TraceKeeps, PTL

(***************************************************************************)
(* The types of the pages: first those of the map and of the wizards.      *)
(***************************************************************************)
LEMMA MapTypesStart == B!Init => B!TypeOK
<1> SUFFICES ASSUME B!Init PROVE B!TypeOK
  OBVIOUS
<1>1. mapComing \in BOOLEAN /\ mapWorking \in BOOLEAN /\ mapSkipped \in BOOLEAN
  BY DEF B!Init
<1> QED BY <1>1 DEF B!Init, B!TypeOK

LEMMA MapTypesStep == B!TypeOK /\ B!Next => B!TypeOK'
<1> SUFFICES ASSUME B!TypeOK, B!Next PROVE B!TypeOK'
  OBVIOUS
<1> USE DEF B!TypeOK
<1>1. CASE B!Render
  <2>1. mapData + 1 \in Nat \ {0} /\ 1 .. mapData \subseteq 1 .. (mapData + 1)
        /\ mapData + 1 \in 1 .. (mapData + 1)
    OBVIOUS
  <2> QED BY <1>1, <2>1 DEF B!Render, B!isStyleLoaded
<1>2. CASE B!setupSourcesAndLayers
  <2>0. mapData \in 1 .. mapData
    OBVIOUS
  <2>1. mapWorking' \in BOOLEAN /\ mapSkipped' \in BOOLEAN /\ mapDrawn' \in 1 .. mapData
    BY <1>2, <2>0 DEF B!setupSourcesAndLayers, B!currentGeoJson, B!Newest
  <2> QED BY <1>2, <2>1 DEF B!setupSourcesAndLayers
<1>3. CASE B!StyleArrives \/ B!Remount
  <2>1. mapComing' \in BOOLEAN /\ mapWorking' \in BOOLEAN /\ mapSkipped' \in BOOLEAN
    BY <1>3 DEF B!StyleArrives, B!Remount, B!Created
  <2> QED BY <1>3, <2>1 DEF B!StyleArrives, B!Remount, B!Created
<1>4. CASE B!SwitchTheme \/ B!Move \/ B!Settle
  BY <1>4 DEF B!SwitchTheme, B!Move, B!Settle
<1> QED BY <1>1, <1>2, <1>3, <1>4 DEF B!Next

Steps == {"upload", "preview", "strategy", "job"}
JobTypes == jobStep \in Steps /\ jobTimer \in BOOLEAN

LEMMA JobTypesStart == W!Init => JobTypes
BY DEF W!Init, JobTypes, Steps

LEMMA JobTypesStep == JobTypes /\ W!Next => JobTypes'
BY DEF W!Next, W!Tick, W!ReadJob, W!Cancel, W!ServeCancel, W!CancelAnswered,
   W!CancelFails, W!PollArrives, W!PollFails, W!GeneratePreview, W!Commit, W!RequestExport,
   W!Reset, W!Serve, W!Succeeds, W!RequestFails, W!Go, W!ChooseStrategy, W!Proceed, W!Track,
   W!form, W!hook, JobTypes, Steps

LEMMA JobTypesFollow == JobInv /\ JobTypes => W!TypeOK
BY NoJobIsNone DEF JobInv, Heard, JobTypes, Steps, W!TypeOK

\* What waits for the timer, and what can be asked again, is not empty.
ViewTypes ==
  /\ viewSubject \in Questions /\ viewLast \in Nat
  /\ Q!TypeOK
  /\ viewTimer => Q!V.delayed # FALSE /\ viewChosen \in Choice
  /\ Q!V.again # "no" => viewAsked \in Choice

LEMMA ViewTypesStart == Q!Init => ViewTypes
<1> SUFFICES ASSUME Q!Init PROVE ViewTypes
  OBVIOUS
<1> DEFINE asking == viewOpen /\ Q!V.first /\ viewChosen # None
<1>1. /\ viewSubject \in Questions /\ viewOpen = ~Q!V.dialog
      /\ viewChosen \in IF Q!V.dialog THEN {None}
                        ELSE Choice \cup IF Q!Emptiable THEN {None} ELSE {}
      /\ viewBusy = asking /\ viewLast = IF asking THEN 1 ELSE 0
      /\ viewAsked = IF asking THEN viewChosen ELSE None
      /\ viewUnder = IF asking THEN {[n |-> 1, about |-> viewChosen, off |-> FALSE]} ELSE {}
      /\ viewTimer = FALSE /\ viewFailed = FALSE /\ viewShown = None /\ viewOverlapped = FALSE
  BY DEF Q!Init
<1>2. Shaped(viewSubject[1], viewSubject[2])
  BY <1>1, SubjectShaped
<1>3. viewChosen \in Choice \cup {None} /\ viewAsked \in Choice \cup {None}
  BY <1>1
<1>4. Q!Input \in Q!InputsOf[viewSubject[1]]
  BY <1>1, QuestionsScreened DEF Q!Screened, Q!Input
<1>5. viewUnder \subseteq [n : 1 .. viewLast, about : Choice, off : BOOLEAN]
  <2>1. CASE asking
    <3>1. viewChosen \in Choice /\ viewLast = 1 /\ 1 \in 1 .. 1
      BY <1>1, <1>3, <2>1
    <3>2. viewUnder = {[n |-> 1, about |-> viewChosen, off |-> FALSE]}
      BY <1>1, <2>1
    <3>3. [n |-> 1, about |-> viewChosen, off |-> FALSE] \in [n : 1 .. 1, about : Choice, off : BOOLEAN]
      BY <3>1
    <3> QED BY <3>1, <3>2, <3>3
  <2>2. CASE ~asking
    BY <1>1, <2>2
  <2> QED BY <2>1, <2>2
<1>6. Q!V.again # "no" => viewAsked \in Choice
  BY <1>1, <1>2, NoChoiceIsNone DEF Shaped, NeverEmpty, Q!V, Q!Emptiable, Emptied
<1>7. {viewOpen, viewTimer, viewBusy, viewFailed, viewOverlapped} \subseteq BOOLEAN
  BY <1>1
<1> QED BY <1>1, <1>3, <1>4, <1>5, <1>6, <1>7 DEF ViewTypes, Q!TypeOK

\* Questions given up stay questions.
LEMMA DroppedTyped ==
  ASSUME ViewTypes
  PROVE  Q!Dropped \subseteq [n : 1 .. viewLast, about : Choice, off : BOOLEAN]
BY DEF ViewTypes, Q!TypeOK, Q!Dropped

Numbers == [n : 1 .. viewLast, about : Choice, off : BOOLEAN]
Answers == [n : 1 .. viewLast, about : Choice]

\* The numbers given to questions stay among those given.
LEMMA NumbersGrow ==
  ASSUME viewLast \in Nat
  PROVE  /\ viewLast + 1 \in 1 .. (viewLast + 1)
         /\ \A x \in Numbers : x \in [n : 1 .. (viewLast + 1), about : Choice, off : BOOLEAN]
         /\ \A x \in Answers : x \in [n : 1 .. (viewLast + 1), about : Choice]
<1>1. viewLast + 1 \in 1 .. (viewLast + 1) /\ \A x \in 1 .. viewLast : x \in 1 .. (viewLast + 1)
  OBVIOUS
<1> QED BY <1>1 DEF Numbers, Answers

\* A step that leaves the view and its input, but for what can be chosen in it.
LEMMA AskTyped ==
  ASSUME ViewTypes, NEW v \in Choice, Q!Ask(v), viewSubject' = viewSubject,
         viewOpen' \in BOOLEAN, viewChosen' \in Choice \cup {None},
         viewShown' \in {None, viewShown}
  PROVE  ViewTypes'
<1> USE DEF ViewTypes, Q!TypeOK
<1>1. /\ viewLast' = viewLast + 1 /\ viewAsked' = v
      /\ viewUnder' = Q!Dropped \cup {[n |-> viewLast + 1, about |-> v, off |-> FALSE]}
      /\ viewOverlapped' = (viewOverlapped \/ viewUnder # {})
      /\ viewBusy' = TRUE /\ viewTimer' = FALSE /\ viewFailed' = FALSE
      /\ Q!Input' = Q!Input
  BY DEF Q!Ask, Q!Input
<1>2. viewShown' # None => viewShown' \in Answers'
  BY <1>1, NumbersGrow DEF Answers
<1>3. viewUnder' \subseteq Numbers'
  <2>1. \A q \in Q!Dropped : q \in Numbers'
    BY <1>1, NumbersGrow, DroppedTyped DEF Numbers
  <2>2. [n |-> viewLast + 1, about |-> v, off |-> FALSE] \in Numbers'
    BY <1>1, NumbersGrow DEF Numbers
  <2> QED BY <1>1, <2>1, <2>2
<1>4. /\ viewOpen' \in BOOLEAN /\ viewBusy' \in BOOLEAN /\ viewTimer' \in BOOLEAN
      /\ viewFailed' \in BOOLEAN /\ viewOverlapped' \in BOOLEAN
  BY <1>1
<1>5. /\ viewLast' \in Nat /\ viewAsked' \in Choice /\ viewChosen' \in Choice \cup {None}
      /\ ~viewTimer' /\ viewSubject' \in Questions /\ Q!Input' \in Q!InputsOf[viewSubject'[1]]
  BY <1>1
<1>6. Q!TypeOK'
  BY <1>2, <1>3, <1>4, <1>5 DEF Numbers, Answers
<1> HIDE DEF Q!TypeOK
<1> QED BY <1>5, <1>6

LEMMA EffectTyped ==
  ASSUME ViewTypes, NEW v \in Choice \cup {None}, Q!Effect(v), viewSubject' = viewSubject,
         viewOpen' \in BOOLEAN, viewChosen' \in Choice \cup {None},
         viewShown' \in {None, viewShown},
         Q!V.delayed # FALSE /\ v # None => viewChosen' \in Choice
  PROVE  ViewTypes'
<1> USE DEF ViewTypes, Q!TypeOK
<1>1. Q!V' = Q!V /\ Q!Input' = Q!Input
  BY DEF Q!V, Q!Input
<1>2. CASE v = None
  <2>1. /\ viewLast' = viewLast + 1 /\ viewUnder' = Q!Dropped
        /\ viewOverlapped' = (viewOverlapped \/ viewUnder # {})
        /\ viewBusy' = FALSE /\ viewTimer' = FALSE /\ viewFailed' = FALSE
        /\ viewAsked' = viewAsked
    BY <1>2 DEF Q!Effect, Q!GiveUp
  <2>2. viewUnder' \subseteq Numbers' /\ (viewShown' # None => viewShown' \in Answers')
    BY <2>1, NumbersGrow, DroppedTyped DEF Numbers, Answers
  <2>3. /\ viewOpen' \in BOOLEAN /\ viewBusy' \in BOOLEAN /\ viewTimer' \in BOOLEAN
        /\ viewFailed' \in BOOLEAN /\ viewOverlapped' \in BOOLEAN
    BY <2>1
  <2>4. /\ viewLast' \in Nat /\ viewAsked' \in Choice \cup {None} /\ viewChosen' \in Choice \cup {None}
        /\ ~viewTimer' /\ viewSubject' \in Questions /\ Q!Input' \in Q!InputsOf[viewSubject'[1]]
        /\ (Q!V.again # "no")' => viewAsked' \in Choice
    BY <1>1, <2>1
  <2>5. Q!TypeOK'
    BY <2>2, <2>3, <2>4 DEF Numbers, Answers
  <2> HIDE DEF Q!TypeOK
  <2> QED BY <2>4, <2>5
<1>3. CASE v # None /\ Q!V.delayed # FALSE
  <2>0. Q!Wait \/ Q!Ask(v)
    BY <1>3 DEF Q!Effect
  <2>1. CASE Q!Wait
    BY <1>1, <1>3, <2>1, DroppedTyped DEF Q!Wait
  <2> QED BY <1>3, <2>0, <2>1, AskTyped
<1>4. CASE v # None /\ Q!V.delayed = FALSE
  BY <1>4, AskTyped DEF Q!Effect
<1> QED BY <1>2, <1>3, <1>4

LEMMA AnswerTyped ==
  ASSUME ViewTypes, NEW q \in viewUnder, Q!Answer(q) \/ Q!Fails(q)
  PROVE  ViewTypes'
<1> USE DEF ViewTypes, Q!TypeOK
<1>1. q \in Numbers
  BY DEF Numbers
<1>2. /\ UNCHANGED <<viewSubject, viewOpen, viewChosen, viewTimer, viewLast, viewAsked, viewOverlapped>>
      /\ viewUnder' = viewUnder \ {q}
      /\ viewBusy' = IF q.off /\ Q!V.takes = "observed" THEN viewBusy ELSE FALSE
      /\ viewFailed' = viewFailed \/ viewFailed' = (viewFailed \/ q.n = viewLast)
      /\ viewShown' \in {viewShown, None, [n |-> q.n, about |-> q.about]}
  BY DEF Q!Answer, Q!Fails, Q!Over, Q!Cleared
<1>3. viewShown' # None => viewShown' \in Answers
  BY <1>1, <1>2 DEF Numbers, Answers
<1>4. Q!V' = Q!V /\ Q!Input' = Q!Input
  BY <1>2 DEF Q!V, Q!Input
<1> QED BY <1>1, <1>2, <1>3, <1>4 DEF Answers

LEMMA ViewTypesStep == ViewTypes /\ Q!Next => ViewTypes'
<1> SUFFICES ASSUME ViewTypes, Q!Next PROVE ViewTypes'
  OBVIOUS
<1> USE DEF ViewTypes, Q!TypeOK
<1>0. Shaped(viewSubject[1], viewSubject[2])
  BY SubjectShaped
<1>a. /\ Q!V.again # "no" => Q!V.dialog = FALSE /\ Q!V.first = TRUE
      /\ Q!V.delayed # FALSE =>
           Q!V.button # "apply" /\ "ending" \notin Q!V.clears /\ (Q!Emptiable => Q!Input \in Q!V.asks)
  BY <1>0 DEF Shaped, NeverEmpty, Q!V, Q!Emptiable, Emptied, Q!Input
<1>b. \A by : Q!Cleared(by) \in {None, viewShown}
  BY DEF Q!Cleared
<1>1. ASSUME NEW v \in Choice \cup {None}, Q!Choose(v) PROVE ViewTypes'
  <2>1. CASE Q!Input \in Q!V.asks
    BY <1>1, <1>b, <2>1, EffectTyped DEF Q!Choose
  <2>2. CASE Q!Input \notin Q!V.asks
    <3>1. /\ UNCHANGED <<viewSubject, viewOpen, viewTimer, viewUnder, viewBusy, viewLast, viewAsked,
                         viewFailed, viewShown, viewOverlapped>>
          /\ viewChosen' = v /\ (v = None => Q!Emptiable)
      BY <1>1, <2>2 DEF Q!Choose
    <3>2. Q!V' = Q!V /\ Q!Input' = Q!Input
      BY <3>1 DEF Q!V, Q!Input
    <3> QED BY <1>a, <2>2, <3>1, <3>2
  <2> QED BY <2>1, <2>2
<1>2. CASE Q!ChooseOther
  <2>1. PICK v : v = IF Q!V.button = "apply" THEN viewAsked ELSE viewChosen
    OBVIOUS
  <2>2. /\ Q!Effect(v) /\ v \in Choice \cup {None} /\ viewShown' \in {None, viewShown}
        /\ UNCHANGED <<viewSubject, viewOpen, viewChosen>>
    BY <1>2, <1>b, <2>1 DEF Q!ChooseOther
  <2>3. Q!V.delayed # FALSE /\ v # None => viewChosen' \in Choice
    BY <1>a, <2>1, <2>2
  <2> QED BY <2>2, <2>3, EffectTyped
<1>3. CASE Q!Press
  BY <1>3, <1>b, AskTyped DEF Q!Press
<1>4. CASE Q!Refresh
  BY <1>4, <1>b, AskTyped DEF Q!Refresh
<1>5. ASSUME NEW v \in Choice, Q!FollowLink(v) PROVE ViewTypes'
  BY <1>5, <1>b, AskTyped DEF Q!FollowLink
<1>6. CASE Q!Fire
  BY <1>6, <1>b, AskTyped DEF Q!Fire
<1>7. CASE Q!End
  <2>1. /\ UNCHANGED <<viewSubject, viewOpen, viewTimer, viewUnder, viewBusy, viewAsked>>
        /\ viewShown' = None /\ viewLast' = viewLast + 1 /\ viewFailed' = FALSE
        /\ viewOverlapped' = (viewOverlapped \/ viewUnder # {})
        /\ viewChosen' \in {None, viewChosen} /\ "ending" \in Q!V.clears
    BY <1>7 DEF Q!End
  <2>2. Q!V' = Q!V /\ Q!Input' = Q!Input
    BY <2>1 DEF Q!V, Q!Input
  <2>3. viewUnder' \subseteq Numbers'
    BY <2>1, NumbersGrow DEF Numbers
  <2>4. viewFailed' \in BOOLEAN /\ viewOverlapped' \in BOOLEAN
    BY <2>1
  <2>5. viewTimer' => Q!V.delayed # FALSE /\ viewChosen' \in Choice
    BY <1>a, <2>1
  <2>6. /\ viewLast' \in Nat /\ viewChosen' \in Choice \cup {None} /\ Q!Input' \in Q!InputsOf[viewSubject'[1]]
        /\ viewSubject' \in Questions
        /\ (Q!V.again # "no")' => viewAsked' \in Choice
    BY <2>1, <2>2
  <2>7. Q!TypeOK'
    BY <2>1, <2>3, <2>4, <2>6 DEF Numbers
  <2>8. (viewTimer => Q!V.delayed # FALSE /\ viewChosen \in Choice)'
    BY <2>2, <2>5
  <2> HIDE DEF Q!TypeOK
  <2> QED BY <2>6, <2>7, <2>8
<1>8. ASSUME NEW v \in Choice, Q!Open(v) PROVE ViewTypes'
  <2>1. /\ viewOpen' = TRUE /\ viewSubject' = viewSubject /\ viewShown' \in {None, viewShown}
        /\ viewChosen' \in Choice \cup {None} /\ Q!Effect(viewChosen')
    BY <1>8 DEF Q!Open
  <2> QED BY <2>1, EffectTyped
<1>9. CASE Q!Close
  <2>1. /\ UNCHANGED <<viewSubject, viewChosen, viewBusy, viewLast, viewAsked, viewFailed, viewOverlapped>>
        /\ viewOpen' = FALSE /\ viewShown' \in {None, viewShown}
        /\ viewTimer' \in {FALSE, viewTimer} /\ viewUnder' \in {viewUnder, Q!Dropped}
    BY <1>9, <1>b DEF Q!Close
  <2>2. Q!V' = Q!V /\ Q!Input' = Q!Input
    BY <2>1 DEF Q!V, Q!Input
  <2>3. viewOpen' \in BOOLEAN /\ viewTimer' \in BOOLEAN /\ (viewTimer' => viewTimer)
    <3>1. CASE viewTimer' = FALSE
      BY <2>1, <3>1
    <3>2. CASE viewTimer' = viewTimer
      BY <2>1, <3>2
    <3> QED BY <2>1, <3>1, <3>2
  <2> QED BY <2>1, <2>2, <2>3, DroppedTyped
<1> QED BY <1>1, <1>2, <1>3, <1>4, <1>5, <1>6, <1>7, <1>8, <1>9, AnswerTyped DEF Q!Next

\* A load under way has read nothing or a record, one at rest holds nothing.
CacheTyped(q) ==
  /\ DOMAIN q = CacheFields
  /\ q.data \in R!Snapshot \cup {None}
  /\ q.load \in {"none", "asked", "read", "failed"}
  /\ q.load = "read" => q.read \in R!Snapshot
  /\ q.load # "read" => q.read = None

RecordTypes ==
  /\ recordRow \in R!Snapshot
  /\ \A p \in R!Places : CacheTyped(recordCache[p])
  /\ recordDialog # None => recordDialog.base \in R!Snapshot /\ recordDialog.value \in R!Value
  /\ recordRequest # None =>
       /\ recordRequest.value \in R!Value
       /\ recordRequest.stage = "done" => recordRequest.result \in R!Snapshot

LEMMA RecordTypesFollow == RecordInv /\ RecordTypes => R!TypeOK
<1> SUFFICES ASSUME RecordInv, RecordTypes PROVE R!TypeOK
  OBVIOUS
<1>1. \A p \in R!Places : recordCache[p].load = "read" <=> recordCache[p].read # None
  BY NoRecordIsNone DEF RecordTypes, CacheTyped
<1>2. DOMAIN recordCache = R!Places /\ DOMAIN recordSaved = R!Places
  BY DEF RecordInv, RecordShape
<1> QED BY <1>1, <1>2 DEF RecordInv, RecordShape, RequestKnown, RecordTypes, CacheTyped, R!TypeOK

LEMMA IdleTyped == CacheTyped(R!Idle)
BY DEF CacheTyped, R!Idle, CacheFields

LEMMA AskedTyped ==
  ASSUME NEW q, CacheTyped(q)
  PROVE  CacheTyped(R!Asked(q)) /\ \A aged : CacheTyped(R!Mounted(q, aged))
BY DEF CacheTyped, R!Asked, R!Mounted, CacheFields

LEMMA RecordTypesStart == R!Init => RecordTypes
<1> SUFFICES ASSUME R!Init PROVE RecordTypes
  OBVIOUS
<1>1. recordRow \in R!Snapshot
  BY DEF R!Init, R!Snapshot, R!Value
<1>2. \A p \in R!Places : recordCache[p] \in {R!Idle, R!Asked(R!Idle)}
  BY DEF R!Init, R!InitialCache
<1> QED BY <1>1, <1>2, IdleTyped, AskedTyped DEF R!Init, RecordTypes

LEMMA GoneTyped == R!Gone \in R!Snapshot
BY DEF R!Gone, R!Snapshot, R!Value

\* One query changes.
LEMMA CellTyped ==
  ASSUME RecordShape, RecordTypes, NEW p, NEW x, CacheTyped(x),
         recordCache' = [recordCache EXCEPT ![p] = x]
  PROVE  \A q \in R!Places : CacheTyped(recordCache'[q])
BY CellShape DEF RecordTypes, CacheTyped

LEMMA FillTyped ==
  ASSUME NEW kind, NEW s \in R!Snapshot
  PROVE  R!Fill(kind, s).base \in R!Snapshot /\ R!Fill(kind, s).value \in R!Value
BY DEF R!Fill, R!Snapshot, R!Value

\* A request left behind, or not.
LEMMA RequestTyped ==
  ASSUME RecordShape, RecordTypes, SameRequest, recordRequest' # None
  PROVE  /\ recordRequest'.value \in R!Value
         /\ recordRequest'.stage = "done" => recordRequest'.result \in R!Snapshot
BY DEF RecordShape, RequestFields, RecordTypes, SameRequest

\* The steps of the queries.
LEMMA QueriesTyped ==
  ASSUME RecordShape, RecordTypes, NEW p \in R!Places,
         \/ R!Read(p) \/ R!Arrive(p) \/ R!LoadFails(p)
         \/ \E aged \in BOOLEAN : R!Visit(p, aged)
  PROVE  RecordTypes'
<1> USE DEF RecordTypes
<1>0. recordPlace \in R!Places /\ CacheTyped(recordCache[p])
  BY DEF RecordShape
<1>1. recordSubject' = recordSubject /\ recordRow' = recordRow /\ R!Places' = R!Places
  BY DEF R!Read, R!Arrive, R!LoadFails, R!Visit, R!Places, R!F
<1>2. CASE R!Read(p)
  <2>0. PICK s \in {recordRow, R!Gone} :
          recordCache' = [recordCache EXCEPT ![p].load = "read", ![p].read = s]
    BY <1>2 DEF R!Read, R!Answers
  <2>1. PICK x : x = [recordCache[p] EXCEPT !.load = "read", !.read = s]
    OBVIOUS
  <2>4. s \in R!Snapshot
    BY GoneTyped
  <2>2. CacheTyped(x)
    BY <1>0, <2>1, <2>4 DEF CacheTyped, CacheFields
  <2>3. recordCache' = [recordCache EXCEPT ![p] = x]
    BY <2>0, <2>1 DEF RecordShape
  <2> QED BY <1>1, <1>2, <2>2, <2>3, CellTyped DEF R!Read
<1>3. CASE R!Arrive(p)
  <2>1. PICK new : new = recordCache[p].read
    OBVIOUS
  <2>2. new \in R!Snapshot
    BY <1>0, <1>3, <2>1 DEF R!Arrive, CacheTyped
  <2>3. PICK x : x = [R!Idle EXCEPT !.data = new]
    OBVIOUS
  <2>4. CacheTyped(x)
    BY <2>2, <2>3 DEF CacheTyped, CacheFields, R!Idle
  <2>5. recordCache' = [recordCache EXCEPT ![p] = x] /\ UNCHANGED recordRequest
    BY <1>3, <2>1, <2>3 DEF R!Arrive
  <2>6. recordDialog' \in {None, recordDialog} \/ \E kind : recordDialog' = R!Fill(kind, new)
    BY <1>3, <2>1 DEF R!Arrive, R!Refill, R!Refilled
  <2>7. recordDialog' # None => recordDialog'.base \in R!Snapshot /\ recordDialog'.value \in R!Value
    BY <2>2, <2>6, FillTyped
  <2> QED BY <1>1, <2>4, <2>5, <2>7, CellTyped
<1>4. CASE R!LoadFails(p)
  <2>1. PICK x : x = [recordCache[p] EXCEPT !.load = "failed", !.read = None]
    OBVIOUS
  <2>2. CacheTyped(x)
    BY <1>0, <2>1 DEF CacheTyped, CacheFields
  <2>3. recordCache' = [recordCache EXCEPT ![p] = x] /\ UNCHANGED recordRequest
    BY <1>4, <2>1 DEF R!LoadFails, RecordShape
  <2>4. \/ recordDialog' = recordDialog
        \/ recordDialog # None /\ recordDialog' = R!Fill(recordDialog.kind, recordDialog.base)
    BY <1>4 DEF R!LoadFails
  <2>5. recordDialog' # None => recordDialog'.base \in R!Snapshot /\ recordDialog'.value \in R!Value
    BY <2>4, FillTyped
  <2> QED BY <1>1, <2>2, <2>3, <2>5, CellTyped
<1>5. ASSUME NEW aged \in BOOLEAN, R!Visit(p, aged) PROVE RecordTypes'
  <2>1. PICK x : x = R!Mounted(recordCache[p], aged)
    OBVIOUS
  <2>2. CacheTyped(x)
    BY <1>0, <2>1, AskedTyped
  <2>3. recordCache' = [recordCache EXCEPT ![p] = x] /\ recordDialog' = None /\ SameRequest
    BY <1>5, <2>1 DEF R!Visit, R!Leave, SameRequest
  <2> QED BY <1>1, <2>2, <2>3, CellTyped, RequestTyped
<1> QED BY <1>2, <1>3, <1>4, <1>5

\* The forms, the request and the record.
LEMMA FormsTyped ==
  ASSUME RecordShape, RecordTypes, Formed \/ R!Submit \/ R!Fails \/ R!Retry
  PROVE  RecordTypes'
<1> USE DEF RecordTypes
<1>0. recordPlace \in R!Places /\ CacheTyped(recordCache[recordPlace])
  BY DEF RecordShape
<1>1. recordSubject' = recordSubject /\ recordRow' = recordRow /\ R!Places' = R!Places
  BY DEF Formed, R!Close, R!Open, R!Type, R!Submit, R!Fails, R!Retry, R!Places, R!F
<1>2. CASE R!Retry
  <2>1. PICK x : x = R!Asked(recordCache[recordPlace])
    OBVIOUS
  <2>2. recordCache' = [recordCache EXCEPT ![recordPlace] = x] /\ UNCHANGED <<recordDialog, recordRequest>>
    BY <1>2, <2>1 DEF R!Retry
  <2> QED BY <1>0, <1>1, <2>1, <2>2, AskedTyped, CellTyped
<1>3. CASE Formed
  <2>1. UNCHANGED <<recordCache, recordRequest>>
    BY <1>3 DEF Formed, R!Close, R!Open, R!Type
  <2>2. \/ recordDialog' = None
        \/ \E kind : recordDialog' = R!Fill(kind, recordCache[recordPlace].data)
                     /\ recordCache[recordPlace].data # None
        \/ \E v \in {"mine", ""} : recordDialog # None
                                 /\ recordDialog' = [recordDialog EXCEPT !.value = v, !.typed = TRUE]
    BY <1>3 DEF Formed, R!Close, R!Open, R!Type, R!Exists
  <2>3. CASE \E kind : recordDialog' = R!Fill(kind, recordCache[recordPlace].data)
                       /\ recordCache[recordPlace].data # None
    BY <1>0, <1>1, <2>1, <2>3, FillTyped DEF CacheTyped
  <2>4. ASSUME NEW v \in {"mine", ""}, recordDialog # None,
               recordDialog' = [recordDialog EXCEPT !.value = v, !.typed = TRUE]
        PROVE  RecordTypes'
    <3>1. recordDialog'.base = recordDialog.base /\ recordDialog'.value = v
      BY <2>4 DEF RecordShape
    <3>2. v \in R!Value
      BY DEF R!Value
    <3> QED BY <1>1, <2>1, <2>4, <3>1, <3>2
  <2> QED BY <1>1, <2>1, <2>2, <2>3, <2>4
<1>4. CASE R!Submit
  <2>1. recordRequest'.value = recordDialog.value /\ recordRequest'.stage = "sent"
        /\ recordDialog # None /\ UNCHANGED <<recordCache, recordDialog>>
    BY <1>4 DEF R!Submit
  <2> QED BY <1>1, <2>1
<1>5. CASE R!Fails
  BY <1>1, <1>5 DEF R!Fails
<1> QED BY <1>2, <1>3, <1>4, <1>5

LEMMA ServerTyped ==
  ASSUME RecordShape, RecordTypes,
         R!Serve \/ R!OthersDelete \/ \E v \in {recordRow.value, "theirs"} : R!OthersEdit(v)
  PROVE  RecordTypes'
<1> USE DEF RecordTypes
<1>1. UNCHANGED <<recordSubject, recordCache, recordDialog>> /\ R!Places' = R!Places
  BY DEF R!Serve, R!OthersDelete, R!OthersEdit, R!Places, R!F
<1>2. R!Gone \in R!Snapshot /\ recordRow.version + 1 \in Nat /\ recordRow.value \in R!Value
  <2>1. recordRow.version \in Nat /\ recordRow.value \in R!Value
    BY DEF R!Snapshot
  <2> QED BY <2>1, GoneTyped
<1>3. \A v \in R!Value : [version |-> recordRow.version + 1, value |-> v] \in R!Snapshot
  BY <1>2 DEF R!Snapshot
<1>4. CASE R!Serve
  <2>3. "retired" \in R!Value
    BY DEF R!Value
  <2>1. recordRow' \in R!Snapshot
    BY <1>2, <1>3, <1>4, <2>3 DEF R!Serve, R!Patched, R!Retired
  <2>2. recordRequest'.value = recordRequest.value /\ recordRequest'.result = recordRow'
    BY <1>4 DEF R!Serve, RecordShape, RequestFields
  <2> QED BY <1>1, <1>4, <2>1, <2>2 DEF R!Serve
<1>5. CASE R!OthersDelete
  BY <1>1, <1>2, <1>5 DEF R!OthersDelete
<1>6. ASSUME NEW v \in {recordRow.value, "theirs"}, R!OthersEdit(v) PROVE RecordTypes'
  <2>1. v \in R!Value
    BY <1>2 DEF R!Value
  <2> QED BY <1>1, <1>3, <1>6, <2>1 DEF R!OthersEdit
<1> QED BY <1>4, <1>5, <1>6

\* What the answer to a save or a deletion does to the queries.
LEMMA RefreshTyped ==
  ASSUME RecordShape, RecordTypes, recordRequest # None, recordRequest.stage = "done",
         recordCache' = R!Refreshed(recordRequest.page)
  PROVE  \A q \in R!Places : CacheTyped(recordCache'[q])
<1> SUFFICES ASSUME NEW q \in R!Places PROVE CacheTyped(recordCache'[q])
  OBVIOUS
<1>1. PICK old : old = [recordCache[q] EXCEPT !.old = TRUE]
  OBVIOUS
<1>2. PICK new : new = [recordCache[q] EXCEPT !.data = recordRequest.result, !.old = FALSE]
  OBVIOUS
<1>3. CacheTyped(recordCache[q]) /\ CacheTyped(old) /\ CacheTyped(new)
  BY <1>1, <1>2 DEF RecordTypes, CacheTyped, CacheFields
<1>4. recordCache'[q] \in {recordCache[q], old, new, R!Asked(recordCache[q])}
  BY <1>1, <1>2 DEF R!Refreshed, R!Refresh
<1> QED BY <1>3, <1>4, AskedTyped

LEMMA AnswersTyped ==
  ASSUME RecordShape, RecordTypes, R!Saved \/ \E aged \in BOOLEAN : R!Deleted(aged)
  PROVE  RecordTypes'
<1> USE DEF RecordTypes
<1>1. /\ recordRequest # None /\ recordRequest.stage = "done"
      /\ UNCHANGED <<recordSubject, recordRow>> /\ R!Places' = R!Places
      /\ recordRequest' = None /\ recordDialog' \in {None, recordDialog}
  BY DEF R!Saved, R!Deleted, R!Places, R!F
<1>2. CASE recordCache' \in {recordCache, R!Refreshed(recordRequest.page)}
  BY <1>1, <1>2, RefreshTyped
<1>3. ASSUME NEW aged \in BOOLEAN, NEW to,
             recordCache' = [recordCache EXCEPT ![to] = R!Mounted(@, aged)]
      PROVE  RecordTypes'
  <2>1. PICK x : x = R!Mounted(recordCache[to], aged)
    OBVIOUS
  <2>2. CASE to \in R!Places
    <3>1. CacheTyped(x)
      BY <2>1, <2>2, AskedTyped
    <3> QED BY <1>1, <1>3, <2>1, <3>1, CellTyped
  <2>3. CASE to \notin R!Places
    <3>1. recordCache' = recordCache
      BY <1>3, <2>3 DEF RecordShape
    <3> QED BY <1>1, <3>1
  <2> QED BY <2>2, <2>3
<1> QED BY <1>2, <1>3 DEF R!Saved, R!Deleted

LEMMA RecordTypesStep == RecordInv /\ RecordTypes /\ R!Next => RecordTypes'
BY QueriesTyped, FormsTyped, ServerTyped, AnswersTyped DEF RecordInv, Formed, R!Next

\* What is sent at the last step of the wizard has a port and an ONU.
Stages == {"sent", "checked", "done"}
CtoTypes ==
  /\ \A i \in DOMAIN links : links[i].port \in Port /\ links[i].onu \in Onu
  /\ wizard.port \in Port \cup {None} /\ wizard.onu \in Onu \cup {None} /\ wizard.step \in 1 .. 4
  /\ wizard.step >= 3 => wizard.port \in Port
  /\ wizard.step = 4 => wizard.onu \in Onu
  /\ load.stage \in {"none", "asked", "read"}
  /\ selected # None => selected.port \in Port
  /\ sent # None => sent \in [port : Port, onu : Onu, stage : Stages]
  /\ ends # None => ends.stage \in {"sent", "done"}

LEMMA CtoTypesFollow == CtoInv /\ CtoTypes => TypeOK
<1> SUFFICES ASSUME CtoInv, CtoTypes PROVE TypeOK
  OBVIOUS
<1>1. ending # None => ending.port \in Port /\ ending.id \in DOMAIN links
  BY DEF CtoInv, Copies, Known, CtoTypes
<1> QED BY <1>1 DEF CtoTypes, Stages, TypeOK

\* The target is one of the ports, unless there was none before and none is free.
LEMMA TargetTyped ==
  ASSUME NEW row, row # None => row.port \in Port, NEW rows, NEW old \in Port \cup {None}
  PROVE  /\ Target(row, rows, old) \in Port \cup {None}
         /\ old \in Port => Target(row, rows, old) \in Port
<1>1. ASSUME Free(rows) # {}
      PROVE  (CHOOSE p \in Free(rows) : \A q \in Free(rows) : p <= q) \in Port
  <2>1. PICK p \in Free(rows) : \A q \in Free(rows) : p <= q
    BY <1>1, TP!LeastMember, PortsNumbered DEF Free
  <2> QED BY <2>1 DEF Free
<1> QED BY <1>1 DEF Target, ForcedPort

LEMMA CtoTypesStart == Init => CtoTypes
<1> SUFFICES ASSUME Init PROVE CtoTypes
  OBVIOUS
<1>1. \A i \in DOMAIN links : links[i].port \in Port /\ links[i].onu \in Onu
  BY DEF Init
<1>2. Target(None, page, None) \in Port \cup {None}
  BY TargetTyped
<1> QED BY <1>1, <1>2 DEF Init, CtoTypes, NoLoad

LEMMA CtoClosedTyped == CtoClosed => CtoTypes
BY DEF CtoClosed, CtoTypes, NoLoad

\* A wizard that moves to another port, or stays; one with a later step has what
\* the earlier ones have asked for.
WizardTyped ==
  /\ wizard.port \in Port \cup {None} /\ wizard.onu \in Onu \cup {None} /\ wizard.step \in 1 .. 4
  /\ wizard.step >= 3 => wizard.port \in Port
  /\ wizard.step = 4 => wizard.onu \in Onu

LEMMA Moves ==
  ASSUME WizardTyped, NEW row, row # None => row.port \in Port, NEW rows,
         wizard'.port = Target(row, rows, wizard.port), wizard'.onu = wizard.onu,
         wizard'.step \in {1, wizard.step}
  PROVE  WizardTyped'
BY TargetTyped DEF WizardTyped

\* The steps of the grid and of the answers.
LEMMA GridTyped ==
  ASSUME CtoInv, CtoTypes,
         \/ \E p \in Port : ShowPort(p)
         \/ CloseDetails \/ NewService \/ ActivateHere \/ AskToEnd \/ KeepActive \/ ConfirmEnd
         \/ Activated \/ Ended \/ Refetch \/ ReadOccupancy \/ Arrive \/ LoadFails
  PROVE  CtoTypes'
<1>0. links' = links /\ WizardTyped /\ Shape /\ (selected # None => selected.port \in Port)
  BY DEF CtoTypes, WizardTyped, CtoInv, Wizards, ShowPort, CloseDetails, NewService, ActivateHere,
     OpenWizard, AskToEnd, KeepActive, ConfirmEnd, Activated, Ended, Refetch, ReadOccupancy, Arrive,
     LoadFails
<1>1. load'.stage \in {"none", "asked", "read"}
  <2>1. load' \in {load, NoLoad, Asked, [stage |-> "read", read |-> Occupancy]}
    BY DEF ShowPort, CloseDetails, NewService, ActivateHere, OpenWizard, AskToEnd, KeepActive,
       ConfirmEnd, Activated, Ended, Refetch, ReadOccupancy, Arrive, LoadFails, grid
  <2> QED BY <2>1 DEF CtoTypes, NoLoad, Asked
<1>2. sent' \in {None, sent} /\ (ends' \in {None, ends} \/ ends' = [link |-> ending, stage |-> "sent"])
  BY DEF ShowPort, CloseDetails, NewService, ActivateHere,
     OpenWizard, AskToEnd, KeepActive, ConfirmEnd, Activated, Ended, Refetch, ReadOccupancy, Arrive,
     LoadFails
<1>3. WizardTyped' /\ (selected' # None => selected'.port \in Port)
  <2>1. ASSUME NEW p \in Port, ShowPort(p) PROVE WizardTyped' /\ (selected' # None => selected'.port \in Port)
    <3>1. /\ selected' = [port |-> p, link |-> page[p]]
          /\ wizard'.port = Target(selected', page, wizard.port) /\ wizard'.onu = wizard.onu
          /\ wizard'.step \in {1, wizard.step}
      BY <1>0, <2>1 DEF ShowPort, Select, Shape
    <3>2. selected'.port \in Port
      BY <3>1
    <3> QED BY <1>0, <3>1, <3>2, Moves
  <2>2. CASE CloseDetails \/ Ended
    <3>1. /\ selected' = None /\ wizard'.port = Target(selected', page, wizard.port)
          /\ wizard'.onu = wizard.onu /\ wizard'.step \in {1, wizard.step}
      BY <1>0, <2>2 DEF CloseDetails, Ended, Select, Shape
    <3> QED BY <1>0, <3>1, Moves
  <2>3. CASE NewService \/ ActivateHere
    <3>1. /\ selected' \in {None, selected} /\ wizard'.port = Target(selected', page, wizard.port)
          /\ wizard'.onu = wizard.onu /\ wizard'.step = 1
      BY <1>0, <2>3 DEF NewService, ActivateHere, OpenWizard, Shape
    <3> QED BY <1>0, <3>1, Moves
  <2>4. CASE Activated
    <3>1. /\ selected' = None /\ wizard'.port = Target(selected', page, wizard.port)
          /\ wizard'.onu = wizard.onu /\ wizard'.step = wizard.step
      BY <1>0, <2>4 DEF Activated, Shape
    <3> QED BY <1>0, <3>1, Moves
  <2>5. CASE Arrive
    <3>1. /\ selected' = selected /\ wizard'.port = Target(selected', load.read, wizard.port)
          /\ wizard'.onu = wizard.onu /\ wizard'.step = wizard.step
      BY <1>0, <2>5 DEF Arrive, Shape
    <3> QED BY <1>0, <3>1, Moves
  <2>6. CASE AskToEnd \/ KeepActive \/ ConfirmEnd \/ Refetch \/ ReadOccupancy \/ LoadFails
    <3>1. UNCHANGED <<selected, wizard>>
      BY <2>6 DEF AskToEnd, KeepActive, ConfirmEnd, Refetch, ReadOccupancy, LoadFails, grid
    <3> QED BY <1>0, <3>1 DEF WizardTyped
  <2> QED BY <2>1, <2>2, <2>3, <2>4, <2>5, <2>6
<1> QED BY <1>0, <1>1, <1>2, <1>3 DEF CtoTypes, WizardTyped

LEMMA StepsTyped ==
  ASSUME CtoInv, CtoTypes, Choose \/ Forward \/ Back \/ CloseWizard \/ Activate
  PROVE  CtoTypes'
<1>0. /\ UNCHANGED <<links, load, selected, ends>> /\ WizardTyped /\ Shape
      /\ (selected # None => selected.port \in Port)
  BY DEF CtoTypes, WizardTyped, CtoInv, Wizards, Choose, Forward, Back, CloseWizard, Activate, grid
<1>1. sent' = sent \/ sent' \in [port : Port, onu : Onu, stage : Stages]
  <2>1. CASE Activate
    <3>1. sent' = [port |-> wizard.port, onu |-> wizard.onu, stage |-> "sent"] /\ wizard.step = 4
      BY <2>1 DEF Activate
    <3>2. wizard.port \in Port /\ wizard.onu \in Onu
      BY <1>0, <3>1 DEF WizardTyped
    <3> QED BY <3>1, <3>2 DEF Stages
  <2> QED BY <2>1 DEF Choose, Forward, Back, CloseWizard
<1>2. WizardTyped'
  <2>1. ASSUME NEW p \in Free(page) \cup {wizard.port}, wizard.step = 2,
               wizard' = [wizard EXCEPT !.port = Target(selected, page, p),
                                        !.picked = @ \/ selected = None]
        PROVE  WizardTyped'
    <3>1. p \in Port \cup {None}
      BY <1>0 DEF Free, WizardTyped
    <3>2. /\ wizard'.port = Target(selected, page, p) /\ wizard'.onu = wizard.onu
          /\ wizard'.step = 2
      BY <1>0, <2>1 DEF Shape
    <3> QED BY <1>0, <3>1, <3>2, TargetTyped DEF WizardTyped
  <2>2. ASSUME NEW o \in Onu, wizard.step = 3, wizard' = [wizard EXCEPT !.onu = o]
        PROVE  WizardTyped'
    <3>1. wizard'.port = wizard.port /\ wizard'.onu = o /\ wizard'.step = wizard.step
      BY <1>0, <2>2 DEF Shape
    <3> QED BY <1>0, <2>2, <3>1 DEF WizardTyped
  <2>3. ASSUME NEW c, wizard' = [wizard EXCEPT !.customer = c] PROVE WizardTyped'
    <3>1. wizard'.port = wizard.port /\ wizard'.onu = wizard.onu /\ wizard'.step = wizard.step
      BY <1>0, <2>3 DEF Shape
    <3> QED BY <1>0, <3>1 DEF WizardTyped
  <2>4. CASE Forward
    <3>1. /\ wizard'.port = wizard.port /\ wizard'.onu = wizard.onu /\ wizard'.step = wizard.step + 1
          /\ wizard.step < 4
          /\ wizard.step = 2 => wizard.port # None
          /\ wizard.step = 3 => wizard.onu # None
      BY <1>0, <2>4 DEF Forward, Shape
    <3> QED BY <1>0, <3>1 DEF WizardTyped
  <2>5. CASE Back
    <3>1. /\ wizard'.port = wizard.port /\ wizard'.onu = wizard.onu /\ wizard'.step = wizard.step - 1
          /\ wizard.step > 1
      BY <1>0, <2>5 DEF Back, Shape
    <3> QED BY <1>0, <3>1 DEF WizardTyped
  <2>6. CASE CloseWizard \/ Activate
    <3>1. wizard'.port = wizard.port /\ wizard'.onu = wizard.onu /\ wizard'.step = wizard.step
      BY <1>0, <2>6 DEF CloseWizard, Activate, Shape
    <3> QED BY <1>0, <3>1 DEF WizardTyped
  <2> QED BY <2>1, <2>2, <2>3, <2>4, <2>5, <2>6 DEF Choose
<1> QED BY <1>0, <1>1, <1>2 DEF CtoTypes, WizardTyped

\* A service that is created has a port and an ONU; none gets others.
LEMMA RowsTyped ==
  ASSUME Table, CtoTypes
  PROVE  /\ \A p \in Port, o \in Onu : Insert(p, o) =>
              \A i \in DOMAIN links' : links'[i].port \in Port /\ links'[i].onu \in Onu
         /\ \A k \in DOMAIN links : \A active : Change(k, active) =>
              \A i \in DOMAIN links' : links'[i].port \in Port /\ links'[i].onu \in Onu
<1>1. ASSUME NEW p \in Port, NEW o \in Onu, Insert(p, o)
      PROVE  \A i \in DOMAIN links' : links'[i].port \in Port /\ links'[i].onu \in Onu
  <2>1. PICK row : row = [port |-> p, onu |-> o, active |-> TRUE, version |-> 1]
    OBVIOUS
  <2>2. links \in Seq(Entries) /\ links' = Append(links, row) /\ row.port \in Port /\ row.onu \in Onu
    BY <1>1, <2>1 DEF Table, Insert
  <2>3. \A i \in DOMAIN links' : links'[i] = row \/ (i \in DOMAIN links /\ links'[i] = links[i])
    BY <2>2
  <2> QED BY <2>2, <2>3 DEF CtoTypes
<1>2. ASSUME NEW k \in DOMAIN links, NEW active, Change(k, active)
      PROVE  \A i \in DOMAIN links' : links'[i].port \in Port /\ links'[i].onu \in Onu
  <2>1. /\ DOMAIN links' = DOMAIN links
        /\ \A i \in DOMAIN links : links'[i].port = links[i].port /\ links'[i].onu = links[i].onu
    BY <1>2 DEF Change, Table, Fields
  <2> QED BY <2>1 DEF CtoTypes
<1> QED BY <1>1, <1>2

LEMMA ServicesTyped ==
  ASSUME CtoInv, CtoTypes,
         CheckUnused \/ InsertLink \/ ActivationFails \/ EndLink \/ EndFails \/ Others
  PROVE  CtoTypes'
<1>0. UNCHANGED <<wizard, load, selected>> /\ Table
  BY DEF CtoInv, CheckUnused, InsertLink, ActivationFails, EndLink, EndFails, Others, grid
<1>1. \A i \in DOMAIN links' : links'[i].port \in Port /\ links'[i].onu \in Onu
  <2>1. CASE UNCHANGED links
    BY <2>1 DEF CtoTypes
  <2>2. CASE InsertLink
    BY <1>0, <2>2, RowsTyped DEF InsertLink, CtoTypes
  <2>3. CASE EndLink
    <3>1. ends.link.id \in DOMAIN links
      BY <2>3 DEF EndLink, CtoInv, Copies, Known
    <3> QED BY <1>0, <2>3, <3>1, RowsTyped DEF EndLink
  <2>4. CASE Others
    BY <1>0, <2>4, RowsTyped DEF Others
  <2> QED BY <2>1, <2>2, <2>3, <2>4 DEF CheckUnused, ActivationFails, EndFails
<1>2. sent' # None => sent' \in [port : Port, onu : Onu, stage : Stages]
  BY DEF CtoTypes, Stages, CheckUnused, InsertLink, ActivationFails, EndLink, EndFails, Others
<1>3. ends' # None => ends'.stage \in {"sent", "done"}
  <2>1. CASE EndLink
    BY <2>1 DEF EndLink, CtoInv, Copies
  <2> QED BY <2>1 DEF CtoTypes, CheckUnused, InsertLink, ActivationFails, EndFails, Others
<1> QED BY <1>0, <1>1, <1>2, <1>3 DEF CtoTypes

LEMMA CtoTypesStep == CtoInv /\ CtoTypes /\ [Next]_vars => CtoTypes'
<1> SUFFICES ASSUME CtoInv, CtoTypes, [Next]_vars PROVE CtoTypes'
  OBVIOUS
<1>1. CASE UNCHANGED vars
  BY <1>1 DEF vars, CtoTypes
<1>2. CASE Next
  BY <1>2, GridTyped, StepsTyped, ServicesTyped DEF Next
<1> QED BY <1>1, <1>2

\* The pages together.
PagesTyped ==
  /\ route = "record" => RecordTypes
  /\ CtoTypes
  /\ route = "job" => JobInv /\ JobTypes
  /\ route = "view" => ViewTypes
  /\ route = "map" => B!TypeOK

LEMMA PagesTypedStart == ConsoleInit => PagesTyped
BY RecordTypesStart, CtoTypesStart, CtoClosedTyped, JobInit, JobTypesStart, ViewTypesStart, MapTypesStart
   DEF ConsoleInit, PagesTyped

\* A page that is left alone keeps its types.
LEMMA TypesStutter ==
  /\ RecordTypes /\ UNCHANGED record => RecordTypes'
  /\ JobInv /\ JobTypes /\ UNCHANGED job => JobInv' /\ JobTypes'
  /\ ViewTypes /\ UNCHANGED answer => ViewTypes'
  /\ B!TypeOK /\ UNCHANGED map => B!TypeOK'
<1>1. RecordTypes /\ UNCHANGED record => RecordTypes'
  BY DEF record, RecordTypes, CacheTyped, R!Places, R!F
<1>2. JobInv /\ JobTypes /\ UNCHANGED job => JobInv' /\ JobTypes'
  BY DEF job, JobInv, Heard, JobTypes
<1>3. ViewTypes /\ UNCHANGED answer => ViewTypes'
  <2> SUFFICES ASSUME ViewTypes, UNCHANGED answer PROVE ViewTypes'
    OBVIOUS
  <2>1. Q!V' = Q!V /\ Q!Input' = Q!Input
    BY DEF answer, Q!V, Q!Input
  <2>2. Q!TypeOK'
    BY <2>1 DEF answer, ViewTypes, Q!TypeOK
  <2>3. (Q!V.again # "no")' => viewAsked' \in Choice
    BY <2>1 DEF answer, ViewTypes
  <2>4. (viewTimer => Q!V.delayed # FALSE /\ viewChosen \in Choice)'
    BY <2>1 DEF answer, ViewTypes
  <2> QED BY <2>2, <2>3, <2>4 DEF answer, ViewTypes
<1>4. B!TypeOK /\ UNCHANGED map => B!TypeOK'
  BY DEF map, B!TypeOK
<1> QED BY <1>1, <1>2, <1>3, <1>4

LEMMA PagesTypedStep ==
  ASSUME route = "record" => RecordInv, CtoInv, PagesTyped,
         [ConsoleNext /\ UNCHANGED route]_<<route, pages>>
  PROVE  PagesTyped'
<1> USE DEF PagesTyped
<1>1. CtoTypes'
  BY CtoNext, CtoTypesStep
<1>2. route' = route
  BY DEF pages
<1>3. CASE route = "record"
  <2>1. R!Next \/ UNCHANGED record
    BY <1>3 DEF ConsoleNext, pages
  <2> QED BY <1>1, <1>2, <1>3, <2>1, RecordTypesStep, TypesStutter
<1>4. CASE route = "job"
  <2>1. W!Next \/ UNCHANGED job
    BY <1>4 DEF ConsoleNext, pages
  <2> QED BY <1>1, <1>2, <1>4, <2>1, JobStep, JobTypesStep, TypesStutter
<1>5. CASE route = "view"
  <2>1. Q!Next \/ UNCHANGED answer
    BY <1>5 DEF ConsoleNext, pages
  <2> QED BY <1>1, <1>2, <1>5, <2>1, ViewTypesStep, TypesStutter
<1>6. CASE route = "map"
  <2>1. B!Next \/ UNCHANGED map
    BY <1>6 DEF ConsoleNext, pages
  <2> QED BY <1>1, <1>2, <1>6, <2>1, MapTypesStep, TypesStutter
<1> QED BY <1>1, <1>2, <1>3, <1>4, <1>5, <1>6

\* On every page of the console the variables hold what their readers expect:
\* among others a service is activated with a port and an ONU (ServiceLinkDialog
\* asks for both before its last step), a question is asked with a value, and a
\* load at rest holds no answer.
THEOREM PagesAreTyped == ConsoleSpec => []Typed
<1>1. /\ (route = "trace" => TP!IInv) /\ (route = "record" => RecordInv) /\ CtoInv /\ PagesTyped
      => Typed
  <2>1. TP!IInv => T!TypeOK
    BY TracesFormed, TP!TypesFollow, SameTypes
  <2> QED BY <2>1, RecordTypesFollow, CtoTypesFollow, JobTypesFollow DEF Typed, PagesTyped, ViewTypes
<1> QED
  BY <1>1, TraceKeeps, RecordsKeep, CtoInit, CtoStep, PagesTypedStart, PagesTypedStep, PTL
     DEF ConsoleSpec
=============================================================================

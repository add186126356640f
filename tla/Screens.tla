------------------------------- MODULE Screens -------------------------------
(***************************************************************************)
(* The views of the console that ask the server a question, each reduced   *)
(* to when it asks, which answer it takes and what it shows beside it.     *)
(*   asks      inputs whose change asks at once, after a delay if delayed  *)
(*   first     a question is asked on opening                              *)
(*   linked    and by a link that leads to the open page itself            *)
(*   button    disabled while busy, or one that applies filters any time   *)
(*   again     the same can be asked again, always or after a failure      *)
(*   takes     any answer, that of the newest question because the code    *)
(*             cancels the others, or of the one useQuery or useMutation   *)
(*             observes                                                    *)
(*   clears    what clears the shown answer                                *)
(*   keeps     inputs of a dialog that a new opening leaves alone          *)
(*   heedsOpen the effect that asks depends on the dialog being open       *)
(* A Panel is what a view shows of its present inputs beside an answer.    *)
(***************************************************************************)
Plain == [dialog |-> FALSE, asks |-> {}, delayed |-> FALSE, first |-> FALSE, linked |-> FALSE,
          button |-> "none", again |-> "no", takes |-> "any", clears |-> {},
          keeps |-> {}, heedsOpen |-> FALSE]

TraceInputs == {"terminal", "direction"}
TraceView == [Plain EXCEPT !.first = TRUE, !.linked = TRUE, !.button = "disabled",
                           !.takes = "observed", !.clears = {"asking", "failure"}]
TracePanel == {}

BudgetInputs == {"inputMode", "direction", "profile"}
BudgetOrigin == {"serviceLink", "terminal", "engineeringMargin"}
BudgetEager == [Plain EXCEPT !.button = "apply", !.clears = {"failure"}]  \* fault: not disabled
BudgetView == [Plain EXCEPT !.button = "disabled", !.clears = {"failure"}]
BudgetPanel == {}

\* The service links of the customer chosen in the budget view.
LinksView == [Plain EXCEPT !.asks = {"customer"}, !.clears = {"emptying"}]

SimulationInputs == {"serviceLink", "direction", "engineeringMargin", "overrides"}
SimulationView == [Plain EXCEPT !.button = "disabled", !.clears = {"ending"}]
SimulationPanel == {}

Search == [Plain EXCEPT !.dialog = TRUE, !.asks = {"query"}, !.delayed = TRUE,
                        !.takes = "newest", !.clears = {"emptying", "failure", "opening"}]
SearchUncancelled == [Search EXCEPT !.takes = "any"]   \* fault: a new query aborts nothing
SearchView == Search
SearchPanel == {"query"}

ComparisonView == [Plain EXCEPT !.dialog = TRUE, !.asks = {"measurement", "tolerance"},
                                !.first = TRUE, !.clears = {"closing"}, !.keeps = {"tolerance"},
                                !.heedsOpen = TRUE]
ComparisonPanel == {"measurement", "tolerance"}

SplitInputs == {"structure", "slack", "cut"}
\* The identities of the fibers of the segment to be split.
Fibers == [Plain EXCEPT !.dialog = TRUE, !.first = TRUE, !.takes = "newest",
                        !.clears = {"asking"}, !.heedsOpen = TRUE]
FibersUncancelled == [Fibers EXCEPT !.takes = "any"]   \* fault: no cancelled flag
FibersView == Fibers
PreviewView == [Plain EXCEPT !.dialog = TRUE, !.asks = SplitInputs, !.delayed = TRUE,
                             !.first = TRUE, !.clears = {"opening"},
                             !.keeps = {"structure", "slack"}, !.heedsOpen = TRUE]
PreviewPanel == {"cut"}

\* AuditView applies its filters; AuditTimeline asks whenever they have changed.
AuditInputs == {"entityType", "action"}
AuditTimeline == [Plain EXCEPT !.first = TRUE, !.button = "apply", !.again = "always"]

\* The tabs of the reports: one query for each page and set of applied filters.
CapacityTab == [Plain EXCEPT !.first = TRUE, !.asks = {"page"}, !.button = "apply",
                             !.again = "failed", !.takes = "observed", !.clears = {"asking"}]
CapacityInputs == {"status", "minUsage", "page"}
OccupancyTab == CapacityTab
OccupancyInputs == {"status", "minOccupancy", "maxOccupancy", "page"}
\* Its filters ask nothing: they hide rows of the page that is shown.
InconsistenciesTab == [CapacityTab EXCEPT !.button = "none"]

ViewOf ==
  [trace |-> TraceView, budget |-> BudgetView, links |-> LinksView, simulation |-> SimulationView,
   search |-> SearchView, comparison |-> ComparisonView, fibers |-> FibersView,
   preview |-> PreviewView, audit |-> AuditTimeline, occupancy |-> OccupancyTab,
   capacity |-> CapacityTab, inconsistencies |-> InconsistenciesTab]
InputsOf ==
  [trace |-> TraceInputs, budget |-> BudgetInputs \cup BudgetOrigin, links |-> {"customer"},
   simulation |-> SimulationInputs, search |-> {"query"},
   comparison |-> {"measurement", "tolerance"}, fibers |-> {"segment"},
   preview |-> {"segment"} \cup SplitInputs, audit |-> AuditInputs,
   occupancy |-> OccupancyInputs, capacity |-> CapacityInputs, inconsistencies |-> {"page"}]
Screened == UNION {{v} \X InputsOf[v] : v \in DOMAIN ViewOf}
PanelOf == [v \in DOMAIN ViewOf |->
  CASE v = "trace" -> TracePanel [] v = "budget" -> BudgetPanel
    [] v = "simulation" -> SimulationPanel [] v = "search" -> SearchPanel
    [] v = "comparison" -> ComparisonPanel [] v = "preview" -> PreviewPanel [] OTHER -> {}]
\* Inputs that are given with the opening of a dialog.
Given == {"segment", "measurement"}
=============================================================================

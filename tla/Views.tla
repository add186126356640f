-------------------------------- MODULE Views --------------------------------
(***************************************************************************)
(* The views of the console that ask the server a question and show its    *)
(* answer: one view, one of the inputs its question is made of, and the    *)
(* questions under way.  An answer is told apart by the number of its      *)
(* question and by the value the input had when it was asked.  A choice is *)
(* made by the operator, or for the operator by a list that has arrived.   *)
(* A cached answer counts as asked for again and answered at once; a reset *)
(* of the filters is a choice and a press.                                 *)
(***************************************************************************)
EXTENDS Naturals, Screens

CONSTANTS
  Followed,      \* the views and inputs followed, <<view, input>>
  Value,         \* what can be chosen
  MaxQuestions,  \* bound on the questions asked and given up
  None

VARIABLES
  subject,    \* the view and the input followed
  open,       \* the dialog is open; a page always is
  chosen,     \* the value of the input; None while it leaves nothing to ask
  timer,      \* a question waits for the debounce timer
  under,      \* the questions under way
  busy,       \* the loading flag of the view
  last,       \* the number of the last question asked or given up
  asked,      \* what the last question asked was about
  failed,     \* the last question has failed
  shown,      \* the question whose answer is shown, or None
  overlapped  \* history: a question has been asked or given up with another under way

vars == <<subject, open, chosen, timer, under, busy, last, asked, failed, shown, overlapped>>

V == ViewOf[subject[1]]
Input == subject[2]

\* An input that the operator can leave without a question to ask.
Emptiable == V.button = "disabled" \/ "emptying" \in V.clears
-----------------------------------------------------------------------------
(***************************************************************************)
(* What happens to the questions                                           *)
(***************************************************************************)
Dropped == IF V.takes = "any" THEN under ELSE {[q EXCEPT !.off = TRUE] : q \in under}
Cleared(by) == IF by \in V.clears THEN None ELSE shown

Ask(v) ==
  /\ last' = last + 1 /\ asked' = v
  /\ under' = Dropped \cup {[n |-> last', about |-> v, off |-> FALSE]}
  /\ overlapped' = (overlapped \/ under # {})
  /\ busy' = TRUE /\ timer' = FALSE /\ failed' = FALSE

\* The effect of a debounced input; only the search is marked as busy already.
Wait ==
  /\ timer' = TRUE /\ busy' = (busy \/ V.takes = "newest")
  /\ under' = Dropped
  /\ UNCHANGED <<last, asked, failed, overlapped>>

GiveUp ==
  /\ last' = last + 1
  /\ under' = Dropped
  /\ overlapped' = (overlapped \/ under # {})
  /\ busy' = FALSE /\ timer' = FALSE /\ failed' = FALSE
  /\ UNCHANGED asked

\* The effect that asks runs for the value v of its input.
Effect(v) ==
  IF v = None THEN GiveUp ELSE IF V.delayed THEN Wait ELSE Ask(v)

Init ==
  /\ subject \in Followed
  /\ open = ~V.dialog
  /\ chosen \in IF V.dialog THEN {None} ELSE Value \cup IF Emptiable THEN {None} ELSE {}
  /\ LET asking == open /\ V.first /\ chosen # None IN
       /\ busy = asking /\ last = IF asking THEN 1 ELSE 0
       /\ asked = IF asking THEN chosen ELSE None
       /\ under = IF asking THEN {[n |-> 1, about |-> chosen, off |-> FALSE]} ELSE {}
  /\ timer = FALSE /\ failed = FALSE /\ shown = None /\ overlapped = FALSE
-----------------------------------------------------------------------------
(***************************************************************************)
(* The operator                                                            *)
(***************************************************************************)
InBounds == last < MaxQuestions

Choose(v) ==
  /\ open /\ v # chosen /\ (v = None => Emptiable) /\ InBounds
  /\ Input \notin Given
  /\ chosen' = v
  /\ IF Input \in V.asks
     THEN Effect(v) /\ shown' = Cleared(IF v = None THEN "emptying" ELSE "asking")
     ELSE UNCHANGED <<timer, under, busy, last, asked, failed, shown, overlapped>>
  /\ UNCHANGED <<subject, open>>

\* Another input of the question changes, the followed one does not.
ChooseOther ==
  /\ open /\ V.asks \ ({Input} \cup Given) # {} /\ InBounds
  /\ Effect(IF V.button = "apply" THEN asked ELSE chosen) /\ shown' = Cleared("asking")
  /\ UNCHANGED <<subject, open, chosen>>

Press ==
  /\ open /\ chosen # None /\ InBounds
  /\ \/ V.button = "disabled" /\ ~busy
     \/ V.button = "apply" /\ Input \notin V.asks
  /\ Ask(chosen) /\ shown' = Cleared("asking")
  /\ UNCHANGED <<subject, open, chosen>>

Refresh ==
  /\ V.again # "no" /\ (V.again = "failed" => failed) /\ ~busy /\ InBounds
  /\ Ask(asked) /\ shown' = Cleared("asking")
  /\ UNCHANGED <<subject, open, chosen>>

\* The search parameters of the page change: the inputs stay as they are.
FollowLink(v) ==
  /\ V.linked /\ InBounds
  /\ Ask(v) /\ shown' = Cleared("asking")
  /\ UNCHANGED <<subject, open, chosen>>

Fire ==
  /\ timer
  /\ Ask(chosen) /\ shown' = Cleared("asking")
  /\ UNCHANGED <<subject, open, chosen>>

\* handleEndScenario, offered while a result is shown.
End ==
  /\ "ending" \in V.clears /\ shown # None /\ InBounds
  /\ shown' = None /\ last' = last + 1 /\ failed' = FALSE
  /\ overlapped' = (overlapped \/ under # {})
  /\ chosen' = IF Input = "overrides" THEN None ELSE chosen
  /\ UNCHANGED <<subject, open, timer, under, busy, asked>>

Open(v) ==
  /\ ~open /\ InBounds
  /\ open' = TRUE
  /\ chosen' = IF ~V.heedsOpen THEN None
               ELSE IF Input \in V.keeps /\ chosen # None THEN chosen ELSE v
  /\ Effect(chosen')
  /\ shown' = IF {"asking", "opening"} \cap V.clears # {} THEN None ELSE shown
  /\ UNCHANGED subject

Close ==
  /\ V.dialog /\ open
  /\ open' = FALSE
  /\ IF V.heedsOpen THEN timer' = FALSE /\ under' = Dropped ELSE UNCHANGED <<timer, under>>
  /\ shown' = Cleared("closing")
  /\ UNCHANGED <<subject, chosen, busy, last, asked, failed, overlapped>>
-----------------------------------------------------------------------------
(***************************************************************************)
(* The answers                                                             *)
(***************************************************************************)
\* An aborted search still runs the finally that says it is over.
Over(q) ==
  /\ under' = under \ {q}
  /\ busy' = IF q.off /\ V.takes = "observed" THEN busy ELSE FALSE

Answer(q) ==
  /\ Over(q)
  /\ shown' = IF q.off THEN shown ELSE [n |-> q.n, about |-> q.about]
  /\ UNCHANGED <<subject, open, chosen, timer, last, asked, failed, overlapped>>

Fails(q) ==
  /\ Over(q)
  /\ shown' = IF q.off THEN shown ELSE Cleared("failure")
  /\ failed' = (failed \/ q.n = last)
  /\ UNCHANGED <<subject, open, chosen, timer, last, asked, overlapped>>

Next ==
  \/ \E v \in Value \cup {None} : Choose(v)
  \/ \E v \in Value : Open(v) \/ FollowLink(v)
  \/ ChooseOther \/ Press \/ Refresh \/ Fire \/ End \/ Close
  \/ \E q \in under : Answer(q) \/ Fails(q)

Spec == Init /\ [][Next]_vars
-----------------------------------------------------------------------------
(***************************************************************************)
(* Properties                                                              *)
(***************************************************************************)
AtRest == open /\ under = {} /\ ~timer

\* The views with no guard against an older answer: it is shown when it is late.
Unguarded == {"links", "simulation", "comparison", "preview", "audit"}

\* A view at rest is not busy, and unless the last question has failed it shows
\* the answer to that question, not to one asked before or given up, with no
\* input beside it that says otherwise.  The unguarded views keep this promise
\* only while no question is asked or given up with another under way.
ShowsLastAnswer ==
  AtRest =>
    /\ ~busy
    /\ shown # None /\ ~failed /\ (subject[1] \in Unguarded => ~overlapped) =>
         /\ shown.n = last
         /\ Input \in PanelOf[subject[1]] => shown.about = chosen

\* The fibers a split can be confirmed with are those of its own segment, even
\* before the view is at rest.
SplitsOwnFibers ==
  subject[1] = "fibers" /\ open /\ shown # None => shown.about = chosen

TypeOK ==
  /\ Input \in InputsOf[subject[1]]
  /\ chosen \in Value \cup {None} /\ asked \in Value \cup {None}
  /\ {open, timer, busy, failed, overlapped} \subseteq BOOLEAN
  /\ under \subseteq [n : 1 .. last, about : Value, off : BOOLEAN]
  /\ shown # None => shown \in [n : 1 .. last, about : Value]
=============================================================================

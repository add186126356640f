------------------------------ MODULE MCConsole ------------------------------
(* A small console: a box with two terminals beside two writers, the plants  *)
(* of Plants, every form, page and view with one of each kind of attribute   *)
(* or input, a CTO with two ports.                                           *)
EXTENDS Console, TLC

MCLocationOf == [x \in Terminal |-> Box]
op(act, x, y) == [act |-> act, a |-> x, b |-> y]
call(kind, s, c, ops) == [kind |-> kind, structure |-> s, conn |-> c, ops |-> ops]
EditorRequests ==
  {call("create", None, None, <<op("create", 1, 2)>>),
   call("batch", Box, None, <<op("reserve", 2, None)>>),
   call("batch", Box, None, <<op("release", 2, None), op("connect", 2, 1)>>)}
  \cup {call("deactivate", None, c, <<op("deactivate", None, None)>>) : c \in ConnId}

Plants == INSTANCE Plants
SmallQueries == Plants!SmallQueries

Forms == INSTANCE Forms
\* Of the attributes of a form that its code treats alike, one is followed.
Alike(f, a, b) ==
  /\ f \in Forms!Retiring => (a = "status" <=> b = "status")
  /\ \A S \in {Forms!Required, Forms!Filled, Forms!Editable, Forms!KeptOnNull} :
       a \in S[f] <=> b \in S[f]
FollowedAttributes == UNION {{<<f, CHOOSE b \in Forms!Sent[f] : Alike(f, a, b)>> : a \in Forms!Sent[f]} :
                     f \in Forms!Form}

Screens == INSTANCE Screens
\* Of the inputs of a view that its code treats alike, one is followed.
SameInput(v, i, j) ==
  /\ i \in Screens!PanelOf[v] <=> j \in Screens!PanelOf[v]
  /\ \A S \in {Screens!ViewOf[v].asks, Screens!ViewOf[v].keeps, Screens!Given, {"overrides"}} : i \in S <=> j \in S
FollowedInputs == UNION {{<<v, CHOOSE j \in Screens!InputsOf[v] : SameInput(v, i, j)>> : i \in Screens!InputsOf[v]} :
                  v \in DOMAIN Screens!ViewOf}

Symmetry == Permutations(Onu)

Wandering == {<<"site", "address">>, <<"splitter", "notes">>}

(* Not explored further: a record deleted by others with no request under    *)
(* way, two loads at once, a failed load of a page not shown or beside a     *)
(* save, and more than one page in use, but for the Wandering,               *)
(* splitters up to a version less.                                           *)
BoundedRecord ==
  /\ recordRow = R!Gone => recordRequest # None
  /\ \A p \in R!Places :
       /\ recordCache[p].load = "failed" => p = recordPlace /\ recordRequest = None
       /\ \A q \in R!Places \ {p} :
            /\ ~(R!Loading(recordCache[p]) /\ R!Loading(recordCache[q]))
            /\ recordCache[p] # R!Idle /\ recordCache[q] # R!Idle =>
                 /\ recordSubject \in Wandering
                 /\ recordSubject[1] = "splitter" => recordRow.version < MaxSaves

(* Nor a load of the ports beside a request or under a confirmation, an      *)
(* activation beside a deactivation, a request or a load beside a wizard of  *)
(* no port, and a deactivation or a load after a port was picked by hand.    *)
BoundedCto ==
  /\ load # NoLoad => sent = None /\ ends = None /\ ending = None
  /\ sent = None \/ ends = None
  /\ wizard.picked => load = NoLoad /\ ends = None
  /\ wizard.open /\ wizard.begun = None => load = NoLoad /\ sent = None /\ ends = None

Bounded == (route = "record" => BoundedRecord) /\ BoundedCto
=============================================================================

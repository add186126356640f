------------------------------ MODULE Activation ------------------------------
(***************************************************************************)
(* The ports of one CTO in one browser (CtoPortsGrid), its wizard that     *)
(* activates a customer (ServiceLinkDialog) and its confirmation that ends *)
(* a service, the handlers behind them, and everybody else who activates,  *)
(* ends, changes or revives services of the same ports and ONUs.           *)
(*                                                                         *)
(* A port with an active service is taken, any other one free: damages,    *)
(* reservations and bare connections, filters, notes and names are left    *)
(* out.  A request whose answer is lost is served before or never.         *)
(***************************************************************************)
EXTENDS Naturals, Sequences

CONSTANTS
  Port,        \* the ports of the CTO, numbers in the order of their names
  Onu, Customer,
  MaxLinks,    \* bound: services ever created
  MaxVersion,  \* bound: others do not change a service from this version on
  None

ASSUME PortsNumbered == Port \subseteq Nat

VARIABLES
  links,    \* service_links, by id
  page,     \* the occupancy shown: for each port its service, id and row, or None
  load,     \* the occupancy query: [stage, read]
  selected, \* selectedPort, a copy of a row of the page
  ending,   \* deactivatingLink while its dialog is open, or None
  wizard,   \* ServiceLinkDialog, which keeps its choices while it is closed
  sent,     \* the activation under way, or None
  ends      \* the deactivation under way, or None

vars == <<links, page, load, selected, ending, wizard, sent, ends>>
grid == <<page, load, selected, ending>>

ActiveAt(p) == {i \in DOMAIN links : links[i].active /\ links[i].port = p}
ActiveWith(o) == {i \in DOMAIN links : links[i].active /\ links[i].onu = o}

Row(i) == [id |-> i, port |-> links[i].port, onu |-> links[i].onu, version |-> links[i].version]
Occupancy ==
  [p \in Port |-> IF ActiveAt(p) = {} THEN None ELSE Row(CHOOSE i \in ActiveAt(p) : TRUE)]

Free(shown) == {p \in Port : shown[p] = None}

ForcedPort(port, shown, chosen) == IF port # None THEN port.port ELSE IF chosen # None THEN chosen
  ELSE IF Free(shown) = {} THEN None
  ELSE CHOOSE p \in Free(shown) : \A q \in Free(shown) : p <= q

OfferedPort(port, shown, chosen) ==   \* fault: the port is set only when none is chosen yet
  IF chosen # None THEN chosen ELSE ForcedPort(port, shown, chosen)

\* Both effects: the selected port, else the port chosen before, else a free one.
Target(port, shown, chosen) == ForcedPort(port, shown, chosen)

NoLoad == [stage |-> "none", read |-> None]
Asked == [stage |-> "asked", read |-> None]

Init ==
  /\ \E p \in Port, o \in Onu :
       links = <<[port |-> p, onu |-> o, active |-> TRUE, version |-> 1]>>
  /\ page = Occupancy /\ load = NoLoad
  /\ selected = None /\ ending = None
  /\ wizard = [open |-> FALSE, step |-> 1, customer |-> None, onu |-> None,
               port |-> Target(None, page, None), begun |-> None, picked |-> FALSE]
  /\ sent = None /\ ends = None
-----------------------------------------------------------------------------
(***************************************************************************)
(* The grid                                                                *)
(***************************************************************************)
Uncovered == ~wizard.open /\ ending = None

\* What a new value of selectedPort does to the wizard: an open one starts over.
Select(row) ==
  /\ selected' = row
  /\ wizard' = [wizard EXCEPT !.port = Target(row, page, @),
                              !.step = IF wizard.open /\ row # selected THEN 1 ELSE @]

ShowPort(p) ==
  /\ Uncovered /\ selected = None
  /\ Select([port |-> p, link |-> page[p]])
  /\ UNCHANGED <<links, page, load, ending, sent, ends>>

CloseDetails ==
  /\ Uncovered /\ selected # None
  /\ Select(None)
  /\ UNCHANGED <<links, page, load, ending, sent, ends>>

OpenWizard(port) ==
  /\ selected' = port
  /\ wizard' = [wizard EXCEPT !.open = TRUE, !.step = 1, !.port = Target(port, page, @),
                              !.begun = IF port = None THEN None ELSE port.port,
                              !.picked = FALSE]
  /\ UNCHANGED <<links, page, load, ending, sent, ends>>

NewService == Uncovered /\ selected = None /\ OpenWizard(None)
ActivateHere == Uncovered /\ selected # None /\ selected.link = None /\ OpenWizard(selected)

AskToEnd ==
  /\ Uncovered /\ selected # None /\ selected.link # None
  /\ ending' = selected.link
  /\ UNCHANGED <<links, page, load, selected, wizard, sent, ends>>

KeepActive ==
  /\ ending # None
  /\ ending' = None
  /\ UNCHANGED <<links, page, load, selected, wizard, sent, ends>>

ConfirmEnd ==
  /\ ending # None /\ ends = None
  /\ ends' = [link |-> ending, stage |-> "sent"]
  /\ UNCHANGED <<links, grid, wizard, sent>>
-----------------------------------------------------------------------------
(***************************************************************************)
(* The wizard.  It can be closed, and opened again, while it sends.        *)
(***************************************************************************)
Choose ==
  /\ wizard.open
  /\ \/ \E c \in Customer : wizard.step = 1 /\ wizard' = [wizard EXCEPT !.customer = c]
     \/ \E p \in Free(page) \cup {wizard.port} :
          /\ wizard.step = 2
          /\ wizard' = [wizard EXCEPT !.port = Target(selected, page, p),
                                      !.picked = @ \/ selected = None]
     \/ \E o \in Onu : wizard.step = 3 /\ wizard' = [wizard EXCEPT !.onu = o]
  /\ UNCHANGED <<links, grid, sent, ends>>

Forward ==
  /\ wizard.open /\ wizard.step < 4
  /\ wizard.step = 1 => wizard.customer # None
  /\ wizard.step = 2 => wizard.port # None
  /\ wizard.step = 3 => wizard.onu # None
  /\ wizard' = [wizard EXCEPT !.step = @ + 1]
  /\ UNCHANGED <<links, grid, sent, ends>>

Back ==
  /\ wizard.open /\ wizard.step > 1 /\ sent = None
  /\ wizard' = [wizard EXCEPT !.step = @ - 1]
  /\ UNCHANGED <<links, grid, sent, ends>>

CloseWizard ==
  /\ wizard.open
  /\ wizard' = [wizard EXCEPT !.open = FALSE]
  /\ UNCHANGED <<links, grid, sent, ends>>

Activate ==
  /\ wizard.open /\ wizard.step = 4 /\ sent = None /\ Len(links) < MaxLinks
  /\ sent' = [port |-> wizard.port, onu |-> wizard.onu, stage |-> "sent"]
  /\ UNCHANGED <<links, grid, wizard, ends>>
-----------------------------------------------------------------------------
(***************************************************************************)
(* The server                                                              *)
(***************************************************************************)
Unused(p, o) == ActiveAt(p) = {} /\ ActiveWith(o) = {}
Always(p, o) == TRUE   \* fault: no partial unique index

UniqueIndex(p, o) == Unused(p, o)

\* create_service_link looks for active services first; a conflict ends the request.
CheckUnused ==
  /\ sent # None /\ sent.stage = "sent"
  /\ sent' = IF Unused(sent.port, sent.onu) THEN [sent EXCEPT !.stage = "checked"] ELSE None
  /\ UNCHANGED <<links, grid, wizard, ends>>

Insert(p, o) ==
  /\ UniqueIndex(p, o) /\ Len(links) < MaxLinks
  /\ links' = Append(links, [port |-> p, onu |-> o, active |-> TRUE, version |-> 1])

InsertLink ==
  /\ sent # None /\ sent.stage = "checked"
  /\ Insert(sent.port, sent.onu)
  /\ sent' = [sent EXCEPT !.stage = "done"]
  /\ UNCHANGED <<grid, wizard, ends>>

\* Refused, not answered or the answer lost: the wizard stays where it is.
ActivationFails ==
  /\ sent # None
  /\ sent' = None
  /\ UNCHANGED <<links, grid, wizard, ends>>

Bumped(v) == v + 1
NotBumped(v) == v   \* fault: an update leaves the version alone

NextVersion(v) == Bumped(v)

Change(i, active) ==
  links' = [links EXCEPT ![i].active = active, ![i].version = NextVersion(@)]

\* deactivate_service_link; the version is part of the UPDATE.
EndLink ==
  /\ ends # None /\ ends.stage = "sent"
  /\ links[ends.link.id].version = ends.link.version
  /\ Change(ends.link.id, FALSE)
  /\ ends' = [ends EXCEPT !.stage = "done"]
  /\ UNCHANGED <<grid, wizard, sent>>

EndFails ==
  /\ ends # None
  /\ ends' = None
  /\ UNCHANGED <<links, grid, wizard, sent>>

\* Everybody else: a new service, or update_service_link, which can end a
\* service, revive one that has ended, or change its notes.
Others ==
  /\ \/ \E p \in Port, o \in Onu : Insert(p, o)
     \/ \E i \in DOMAIN links : \E active \in BOOLEAN :
          /\ links[i].version < MaxVersion
          /\ active /\ ~links[i].active => UniqueIndex(links[i].port, links[i].onu)
          /\ Change(i, active)
  /\ UNCHANGED <<grid, wizard, sent, ends>>
-----------------------------------------------------------------------------
(***************************************************************************)
(* Answers and loads                                                       *)
(***************************************************************************)
\* onSuccess, then onOpenChange(false), whichever wizard is open by now.
Activated ==
  /\ sent # None /\ sent.stage = "done"
  /\ selected' = None
  /\ wizard' = [wizard EXCEPT !.open = FALSE, !.port = Target(None, page, @)]
  /\ load' = Asked
  /\ sent' = None
  /\ UNCHANGED <<links, page, ending, ends>>

Ended ==
  /\ ends # None /\ ends.stage = "done"
  /\ Select(None)
  /\ ending' = None
  /\ load' = Asked
  /\ ends' = None
  /\ UNCHANGED <<links, page, sent>>

\* The button, a reconnection, or data older than ten seconds on return.
Refetch ==
  /\ load = NoLoad
  /\ load' = Asked
  /\ UNCHANGED <<links, page, selected, ending, wizard, sent, ends>>

ReadOccupancy ==
  /\ load = Asked
  /\ load' = [stage |-> "read", read |-> Occupancy]
  /\ UNCHANGED <<links, page, selected, ending, wizard, sent, ends>>

\* The selected row and the service to be ended are copies and stay as they were.
Arrive ==
  /\ load.stage = "read"
  /\ page' = load.read /\ load' = NoLoad
  /\ wizard' = [wizard EXCEPT !.port = Target(selected, load.read, @)]
  /\ UNCHANGED <<links, selected, ending, sent, ends>>

LoadFails ==
  /\ load # NoLoad
  /\ load' = NoLoad
  /\ UNCHANGED <<links, page, selected, ending, wizard, sent, ends>>

Next ==
  \/ \E p \in Port : ShowPort(p)
  \/ CloseDetails \/ NewService \/ ActivateHere \/ AskToEnd \/ KeepActive \/ ConfirmEnd
  \/ Choose \/ Forward \/ Back \/ CloseWizard \/ Activate
  \/ CheckUnused \/ InsertLink \/ ActivationFails \/ EndLink \/ EndFails \/ Others
  \/ Activated \/ Ended \/ Refetch \/ ReadOccupancy \/ Arrive \/ LoadFails

Spec == Init /\ [][Next]_vars
-----------------------------------------------------------------------------
(***************************************************************************)
(* Properties                                                              *)
(***************************************************************************)
\* However activations race and whatever is revived, a port and an ONU have at
\* most one active service.
OneServicePerPort ==
  \A i, j \in DOMAIN links : i # j /\ links[i].active /\ links[j].active =>
    links[i].port # links[j].port /\ links[i].onu # links[j].onu

\* A confirmed deactivation ends the service that the details of the port showed
\* when it was asked for, and only if that service is still active then.
EndsWhatWasShown ==
  [][ends # None /\ ends' # None /\ ends.stage # ends'.stage =>
       LET i == ends.link.id IN links[i].active /\ Row(i) = ends.link]_vars

\* A wizard opened at a port activates that port, whatever it was used for
\* before, unless its operator picked another one after the port was deselected.
ActivatesChosenPort ==
  wizard.open /\ wizard.begun # None => wizard.picked \/ wizard.port = wizard.begun

TypeOK ==
  /\ \A i \in DOMAIN links : links[i].port \in Port /\ links[i].onu \in Onu
  /\ wizard.port \in Port \cup {None} /\ wizard.step \in 1 .. 4
  /\ load.stage \in {"none", "asked", "read"}
  /\ selected # None => selected.port \in Port
  /\ sent # None => sent.stage \in {"sent", "checked", "done"} /\ sent.port \in Port
  /\ ends # None => ends.stage \in {"sent", "done"}
  /\ ending # None => ending.port \in Port /\ ending.id \in DOMAIN links
=============================================================================

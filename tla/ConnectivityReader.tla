------------------------- MODULE ConnectivityReader -------------------------
(* The fusion editor's load, get_structure_connectivity, running beside the  *)
(* writers of Connectivity.  Its SELECTs are statements of a READ COMMITTED  *)
(* transaction: each sees whatever is committed when it runs.                *)
EXTENDS Connectivity

CONSTANT Box      \* the structure the editor shows

VARIABLES page, step

readerVars == <<page, step>>

InBox == {x \in Terminal : LocationOf[x] = Box}
ActiveLinks == {c \in ConnId : Active(c) /\ Ends(c) \cap InBox # {}}
Empty == [revision |-> 0, terminals |-> <<>>, connections |-> {}, reservations |-> {}]

ReaderInit == Init /\ page = Empty /\ step = "revision"

(* The revision first, then terminals, connections and reservations.  The    *)
(* internal edges do not change in this model.                               *)
Read(from, field, value, to) ==
    /\ step = from
    /\ page' = [page EXCEPT ![field] = value]
    /\ step' = to
    /\ UNCHANGED vars

ReadRevision     == Read("revision", "revision", rev, "terminals")
ReadTerminals    == Read("terminals", "terminals", [x \in InBox |-> occ[x]], "connections")
ReadConnections  == Read("connections", "connections", ActiveLinks, "reservations")
ReadReservations == Read("reservations", "reservations", resv \cap InBox, "shown")
Reload == step = "shown" /\ page' = Empty /\ step' = "revision" /\ UNCHANGED vars

Load == ReadRevision \/ ReadTerminals \/ ReadConnections \/ ReadReservations

ReaderNext == \/ Next /\ UNCHANGED readerVars
              \/ Load
              \/ Reload

ReaderSpec == ReaderInit /\ [][ReaderNext]_<<vars, readerVars>>

(* What the editor shows is what the database holds, as long as the revision *)
(* on its page is still the current one.  The four SELECTs are no snapshot:  *)
(* a commit between them gives a mixed page, which must then carry a         *)
(* revision the batch check will refuse.                                     *)
PageIsCurrent ==
    step = "shown" /\ page.revision = rev =>
      /\ page.terminals = [x \in InBox |-> occ[x]]
      /\ page.connections = ActiveLinks
      /\ page.reservations = resv \cap InBox
=============================================================================

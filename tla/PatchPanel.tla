----------------------------- MODULE PatchPanel -----------------------------
(* What the fusion engine promises: a patch panel whose wiring is at every   *)
(* moment a matching of terminals, changed in single steps each of which     *)
(* gives it a new revision.                                                  *)
EXTENDS Naturals

CONSTANT Terminal

VARIABLES links, revision

Pairs == {{p[1], p[2]} : p \in {q \in Terminal \X Terminal : q[1] # q[2]}}
Matching(wiring) == \A k, l \in wiring : k # l => k \cap l = {}

Init == links = {} /\ revision = 1

Rewire == /\ links' \subseteq Pairs
          /\ Matching(links')
          /\ revision' = revision + 1

Spec == Init /\ [][Rewire]_<<links, revision>>
=============================================================================

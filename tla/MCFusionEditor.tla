--------------------------- MODULE MCFusionEditor ---------------------------
(* A small instance of FusionEditor: three terminals, two submissions.      *)
EXTENDS FusionEditor, TLC

Symmetry == Permutations(Terminal)
=============================================================================

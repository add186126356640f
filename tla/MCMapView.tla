------------------------------ MODULE MCMapView ------------------------------
(* A small instance of MapView: a straight segment and two further           *)
(* coordinates.  Not explored is what follows a state beyond MaxVersion      *)
(* versions or one where a load failed while a request is under way; the     *)
(* steps that reach such a state are still checked.                          *)
EXTENDS MapView

CONSTANT MaxVersion

Bounded == Version <= MaxVersion /\ (failed => UnderWay = {})
=============================================================================

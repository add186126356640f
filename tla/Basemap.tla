------------------------------- MODULE Basemap -------------------------------
(***************************************************************************)
(* The renderer of the operational map: what React has last computed for   *)
(* its sources beside what MapLibre draws.  MapLibre is external: it drops *)
(* the sources with the style they were added to, raises style.load when   *)
(* the next one is there, and calls no style loaded while tiles or a       *)
(* setData are being worked on.  The five sources change together.         *)
(***************************************************************************)
EXTENDS Naturals

CONSTANTS
  MaxData,  \* bound on the versions of the data
  None

VARIABLES
  data,     \* the version of the GeoJSON computed by the last render
  mounted,  \* history: the version at the time the map was created
  style,    \* "loading", then "ready" when style.load has been raised
  coming,   \* setStyle has been called, its style is on its way
  working,  \* tiles or a setData are being worked on
  drawn,    \* the version in the sources; None without them
  synced,   \* how often setupSourcesAndLayers has reported the viewport
  skipped   \* history: the last render met a style not loaded, with its sources there

vars == <<data, mounted, style, coming, working, drawn, synced, skipped>>

Created ==
  /\ mounted' = data /\ style' = "loading" /\ coming' = FALSE /\ working' = TRUE
  /\ drawn' = None /\ synced' = 0 /\ skipped' = FALSE

Init ==
  /\ data = 1 /\ mounted = 1 /\ style = "loading" /\ coming = FALSE /\ working = TRUE
  /\ drawn = None /\ synced = 0 /\ skipped = FALSE

isStyleLoaded == style = "ready" /\ ~working

\* Features, layers, selection, draft or snap have changed: the effect updates
\* the sources, or leaves them as they are.
Render ==
  /\ data < MaxData /\ data' = data + 1
  /\ IF isStyleLoaded
     THEN drawn' = data' /\ working' = TRUE /\ skipped' = FALSE
     ELSE skipped' = (style = "ready") /\ UNCHANGED <<drawn, working>>
  /\ UNCHANGED <<mounted, style, coming, synced>>

\* geoJsonRef.current; a fault reads the variables of the effect instead.
Newest == data
AtCreation == mounted
currentGeoJson == Newest

\* style.load, and load, which finds the sources there.
setupSourcesAndLayers ==
  /\ style = "loading" /\ style' = "ready"
  /\ drawn' = currentGeoJson /\ working' = TRUE /\ skipped' = FALSE
  /\ synced' = IF synced = 0 THEN 1 ELSE synced
  /\ UNCHANGED <<data, mounted, coming>>

SwitchTheme ==
  /\ coming' = TRUE
  /\ UNCHANGED <<data, mounted, style, working, drawn, synced, skipped>>

\* The new style takes the place of the old one and of its sources.
StyleArrives ==
  /\ coming /\ coming' = FALSE
  /\ style' = "loading" /\ working' = TRUE /\ drawn' = None /\ skipped' = FALSE
  /\ UNCHANGED <<data, mounted, synced>>

\* A pan or a zoom, by the operator or by a control, loads other tiles.
Move ==
  /\ style = "ready" /\ working' = TRUE
  /\ UNCHANGED <<data, mounted, style, coming, drawn, synced, skipped>>

Settle ==
  /\ style = "ready" /\ working /\ working' = FALSE
  /\ UNCHANGED <<data, mounted, style, coming, drawn, synced, skipped>>

\* The map is left for the list, and shown again.
Remount == Created /\ UNCHANGED data

Next == Render \/ setupSourcesAndLayers \/ SwitchTheme \/ StyleArrives \/ Move \/ Settle \/ Remount

Spec == Init /\ [][Next]_vars
-----------------------------------------------------------------------------
\* Whatever is filtered, selected or drawn while a style is on its way is drawn
\* once it has loaded, and the viewport is reported once and not with every
\* style; what is drawn is older only after an update that met a map at work.
StyleKeepsTheNetwork ==
  style = "ready" => synced = 1 /\ (skipped \/ drawn = data)

TypeOK ==
  /\ data \in Nat \ {0} /\ mounted \in 1 .. data
  /\ style \in {"loading", "ready"}
  /\ {coming, working, skipped} \subseteq BOOLEAN
  /\ drawn \in (1 .. data) \cup {None}
  /\ synced \in {0, 1}
=============================================================================

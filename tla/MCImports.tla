------------------------------ MODULE MCImports ------------------------------
(* Two previews, two accounts with the same key texts, two racing requests.   *)
EXTENDS Imports
CONSTANTS k, ann, bob, x, r1, r2
=============================================================================

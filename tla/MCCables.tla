------------------------------ MODULE MCCables ------------------------------
EXTENDS Cables
CONSTANTS c1, c2, A, B, C

\* One cable route; the splits take it through the third box and back.
OneRoute == {<<A, C>>}
=============================================================================

---------------------------- MODULE MCDataPlane ----------------------------
(* DataPlane for TLC.  Its constants are a switch and three bounds, which the *)
(* configurations set.                                                        *)
EXTENDS DataPlane
=============================================================================

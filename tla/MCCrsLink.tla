------------------------------ MODULE MCCrsLink -------------------------------
(* CrsLink for TLC: objects are interchangeable, but liveness is checked, so no *)
(* symmetry is used.                                                            *)
EXTENDS CrsLink

===============================================================================

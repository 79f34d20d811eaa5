------------------------------- MODULE MCSSE -------------------------------
(* Small instances of SSE for TLC. *)
EXTENDS SSE

CONSTANTS c1, c2, p1, p2, red, blue, all, nofilter, none
=============================================================================

---------------------------- MODULE MCChangelog ----------------------------
(* A small instance of Changelog for TLC. *)
EXTENDS Changelog

CONSTANTS p1, p2, s1, s2
=============================================================================

------------------------------ MODULE MCCleanup ------------------------------
(***************************************************************************)
(* A rule, an apply, five days with thresholds of a day, and two things    *)
(* that people and traffic do to the rule.                                 *)
(***************************************************************************)
EXTENDS Cleanup

CONSTANTS u1, g1, j1

MCPins == {None, Never, Invalid}
=============================================================================

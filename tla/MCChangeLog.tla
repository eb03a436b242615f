----------------------------- MODULE MCChangeLog -----------------------------
(* ChangeLog for TLC: two interchangeable threads, one rule of the            *)
(* administrator's and one uid for a rule PolicyPilot adds or recreates.      *)
EXTENDS ChangeLog, TLC

CONSTANTS f, n, t1, t2

MCRules == {f, n}
MCForeign == {f}
MCActors == {t1, t2}

Symmetry == Permutations(MCActors)
=============================================================================

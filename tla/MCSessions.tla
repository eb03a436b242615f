------------------------------ MODULE MCSessions ------------------------------
(***************************************************************************)
(* Three applies on the shared session, one of them a dry run, or one of   *)
(* them against one with a session of its own, or a read, or three reads.  *)
(***************************************************************************)
EXTENDS Sessions

CONSTANTS c1, c2, c3, c4, r1, r2, r3

MCCasts == {{c1, c2, c4}, {c2, c3}, {c2, r1}, {r1, r2, r3}}
=============================================================================

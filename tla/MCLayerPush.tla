----------------------------- MODULE MCLayerPush -----------------------------
(***************************************************************************)
(* Two rules, one with an address of its own; a push from the portal and   *)
(* one of an agent, two of an agent under one key, a dry run and the mock. *)
(***************************************************************************)
EXTENDS LayerPush

CONSTANTS p1, p2, p3, p4, p5, ra, rb, n1, h1, h2

MCCasts ==
    [pushes : {{p2}}, edits : {2}, faults : {1}]
        \cup [pushes : {{p4}, {p5}}, edits : {1}, faults : {1}]
        \cup [pushes : {{p1, p2}}, edits : {0}, faults : {2}]
        \cup [pushes : {{p2, p3}}, edits : {0}, faults : {1}]

MCContents ==
    {[rules |-> {rb}, defs |-> {}, refs |-> {"service"}],
     [rules |-> {}, defs |-> {}, refs |-> {}]}

MCUses(r) == IF r = ra THEN "address" ELSE "service"
=============================================================================

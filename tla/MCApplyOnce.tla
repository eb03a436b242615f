---------------------------- MODULE MCApplyOnce ----------------------------
(* ApplyOnce for TLC.  One ticket that is delivered for two requests, one tool *)
(* key that an MCP call and a REST call use for two requests: change a is      *)
(* found settled by a second decision, change b is not.                        *)
EXTENDS ApplyOnce

MCDeliveries == {"w1", "w2", "m1", "r1"}
MCKeys == {"ticket", "key"}
MCChanges == {"a", "b"}
MCSettling == {"a"}
MCKey == [d \in MCDeliveries |-> IF d \in {"w1", "w2"} THEN "ticket" ELSE "key"]
MCAsks == [d \in MCDeliveries |-> IF d \in {"w1", "m1"} THEN "b" ELSE "a"]
MCSurface == [d \in MCDeliveries |->
                 IF d \in {"w1", "w2"} THEN "webhook" ELSE IF d = "m1" THEN "mcp" ELSE "rest"]

\* Two REST calls of the same change under the same key.
TwiceDeliveries == {"r1", "r2"}
TwiceKeys == {"key"}
TwiceChanges == {"b"}
TwiceKey == [d \in TwiceDeliveries |-> "key"]
TwiceAsks == [d \in TwiceDeliveries |-> "b"]
TwiceSurface == [d \in TwiceDeliveries |-> "rest"]
=============================================================================

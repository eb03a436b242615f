--------------------------- MODULE RevertLifecycle ---------------------------
(***************************************************************************)
(* What the rollback journal promises of one published change, as the      *)
(* docstrings of revert_state and revert_change draw it: active, disabled  *)
(* and resolved, with resolved terminal.  A change that a crash, a lost    *)
(* answer or an overlap of two threads has hit is doubtful, and a doubtful *)
(* change stays doubtful until its entry is forgotten.                     *)
(***************************************************************************)
CONSTANT Changes

VARIABLE view   \* the state an entry is in, as its readers may rely on it

Views == {"none", "active", "disabled", "resolved", "doubtful", "lost"}

\* The states a change may be seen in next.
Onward(v) ==
    CASE v = "none"     -> {"none", "active", "disabled", "resolved", "doubtful", "lost"}
      [] v = "active"   -> {"active", "disabled", "resolved", "doubtful", "lost"}
      [] v = "disabled" -> {"disabled", "active", "resolved", "doubtful", "lost"}
      [] v = "resolved" -> {"resolved", "doubtful", "lost"}
      [] v = "doubtful" -> {"doubtful", "lost"}
      [] v = "lost"     -> {"lost"}

Init == view = [c \in Changes |-> "none"]

Next ==
    /\ view' \in [Changes -> Views]
    /\ \A c \in Changes : view'[c] \in Onward(view[c])

Spec == Init /\ [][Next]_view

=============================================================================

----------------------------- MODULE MCTimeline -----------------------------
(* An instance of Timeline for TLC: one message of each user. *)
EXTENDS Timeline

CONSTANTS m1, m2, t1

Authors == [m \in Messages |-> IF m = m1 THEN Me ELSE Other]
Texts   == [m \in Messages |-> t1]
=============================================================================

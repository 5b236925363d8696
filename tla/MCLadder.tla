------------------------------ MODULE MCLadder -------------------------------
(* Instances of Ladder for TLC.  A unit of time is min_duration_s, the least  *)
(* a span must last to be judged.                                             *)
EXTENDS Day

CONSTANTS
  MaxLabels,    \* the bound of the labels of one event
  MaxAnswers,   \* the bound of the labels by the user
  MaxRestarts   \* the bound of the stops and crashes

VARIABLE restarts   \* how many there were

(* A window the rules deny and windows they do not know; no task. *)
Rules == [w \in Windows |-> IF w = "video" THEN "off" ELSE "none"]
NoHints == {}

Bounded ==
  /\ \A r \in DOMAIN labels' : Len(labels'[r]) <= MaxLabels
  /\ Cardinality({<<r, i>> \in (1..MaxRows) \X (1..MaxLabels) :
       r \in DOMAIN labels' /\ i \in DOMAIN labels'[r] /\ labels'[r][i].source = "user"})
       <= MaxAnswers

(* The daemon starts with a session open: it may end and, if Sessions allows, *)
(* be followed by another.                                                    *)
BoundedInit == Init /\ session = 1 /\ restarts = 0

BoundedNext ==
  /\ \/ Running /\ UNCHANGED restarts
     \/ restarts < MaxRestarts /\ Restart /\ restarts' = restarts + 1
  /\ Bounded

BoundedSpec == BoundedInit /\ [][BoundedNext]_<<vars, restarts>>
=============================================================================

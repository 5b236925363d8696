------------------------------ MODULE MCTasks -------------------------------
(* An instance of Tasks for TLC: two names that differ only in case, and a     *)
(* float with one bit below 1.0, so that the room between two tasks runs out.  *)
EXTENDS Tasks

SameButCase == [code |-> "code", Code |-> "code"]
=============================================================================

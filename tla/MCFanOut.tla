------------------------------ MODULE MCFanOut ------------------------------
(* Instances of FanOut for TLC. *)
EXTENDS FanOut

CONSTANT reader

MCTasks == Calls \cup {reader}
=============================================================================

---------------------------- MODULE MCCommandLoop ----------------------------
(* CommandLoop for TLC: lines of every kind.                               *)
EXTENDS CommandLoop

Every == AllKinds
=============================================================================
